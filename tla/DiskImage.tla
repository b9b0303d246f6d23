------------------------------ MODULE DiskImage ------------------------------
(***************************************************************************)
(* build, build-builder, to-disk-image and download of aib/main.py, with   *)
(* run_osbuild and export_disk_image_file of aib/osbuild.py, run by several *)
(* aib processes over one container store and one file system.             *)
(*                                                                         *)
(* Each external tool (osbuild, skopeo, podman, image-builder, mv) is one  *)
(* step, between any two of which other processes run.                     *)
(***************************************************************************)
EXTENDS FiniteSets, Naturals

CONSTANTS
  Name,           \* container names
  Proc,           \* aib processes; also the random names they draw
  File,           \* output paths of disk images and archives
  Part,           \* the partitions of a disk
  FileOf,         \* the file --separate-partitions puts a partition in: its
                  \* name, or its number, and the extension of its format
  Truncatable,    \* the partitions of it that are cut to their last data
  Tree,           \* what a manifest can be composed to; also its digest
  Distro,
  DistroOf,       \* the distro a tree is of
  DefaultDistro,
  BuilderOf,      \* aib_build_container_name: where a distro's tools are
  Jobs,           \* the commands users run
  Fault,          \* optional faults of the environment
  NoImage, NoDisk, NoTree, NoFile, NoName

\* "probe": reading /etc/build-info out of an image fails.
FaultKinds == {"probe"}

Ref == Name \cup Proc

\* A bootc image; a builder's label has the digest of its manifest, its tree.
Image == [tree : Tree, kind : {"os", "builder"}]

\* A disk image: what it was made of, by the tools of which distro, which of the
\* partitions that may be cut hold no data, and the partitions that are written.
Disk == [img : Image, tools : Distro, blank : SUBSET Truncatable,
         parts : SUBSET Part]

\* A command line.  `ctr' says where build puts the container ("none": "-") and
\* where to-disk-image takes it from; `tools' is --build-container; `mode' is
\* raw, converted (qcow2, simg) or --separate-partitions.
Job == [cmd : {"build", "build-builder", "to-disk-image", "download"},
        ctr : {"store", "archive", "tar", "none", "dry-run"},
        name : Name \cup {NoName}, file : File \cup {NoFile},
        disk : File \cup {NoFile}, mode : {"raw", "converted", "partitions"},
        tools : Name \cup {NoName}, distro : Distro, ifneeded : BOOLEAN]

ASSUME DiskAssumption ==
  /\ Name \cap Proc = {}
  /\ DistroOf \in [Tree -> Distro]
  /\ BuilderOf \in [Distro -> Name]
  /\ DefaultDistro \in Distro
  /\ Truncatable \subseteq Part
  /\ NoImage \notin Image /\ NoDisk \notin Disk /\ NoTree \notin Tree
  /\ NoFile \notin File /\ NoName \notin Name
  /\ Jobs \subseteq Job /\ Jobs # {}
  /\ \A j \in Jobs :
       /\ j.cmd = "to-disk-image" => j.disk # NoFile
       /\ j.cmd \in {"build-builder", "download"} => j.disk = NoFile
       /\ j.cmd \in {"to-disk-image", "build-builder"} =>
            j.ctr \in {"store", "archive"}
       /\ j.cmd # "build-builder" =>
            /\ j.ctr = "store" => j.name # NoName
            /\ j.ctr \in {"archive", "tar"} => j.file # NoFile
  /\ Fault \subseteq FaultKinds

VARIABLES
  ref,      \* the image each reference names
  archive,  \* the image in each archive file
  disk,     \* the disk image in each file or directory
  pc, job,
  exc,      \* the exception a process is unwinding
  open,     \* the context managers it is inside of
  etag,     \* BuildETag.old_etag
  tree,     \* what its manifest was composed to
  distro,   \* the distro get_build_container_for settled on
  raw,      \* image.raw in its bib-out directory
  todo,     \* the partitions of it that it still has to look at
  left,     \* the directories its cleanup could not remove
  excused,  \* podman failed to remove its temporary image, or it was interrupted
            \* while it did
  reason    \* history: why it failed

outVars  == <<ref, archive, disk>>
workVars == <<etag, tree, distro, raw, todo, left, excused, reason>>
vars     == <<outVars, pc, job, exc, open, workVars>>

Manager == {"tmpdir", "temp", "output", "bibout"}
Depth == [m \in Manager |->
              CASE m = "tmpdir" -> 0 [] m = "temp" -> 1 [] OTHER -> 2]

Label == {"exited", "killed", "unwinding", "options", "etag", "load",
          "compose", "osbuild", "export", "move", "leaveoutput", "open",
          "info", "builder", "make", "write", "parts", "leavebibout", "return"}

TypeOK ==
  /\ ref \in [Ref -> Image \cup {NoImage}]
  /\ archive \in [File -> Image \cup {NoImage}]
  /\ disk \in [File -> Disk \cup {NoDisk}]
  /\ pc \in [Proc -> Label]
  /\ job \in [Proc -> Jobs]
  /\ exc \in [Proc -> {"none", "error"}]
  /\ open \in [Proc -> SUBSET Manager]
  /\ etag \in [Proc -> Tree \cup {NoTree}]
  /\ tree \in [Proc -> Tree \cup {NoTree}]
  /\ distro \in [Proc -> Distro]
  /\ raw \in [Proc -> Disk \cup {NoDisk}]
  /\ todo \in [Proc -> SUBSET Part]
  /\ left \in [Proc -> SUBSET Manager]
  /\ excused \in [Proc -> BOOLEAN]
  /\ reason \in [Proc -> {"none", "tool", "input"}]

Running(p) == pc[p] \notin {"exited", "killed"}
At(p, l) == pc[p] = l /\ exc[p] = "none"
Goto(p, l) == pc' = [pc EXCEPT ![p] = l]
Raise(p) == exc' = [exc EXCEPT ![p] = "error"] /\ Goto(p, "unwinding")
Because(p, r) == reason' = [reason EXCEPT ![p] = r]
Enter(p, ms) == open' = [open EXCEPT ![p] = @ \cup ms]
Leave(p, m) == open' = [open EXCEPT ![p] = @ \ {m}]
Continue(p, l) == Goto(p, IF exc[p] = "none" THEN l ELSE pc[p])

\* What the command line is about: the name build-builder stores under, the
\* container a disk is made of (a random name unless it is in the store), and
\* what the composed tree becomes.
Dest(j) == IF j.name = NoName THEN BuilderOf[j.distro] ELSE j.name
SharedTempName(p) == CHOOSE q \in Proc : TRUE
TempName(p) == p
Source(p) == IF job[p].ctr = "store" THEN job[p].name ELSE TempName(p)
Built(p) == [tree |-> tree[p],
             kind |-> IF job[p].cmd = "build" THEN "os" ELSE "builder"]

\* Users do not run commands side by side that write what another one uses.
Names(j) == IF j.cmd = "build-builder" THEN {Dest(j)}
            ELSE IF j.ctr = "store" THEN {j.name} ELSE {}
Written(j) == {j.disk} \cup (IF j.cmd = "to-disk-image" THEN {} ELSE {j.file})
Used(j) == {j.disk, j.file}
Tools(j) == IF j.disk = NoFile THEN {}
            ELSE {j.tools} \cup {BuilderOf[d] : d \in Distro}
Stores(j) == IF j.cmd \in {"build", "build-builder"} THEN Names(j) ELSE {}
Apart(j, k) ==
  /\ Stores(j) \cap (Names(k) \cup Tools(k)) = {}
  /\ Stores(k) \cap (Names(j) \cup Tools(j)) = {}
  /\ (Written(j) \cap Used(k)) \cup (Written(k) \cap Used(j)) \subseteq {NoFile}

\* What the state of an ended process is worth.
NoCommand == CHOOSE j \in Jobs : TRUE

Init ==
  /\ ref \in [Ref -> {NoImage} \cup [tree : Tree, kind : {"builder"}]]
  /\ \A d \in Distro : ref[BuilderOf[d]] # NoImage =>
       DistroOf[ref[BuilderOf[d]].tree] = d
  /\ \A r \in Ref : (\A d \in Distro : r # BuilderOf[d]) => ref[r] = NoImage
  /\ archive = [f \in File |-> NoImage]
  /\ disk = [f \in File |-> NoDisk]
  /\ pc = [p \in Proc |-> "exited"]
  /\ job = [p \in Proc |-> NoCommand]
  /\ exc = [p \in Proc |-> "none"]
  /\ open = [p \in Proc |-> {}]
  /\ etag = [p \in Proc |-> NoTree]
  /\ tree = [p \in Proc |-> NoTree]
  /\ distro = [p \in Proc |-> DefaultDistro]
  /\ raw = [p \in Proc |-> NoDisk]
  /\ todo = [p \in Proc |-> {}]
  /\ left = [p \in Proc |-> {}]
  /\ excused = [p \in Proc |-> FALSE]
  /\ reason = [p \in Proc |-> "none"]

-----------------------------------------------------------------------------
(* The commands up to a container.                                         *)

\* main: a new process and its tmpdir.
Start(p, j) ==
  /\ ~Running(p)
  /\ \A q \in Proc : Running(q) => Apart(j, job[q])
  /\ Goto(p, "options")
  /\ job' = [job EXCEPT ![p] = j]
  /\ exc' = [exc EXCEPT ![p] = "none"]
  /\ Enter(p, {"tmpdir"})
  /\ ref' = [ref EXCEPT ![TempName(p)] = NoImage]    \* the name it draws is new
  /\ UNCHANGED <<archive, disk, workVars>>

\* What each command looks at before it does anything.
CheckOptions(p) ==
  LET j == job[p] IN
  /\ At(p, "options")
  /\ \/ /\ \/ j.cmd = "build" /\ j.disk # NoFile /\ j.ctr = "tar"
           \/ /\ j.cmd = "to-disk-image" /\ j.ctr = "store"
              /\ ref[j.name] = NoImage
        /\ Raise(p) /\ Because(p, "input") /\ UNCHANGED open
     \/ /\ j.cmd = "build" => j.disk = NoFile \/ j.ctr # "tar"
        /\ j.cmd = "to-disk-image" /\ j.ctr = "store" => ref[j.name] # NoImage
        /\ IF j.cmd = "to-disk-image" /\ j.ctr # "store"
             THEN Enter(p, {"temp"}) ELSE UNCHANGED open
        /\ Goto(p, CASE j.cmd = "build-builder" -> "etag"
                     [] j.cmd = "to-disk-image" /\ j.ctr = "store" -> "open"
                     [] j.cmd = "to-disk-image" /\ j.ctr # "store" -> "load"
                     [] OTHER -> "compose")
        /\ UNCHANGED <<exc, reason>>
  /\ UNCHANGED <<outVars, job, etag, tree, distro, raw, todo, left, excused>>

\* to-disk-image --oci-archive: bootc_archive_to_store under a random name.
LoadArchive(p) ==
  /\ At(p, "load")
  /\ IF archive[job[p].file] = NoImage
       THEN Raise(p) /\ Because(p, "input") /\ UNCHANGED ref
       ELSE /\ ref' = [ref EXCEPT ![TempName(p)] = archive[job[p].file]]
            /\ Goto(p, "open")
            /\ UNCHANGED <<exc, reason>>
  /\ UNCHANGED <<archive, disk, job, open, etag, tree, distro, raw, todo,
                 left, excused>>

\* build-builder --if-needed: the digest label of the image it may keep.
ReadEtag(p) ==
  LET j == job[p] IN
  /\ At(p, "etag")
  /\ etag' = [etag EXCEPT ![p] =
                IF j.ifneeded /\ j.ctr = "store" /\ ref[Dest(j)] # NoImage
                     /\ ref[Dest(j)].kind = "builder"
                  THEN ref[Dest(j)].tree ELSE NoTree]
  /\ Goto(p, "compose")
  /\ UNCHANGED <<outVars, job, exc, open, tree, distro, raw, todo, left,
                 excused, reason>>

ShouldBuildIfMissing(old, new) == old = NoTree

\* BuildETag.should_build.
ShouldBuild(old, new) == old = NoTree \/ old # new

\* create_osbuild_manifest, and NotBuildByEtag when the digest is the old one.
Compose(p) ==
  /\ At(p, "compose")
  /\ \E t \in Tree :
       /\ DistroOf[t] = job[p].distro
       /\ tree' = [tree EXCEPT ![p] = t]
       /\ Goto(p, IF job[p].cmd = "build-builder" /\ ~ShouldBuild(etag[p], t)
                    THEN "return" ELSE "osbuild")
  /\ UNCHANGED <<outVars, job, exc, open, etag, distro, raw, todo, left,
                 excused, reason>>

\* run_osbuild: the output directory, kept by detach() for the caller's block.
Osbuild(p) ==
  /\ At(p, "osbuild")
  /\ Enter(p, {"output"})
  /\ Goto(p, IF job[p].cmd = "download" \/ job[p].ctr = "dry-run"
               THEN "leaveoutput" ELSE "export")
  /\ UNCHANGED <<outVars, job, exc, workVars>>

DrawsNoArchiveName(j) == j.cmd = "build" /\ j.disk # NoFile /\ j.ctr = "none"

\* The random name is drawn, and handed to the ExitStack, when the disk is made
\* of a container the user does not want in the store.
DrawsName(j) ==
  j.cmd = "build" /\ j.disk # NoFile /\ j.ctr \in {"archive", "none"}

StoreUnmanaged(p) ==
  LET j == job[p] IN
  /\ At(p, "export")
  /\ \/ /\ j.ctr = "store"
        /\ ref' = [ref EXCEPT ![IF j.cmd = "build" THEN j.name ELSE Dest(j)] =
                     Built(p)]
     \/ DrawsName(j) /\ ref' = [ref EXCEPT ![TempName(p)] = Built(p)]
     \/ j.ctr # "store" /\ ~DrawsName(j) /\ UNCHANGED ref
  /\ Goto(p, IF j.ctr \in {"archive", "tar"} THEN "move" ELSE "leaveoutput")
  /\ UNCHANGED <<archive, disk, job, exc, open, workVars>>

\* bootc_archive_to_store, in build and build-builder.
StoreContainer(p) ==
  LET j == job[p] IN
  /\ At(p, "export")
  /\ \/ /\ j.ctr = "store"
        /\ ref' = [ref EXCEPT ![IF j.cmd = "build" THEN j.name ELSE Dest(j)] =
                     Built(p)]
        /\ UNCHANGED open
     \/ /\ DrawsName(j)
        /\ ref' = [ref EXCEPT ![TempName(p)] = Built(p)]
        /\ Enter(p, {"temp"})
     \/ j.ctr # "store" /\ ~DrawsName(j) /\ UNCHANGED <<ref, open>>
  /\ Goto(p, IF j.ctr \in {"archive", "tar"} THEN "move" ELSE "leaveoutput")
  /\ UNCHANGED <<archive, disk, job, exc, workVars>>

\* runner.move_chown(output_file, args.out).  build-builder --oci-archive may be
\* given no `out': then the path is None.
MoveArchive(p) ==
  /\ At(p, "move")
  /\ IF job[p].file = NoFile
       THEN Raise(p) /\ UNCHANGED archive
       ELSE /\ archive' = [archive EXCEPT ![job[p].file] = Built(p)]
            /\ Goto(p, "leaveoutput")
            /\ UNCHANGED exc
  /\ UNCHANGED <<ref, disk, job, open, workVars>>

-----------------------------------------------------------------------------
(* container_to_disk_image.                                                *)

\* The bib-out directory next to the output, then --build-container if given.
OpenOut(p) ==
  /\ At(p, "open")
  /\ Enter(p, {"bibout"})
  /\ Goto(p, IF job[p].tools = NoName THEN "info" ELSE "make")
  /\ UNCHANGED <<outVars, job, exc, workVars>>

DistroAlwaysDefault(img, readable) == DefaultDistro

\* podman_image_info: without a readable /etc/build-info, whatever the reason,
\* the default distro is taken.
DistroFrom(img, readable) ==
  IF readable THEN DistroOf[img.tree] ELSE DefaultDistro

ReadInfo(p) ==
  /\ At(p, "info")
  /\ IF ref[Source(p)] = NoImage
       THEN /\ Raise(p)
            /\ Because(p, IF job[p].ctr = "store" THEN "input" ELSE "none")
            /\ UNCHANGED distro
       ELSE /\ \E readable \in BOOLEAN :
                 /\ readable \/ "probe" \in Fault
                 /\ distro' = [distro EXCEPT ![p] =
                                 DistroFrom(ref[Source(p)], readable)]
            /\ Goto(p, "builder")
            /\ UNCHANGED <<exc, reason>>
  /\ UNCHANGED <<outVars, job, open, etag, tree, raw, todo, left, excused>>

\* get_build_container_for: BuildContainerNotFound.
FindBuilder(p) ==
  /\ At(p, "builder")
  /\ IF ref[BuilderOf[distro[p]]] = NoImage
       THEN Raise(p) /\ Because(p, "input")
       ELSE Goto(p, "make") /\ UNCHANGED <<exc, reason>>
  /\ UNCHANGED <<outVars, job, open, etag, tree, distro, raw, todo, left,
                 excused>>

Builder(p) ==
  IF job[p].tools = NoName THEN BuilderOf[distro[p]] ELSE job[p].tools

\* image-builder resolves both names again.
MakeDisk(p) ==
  /\ At(p, "make")
  /\ IF ref[Source(p)] = NoImage \/ ref[Builder(p)] = NoImage
       THEN /\ Raise(p)
            /\ Because(p, IF job[p].ctr = "store" \/ ref[Builder(p)] = NoImage
                            THEN "input" ELSE "none")
            /\ UNCHANGED raw
       ELSE /\ \E b \in SUBSET Truncatable :
                 raw' = [raw EXCEPT ![p] =
                           [img |-> ref[Source(p)],
                            tools |-> DistroOf[ref[Builder(p)].tree],
                            blank |-> b, parts |-> Part]]
            /\ Goto(p, "write")
            /\ UNCHANGED <<exc, reason>>
  /\ UNCHANGED <<outVars, job, open, etag, tree, distro, todo, left, excused>>

\* export_disk_image_file: mv of a raw image; else the output is begun, empty,
\* in place of what was there.
WriteDisk(p) ==
  /\ At(p, "write")
  /\ IF job[p].mode = "raw"
       THEN /\ disk' = [disk EXCEPT ![job[p].disk] = raw[p]]
            /\ Goto(p, "leavebibout")
            /\ UNCHANGED todo
       ELSE /\ disk' = [disk EXCEPT ![job[p].disk] =
                           [raw[p] EXCEPT !.parts = {}]]
            /\ Goto(p, "parts")
            /\ todo' = [todo EXCEPT ![p] = Part]
  /\ UNCHANGED <<ref, archive, job, exc, open, etag, tree, distro, raw, left,
                 excused, reason>>

\* Mutant: `break' where an empty partition is to be skipped.
ToWriteBreak(x, rest, blank) == IF x \in blank THEN {} ELSE rest

\* The partitions the loop still looks at after x.
ToWrite(x, rest, blank) == rest

\* The end of qemu-img or convert_to_simg; or the next partition is exported: an
\* empty one is skipped, and one whose file exists already replaces it.
WritePart(p) ==
  LET d == job[p].disk IN
  /\ At(p, "parts")
  /\ \/ /\ todo[p] = {}
        /\ Goto(p, "leavebibout")
        /\ UNCHANGED <<disk, todo>>
     \/ /\ todo[p] # {} /\ job[p].mode # "partitions"
        /\ disk' = [disk EXCEPT ![d].parts = Part]
        /\ todo' = [todo EXCEPT ![p] = {}]
        /\ UNCHANGED pc
     \/ /\ job[p].mode = "partitions"
        /\ \E x \in todo[p] :
             /\ disk' = IF x \in raw[p].blank THEN disk
                        ELSE [disk EXCEPT ![d].parts =
                                {y \in @ : FileOf[y] # FileOf[x]} \cup {x}]
             /\ todo' = [todo EXCEPT ![p] = ToWrite(x, @ \ {x}, raw[p].blank)]
        /\ UNCHANGED pc
  /\ UNCHANGED <<ref, archive, job, exc, open, etag, tree, distro, raw, left,
                 excused, reason>>

-----------------------------------------------------------------------------
(* Leaving with-blocks.                                                    *)

End == [m \in Manager |->
          CASE m \in {"tmpdir", "temp"} -> "return"
            [] m = "output" -> "leaveoutput" [] m = "bibout" -> "leavebibout"]

Closing(p, m) ==
  /\ Running(p)
  /\ m \in open[p]
  /\ \A o \in open[p] : Depth[o] <= Depth[m]
  /\ exc[p] # "none" \/ pc[p] = End[m]

\* SudoTemporaryDirectory.cleanup removes the directory or raises RuntimeError.
RemoveDirectory(p, m, next) ==
  /\ Leave(p, m)
  /\ \/ Continue(p, next) /\ UNCHANGED <<exc, left, reason>>
     \/ /\ Raise(p)
        /\ left' = [left EXCEPT ![p] = @ \cup {m}]
        /\ Because(p, "tool")

AfterOutputInStore(j) ==
  IF j.disk = NoFile \/ j.ctr # "store" THEN "return" ELSE "open"

AfterOutput(j) ==
  IF j.disk = NoFile \/ j.ctr = "dry-run" THEN "return" ELSE "open"

CloseOutput(p) ==
  /\ Closing(p, "output")
  /\ RemoveDirectory(p, "output", AfterOutput(job[p]))
  /\ UNCHANGED <<outVars, job, etag, tree, distro, raw, todo, excused>>

CloseBibOut(p) ==
  /\ Closing(p, "bibout")
  /\ RemoveDirectory(p, "bibout", "return")
  /\ UNCHANGED <<outVars, job, etag, tree, distro, raw, todo, excused>>

\* TemporaryContainer.cleanup, from the ExitStack: the image is removed; or stays,
\* when podman cannot be run (logged) or fails (its status is dropped); or Ctrl-C.
CloseTemporary(p) ==
  /\ Closing(p, "temp")
  /\ Leave(p, "temp")
  /\ \/ /\ ref' = [ref EXCEPT ![TempName(p)] = NoImage]
        /\ UNCHANGED <<pc, exc, excused, reason>>
     \/ /\ excused' = [excused EXCEPT ![p] = TRUE]
        /\ UNCHANGED <<ref, pc, exc, reason>>
     \/ /\ excused' = [excused EXCEPT ![p] = TRUE]
        /\ Raise(p) /\ Because(p, "tool") /\ UNCHANGED ref
  /\ UNCHANGED <<archive, disk, job, etag, tree, distro, raw, todo, left>>

\* A process's memory ends with it.
Forget(p) ==
  /\ job' = [job EXCEPT ![p] = NoCommand]
  /\ etag' = [etag EXCEPT ![p] = NoTree]
  /\ tree' = [tree EXCEPT ![p] = NoTree]
  /\ distro' = [distro EXCEPT ![p] = DefaultDistro]
  /\ raw' = [raw EXCEPT ![p] = NoDisk]
  /\ todo' = [todo EXCEPT ![p] = {}]
  /\ left' = [left EXCEPT ![p] = {}]
  /\ excused' = [excused EXCEPT ![p] = FALSE]
  /\ Because(p, "none")

\* main: removing the tmpdir may fail too; then the status is not 0.
CloseTmpdir(p) ==
  /\ Closing(p, "tmpdir")
  /\ Goto(p, "exited")
  /\ Leave(p, "tmpdir")
  /\ exc' \in {exc, [exc EXCEPT ![p] = "error"]}
  /\ Forget(p)
  /\ UNCHANGED outVars

-----------------------------------------------------------------------------
(* Failures.                                                               *)

\* A tool fails, before it did anything or after it did it all (a chown that
\* follows a mv); or Ctrl-C.
ToolFails(p) ==
  /\ Running(p) /\ exc[p] = "none"
  /\ Raise(p)
  /\ Because(p, "tool")
  /\ UNCHANGED <<outVars, job, open, etag, tree, distro, raw, todo, left,
                 excused>>

Kill(p) ==
  /\ Running(p)
  /\ Goto(p, "killed")
  /\ exc' = [exc EXCEPT ![p] = "error"]
  /\ open' = [open EXCEPT ![p] = {}]
  /\ Forget(p)
  /\ UNCHANGED outVars

Step(p) ==
  \/ CheckOptions(p) \/ LoadArchive(p) \/ ReadEtag(p) \/ Compose(p)
  \/ Osbuild(p) \/ StoreContainer(p) \/ MoveArchive(p) \/ OpenOut(p)
  \/ ReadInfo(p) \/ FindBuilder(p) \/ MakeDisk(p) \/ WriteDisk(p)
  \/ WritePart(p) \/ CloseOutput(p) \/ CloseBibOut(p) \/ CloseTemporary(p)
  \/ CloseTmpdir(p)

Next == \E p \in Proc : \/ \E j \in Jobs : Start(p, j)
                        \/ Step(p) \/ ToolFails(p) \/ Kill(p)

Spec == Init /\ [][Next]_vars

-----------------------------------------------------------------------------
(* What makes the commands correct.                                        *)

Succeeds(p) == Running(p) /\ pc'[p] = "exited" /\ exc'[p] = "none"

\* A raw or converted disk has every partition.  A directory of partitions has
\* every file a partition with data belongs in, of such a partition: where two
\* have the same name, one of them is lost.
Whole(j, d) ==
  IF j.mode # "partitions" THEN d.parts = Part
  ELSE /\ d.parts \cap d.blank = {}
       /\ \A x \in Part \ d.blank : \E y \in d.parts : FileOf[y] = FileOf[x]

\* build ends with status 0 only when every output it was asked for is there,
\* and all of them are the image composed by this very run: the container in the
\* store or the archive, and the whole disk, which is made of the container by
\* its name.
BuildIsComplete ==
  [][\A p \in Proc :
       Succeeds(p) /\ job[p].cmd = "build" /\ job[p].ctr # "dry-run" =>
       LET j == job[p] IN
       /\ j.ctr = "store" => ref'[j.name] = Built(p)
       /\ j.ctr \in {"archive", "tar"} => archive'[j.file] = Built(p)
       /\ j.disk # NoFile => /\ disk'[j.disk] # NoDisk
                             /\ disk'[j.disk].img = Built(p)
                             /\ Whole(j, disk'[j.disk])]_vars

\* build-builder --if-needed that says "up to date, doing nothing" is right, and
\* without it the builder stored is the one composed.
BuilderIsCurrent ==
  [][\A p \in Proc :
       Succeeds(p) /\ job[p].cmd = "build-builder" /\ job[p].ctr = "store" =>
         ref'[Dest(job[p])] = Built(p)]_vars

\* to-disk-image ends with status 0 only when the disk is whole, as far as its
\* partitions have data and names of their own, and made of the container the
\* user named.
DiskIsWhole ==
  [][\A p \in Proc : Succeeds(p) /\ job[p].cmd = "to-disk-image" =>
       LET j == job[p] IN
       /\ disk'[j.disk] # NoDisk
       /\ Whole(j, disk'[j.disk])
       /\ disk'[j.disk].img = IF j.ctr = "store" THEN ref[j.name]
                                                 ELSE archive[j.file]]_vars

\* "Use same distro for build image as the source container image": a disk is
\* made by the tools of its image's distro, unless the user chose others.
SameDistroTools ==
  \A p \in Proc : raw[p] # NoDisk /\ job[p].tools = NoName =>
    raw[p].tools = DistroOf[raw[p].img.tree]

\* A process that ends with status 0 has removed every directory it made, and
\* one that ends at all has removed the container it gave a random name, unless
\* podman failed to, or it was told to stop while podman did.
NothingLeft ==
  [][\A p \in Proc : Running(p) /\ pc'[p] = "exited" =>
       /\ exc'[p] = "none" => left[p] = {}
       /\ ref'[TempName(p)] = NoImage \/ excused[p]]_vars

\* The command line that is accepted, builds, and then has nowhere to move the
\* archive to.
Nowhere(j) == j.cmd = "build-builder" /\ j.ctr = "archive" /\ j.file = NoFile

\* A command fails only because one of its tools did or something it names does
\* not exist or makes no sense.  One legal command line fails by itself,
\* build-builder --oci-archive without `out', and no other does.
FailsForAReason ==
  \A p \in Proc : Running(p) /\ exc[p] = "error" =>
    reason[p] # "none" \/ Nowhere(job[p])
=============================================================================
