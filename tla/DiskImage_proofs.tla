-------------------------- MODULE DiskImage_proofs --------------------------
(***************************************************************************)
(* Proofs about DiskImage: for every set of command lines, processes,      *)
(* names, files, partitions and distros, what build, build-builder and     *)
(* to-disk-image promise when they end.                                    *)
(***************************************************************************)
EXTENDS DiskImage, TLAPS

-----------------------------------------------------------------------------
(* The invariant.                                                          *)

\* Where a disk is being made.
DiskLabel == {"open", "info", "builder", "make", "write", "parts",
              "leavebibout"}

\* Which commands get where, and with which options.
Flow ==
  \A p \in Proc :
    LET j == job[p] IN
    /\ Running(p) => (exc[p] = "error" <=> pc[p] = "unwinding")
    /\ pc[p] = "etag" => j.cmd = "build-builder"
    /\ pc[p] = "load" => j.cmd = "to-disk-image" /\ j.ctr # "store"
    /\ pc[p] \in {"etag", "compose", "osbuild", "export", "move",
                  "leaveoutput"} => j.cmd # "to-disk-image"
    /\ pc[p] \in {"export", "move"} =>
         j.cmd \in {"build", "build-builder"} /\ j.ctr # "dry-run"
    /\ pc[p] = "move" => j.ctr \in {"archive", "tar"}
    /\ pc[p] \in DiskLabel =>
         /\ j.disk # NoFile /\ j.ctr # "dry-run"
         /\ j.cmd \in {"build", "to-disk-image"}
    /\ Running(p) /\ pc[p] \notin {"options", "unwinding"} /\ j.cmd = "build"
         /\ j.disk # NoFile => j.ctr # "tar"
    /\ pc[p] \in {"info", "builder"} => j.tools = NoName

\* From composing on there is a tree, of the distro that was asked for.
Composed ==
  \A p \in Proc :
    /\ pc[p] \in {"osbuild", "export", "move", "leaveoutput"} =>
         tree[p] # NoTree
    /\ pc[p] \in DiskLabel \cup {"return"} /\ job[p].cmd # "to-disk-image" =>
         tree[p] # NoTree
    /\ tree[p] # NoTree => DistroOf[tree[p]] = job[p].distro

\* What is written was made.
Begun ==
  \A p \in Proc : /\ pc[p] = "write" => raw[p] # NoDisk
                  /\ pc[p] = "parts" => /\ raw[p] # NoDisk
                                        /\ disk[job[p].disk] # NoDisk

\* An ended process has nothing.
Idle ==
  \A p \in Proc : ~Running(p) => /\ tree[p] = NoTree /\ raw[p] = NoDisk
                                 /\ left[p] = {} /\ open[p] = {}

TypeInv == TypeOK /\ Flow /\ Composed /\ Begun /\ Idle

-----------------------------------------------------------------------------
(* Operators.                                                              *)

\* What a command line may say.
LEMMA JobType ==
  ASSUME NEW j \in Jobs
  PROVE  /\ j \in Job
         /\ j.cmd \in {"build", "build-builder", "to-disk-image", "download"}
         /\ j.ctr \in {"store", "archive", "tar", "none", "dry-run"}
         /\ j.name \in Name \cup {NoName} /\ j.file \in File \cup {NoFile}
         /\ j.disk \in File \cup {NoFile} /\ j.tools \in Name \cup {NoName}
         /\ j.mode \in {"raw", "converted", "partitions"}
         /\ j.distro \in Distro
         /\ j.cmd = "to-disk-image" => j.disk # NoFile
         /\ j.cmd \in {"build-builder", "download"} => j.disk = NoFile
         /\ j.cmd \in {"to-disk-image", "build-builder"} =>
              j.ctr \in {"store", "archive"}
         /\ j.cmd # "build-builder" /\ j.ctr = "store" => j.name # NoName
         /\ j.cmd # "build-builder" /\ j.ctr \in {"archive", "tar"} =>
              j.file # NoFile
         /\ Dest(j) \in Name
<1>1. j \in Job
  BY DiskAssumption
<1>2. /\ j.cmd = "to-disk-image" => j.disk # NoFile
      /\ j.cmd \in {"build-builder", "download"} => j.disk = NoFile
      /\ j.cmd \in {"to-disk-image", "build-builder"} =>
           j.ctr \in {"store", "archive"}
      /\ j.cmd # "build-builder" =>
           /\ j.ctr = "store" => j.name # NoName
           /\ j.ctr \in {"archive", "tar"} => j.file # NoFile
  BY DiskAssumption
<1>3. Dest(j) \in Name
  BY <1>1, DiskAssumption DEF Dest, Job
<1> QED
  BY <1>1, <1>2, <1>3 DEF Job

\* The names that a command is about.
LEMMA NamesType ==
  ASSUME NEW j \in Jobs
  PROVE  /\ j.cmd = "build-builder" => Names(j) = {Dest(j)}
         /\ j.cmd # "build-builder" /\ j.ctr = "store" => Names(j) = {j.name}
         /\ Names(j) \subseteq Name /\ Stores(j) \subseteq Names(j)
         /\ j.cmd \in {"build", "build-builder"} => Stores(j) = Names(j)
<1>1. j.cmd = "build-builder" => Names(j) = {Dest(j)}
  BY DEF Names
<1>2. j.cmd # "build-builder" /\ j.ctr = "store" => Names(j) = {j.name}
  BY DEF Names
<1>3. j.cmd # "build-builder" /\ j.ctr # "store" => Names(j) = {}
  BY DEF Names
<1>4. Names(j) \subseteq Name
  BY <1>1, <1>2, <1>3, JobType
<1> QED
  BY <1>1, <1>2, <1>4 DEF Stores

\* The command of an ended process is one of the commands.
LEMMA NoCommandType == NoCommand \in Jobs
BY DiskAssumption DEF NoCommand

\* What a composed tree becomes is an image.
LEMMA BuiltType ==
  ASSUME TypeOK, NEW p \in Proc, tree[p] # NoTree
  PROVE  Built(p) \in Image /\ Built(p) # NoImage /\ Built(p).tree = tree[p]
BY DiskAssumption DEF TypeOK, Built, Image

\* A disk is made of a container that has a name.
LEMMA SourceType ==
  ASSUME TypeInv, NEW p \in Proc,
         job[p].cmd # "build-builder"
  PROVE  Source(p) \in Ref
<1>1. job[p] \in Jobs
  BY DEF TypeInv, TypeOK
<1> QED
  BY <1>1, JobType DEF Source, Ref, TempName

-----------------------------------------------------------------------------
(* Types.                                                                  *)

\* No process runs at first.
LEMMA InitType == Init => TypeInv
<1> SUFFICES ASSUME Init PROVE TypeInv
  OBVIOUS
<1>1. ref \in [Ref -> Image \cup {NoImage}]
  BY DEF Init, Image
<1>2. TypeOK
  BY <1>1, NoCommandType, DiskAssumption DEF Init, TypeOK, Label, Manager
<1> QED
  BY <1>2 DEF Init, TypeInv, Flow, Composed, Begun, Idle, Running, DiskLabel

\* A new process has only its tmpdir.
LEMMA StartType ==
  ASSUME TypeInv, NEW p \in Proc, NEW j \in Jobs, Start(p, j)
  PROVE  TypeInv'
<1>1. ref' \in [Ref -> Image \cup {NoImage}]
  BY DEF Start, TypeInv, TypeOK, Ref, TempName
<1>2. TypeOK'
  BY <1>1 DEF Start, TypeInv, TypeOK, Goto, Enter, Label, Manager, workVars
<1> QED
  BY <1>2 DEF Start, TypeInv, TypeOK, Flow, Composed, Begun, Idle, Goto,
    Running, DiskLabel, workVars, Enter

\* The checks lead to the first step of each command.
LEMMA CheckOptionsType ==
  ASSUME TypeInv, NEW p \in Proc, CheckOptions(p)
  PROVE  TypeInv'
<1>1. job[p] \in Jobs
  BY DEF TypeInv, TypeOK
<1>2. PICK l \in {"unwinding", "etag", "open", "load", "compose"} : Goto(p, l)
  BY DEF CheckOptions, Raise
<1>3. /\ l = "etag" => job[p].cmd = "build-builder"
      /\ l = "load" => job[p].cmd = "to-disk-image" /\ job[p].ctr # "store"
      /\ l = "open" => job[p].cmd = "to-disk-image" /\ job[p].ctr = "store"
      /\ l = "compose" => job[p].cmd \in {"build", "download"}
      /\ l # "unwinding" /\ job[p].cmd = "build" /\ job[p].disk # NoFile =>
           job[p].ctr # "tar"
      /\ l = "unwinding" => exc'[p] = "error"
      /\ l # "unwinding" => exc'[p] = "none"
  BY <1>1, <1>2, JobType DEF CheckOptions, Raise, Goto, TypeInv, TypeOK, At
<1> QED
  BY <1>1, <1>2, <1>3, JobType DEF CheckOptions, TypeInv, TypeOK, Flow,
    Composed, Begun, Idle, At, Goto, Raise, Because, Enter, Running, Label,
    Manager, DiskLabel, outVars

LEMMA LoadArchiveType ==
  ASSUME TypeInv, NEW p \in Proc, LoadArchive(p)
  PROVE  TypeInv'
<1>1. job[p] \in Jobs /\ TempName(p) \in Ref
  BY DEF TypeInv, TypeOK, TempName, Ref
<1>2. pc[p] = "load" /\ exc[p] = "none"
  BY DEF LoadArchive, At
<1>3. job[p].cmd = "to-disk-image" /\ job[p].ctr = "archive"
  BY <1>1, <1>2, JobType DEF TypeInv, Flow
<1>4. archive[job[p].file] \in Image \cup {NoImage}
  BY <1>1, <1>3, JobType DEF TypeInv, TypeOK
<1>5. ref' \in [Ref -> Image \cup {NoImage}]
  BY <1>1, <1>4 DEF LoadArchive, TypeInv, TypeOK
<1>6. /\ pc' \in [Proc -> Label] /\ exc' \in [Proc -> {"none", "error"}]
      /\ reason' \in [Proc -> {"none", "tool", "input"}]
  BY DEF LoadArchive, TypeInv, TypeOK, Goto, Raise, Because, Label
<1>7. TypeOK'
  BY <1>5, <1>6 DEF LoadArchive, TypeInv, TypeOK
<1>8. Flow'
  BY <1>1, <1>2, <1>3, JobType DEF LoadArchive, TypeInv, TypeOK, Flow, Goto,
    Raise, Running, DiskLabel
<1> QED
  BY <1>2, <1>3, <1>7, <1>8 DEF LoadArchive, TypeInv, TypeOK, Composed, Begun,
    Idle, Goto, Raise, Running, DiskLabel

LEMMA ReadEtagType ==
  ASSUME TypeInv, NEW p \in Proc, ReadEtag(p)
  PROVE  TypeInv'
<1>1. job[p] \in Jobs
  BY DEF TypeInv, TypeOK
<1>2. ref[Dest(job[p])] \in Image \cup {NoImage}
  BY <1>1, JobType DEF TypeInv, TypeOK, Ref
<1>3. etag' \in [Proc -> Tree \cup {NoTree}]
  BY <1>2 DEF ReadEtag, TypeInv, TypeOK, Image
<1>4. pc[p] = "etag" /\ exc[p] = "none"
  BY DEF ReadEtag, At
<1> QED
  BY <1>3, <1>4 DEF ReadEtag, TypeInv, TypeOK, Flow, Composed, Begun, Idle,
    Goto, Running, Label, DiskLabel, outVars

LEMMA ComposeType ==
  ASSUME TypeInv, NEW p \in Proc, Compose(p)
  PROVE  TypeInv'
<1>1. job[p] \in Jobs /\ pc[p] = "compose" /\ exc[p] = "none"
  BY DEF Compose, At, TypeInv, TypeOK
<1>2. PICK t \in Tree :
        /\ DistroOf[t] = job[p].distro
        /\ tree' = [tree EXCEPT ![p] = t]
        /\ Goto(p, IF job[p].cmd = "build-builder" /\ ~ShouldBuild(etag[p], t)
                     THEN "return" ELSE "osbuild")
  BY DEF Compose
<1>3. t # NoTree
  BY DiskAssumption
<1> QED
  BY <1>1, <1>2, <1>3 DEF Compose, TypeInv, TypeOK, Flow, Composed, Begun,
    Idle, Goto, Running, Label, DiskLabel, outVars

LEMMA OsbuildType ==
  ASSUME TypeInv, NEW p \in Proc, Osbuild(p)
  PROVE  TypeInv'
<1>1. job[p] \in Jobs /\ pc[p] = "osbuild" /\ exc[p] = "none"
  BY DEF Osbuild, At, TypeInv, TypeOK
<1>2. job[p].cmd \in {"build", "build-builder", "download"}
  BY <1>1, JobType DEF TypeInv, Flow
<1> QED
  BY <1>1, <1>2 DEF Osbuild, TypeInv, TypeOK, Flow, Composed, Begun, Idle,
    Goto, Enter, Manager, Running, Label, DiskLabel, outVars, workVars

LEMMA StoreContainerType ==
  ASSUME TypeInv, NEW p \in Proc, StoreContainer(p)
  PROVE  TypeInv'
<1>1. job[p] \in Jobs /\ pc[p] = "export" /\ exc[p] = "none"
  BY DEF StoreContainer, At, TypeInv, TypeOK
<1>2. tree[p] # NoTree
  BY <1>1 DEF TypeInv, Composed
<1>3. Built(p) \in Image
  BY <1>2, BuiltType DEF TypeInv
<1>4. ref' \in [Ref -> Image \cup {NoImage}]
  BY <1>3 DEF StoreContainer, TypeInv, TypeOK
<1>5. open' \in [Proc -> SUBSET Manager]
  BY DEF StoreContainer, TypeInv, TypeOK, Enter, Manager
<1>6. TypeOK'
  BY <1>4, <1>5 DEF StoreContainer, TypeInv, TypeOK, Goto, Label, workVars
<1>7. Flow'
  BY <1>1 DEF StoreContainer, TypeInv, TypeOK, Flow, Goto, Running, DiskLabel
<1>8. Idle'
  BY <1>1 DEF StoreContainer, TypeInv, TypeOK, Idle, Goto, Enter, Running,
    workVars
<1> QED
  BY <1>2, <1>6, <1>7, <1>8 DEF StoreContainer, TypeInv, TypeOK, Composed,
    Begun, Goto, DiskLabel, workVars

LEMMA MoveArchiveType ==
  ASSUME TypeInv, NEW p \in Proc, MoveArchive(p)
  PROVE  TypeInv'
<1>1. job[p] \in Jobs /\ pc[p] = "move" /\ exc[p] = "none"
  BY DEF MoveArchive, At, TypeInv, TypeOK
<1>2. tree[p] # NoTree
  BY <1>1 DEF TypeInv, Composed
<1>3. Built(p) \in Image
  BY <1>2, BuiltType DEF TypeInv
<1>4. archive' \in [File -> Image \cup {NoImage}]
  BY <1>3 DEF MoveArchive, TypeInv, TypeOK
<1>5. exc' \in [Proc -> {"none", "error"}]
  BY DEF MoveArchive, TypeInv, TypeOK, Raise
<1> QED
  BY <1>1, <1>2, <1>4, <1>5 DEF MoveArchive, TypeInv, TypeOK, Flow, Composed,
    Begun, Idle, Goto, Raise, Running, Label, DiskLabel, workVars

LEMMA OpenOutType ==
  ASSUME TypeInv, NEW p \in Proc, OpenOut(p)
  PROVE  TypeInv'
<1>1. job[p] \in Jobs /\ pc[p] = "open" /\ exc[p] = "none"
  BY DEF OpenOut, At, TypeInv, TypeOK
<1> QED
  BY <1>1 DEF OpenOut, TypeInv, TypeOK, Flow, Composed, Begun, Idle, Goto,
    Enter, Manager, Running, Label, DiskLabel, outVars, workVars

LEMMA ReadInfoType ==
  ASSUME TypeInv, NEW p \in Proc, ReadInfo(p)
  PROVE  TypeInv'
<1>1. job[p] \in Jobs /\ pc[p] = "info" /\ exc[p] = "none"
  BY DEF ReadInfo, At, TypeInv, TypeOK
<1>2. Source(p) \in Ref
  BY <1>1, JobType, SourceType DEF TypeInv, Flow, DiskLabel
<1>3. ref[Source(p)] \in Image \cup {NoImage}
  BY <1>2 DEF TypeInv, TypeOK
<1>4. \A r \in BOOLEAN : ref[Source(p)] # NoImage =>
        DistroFrom(ref[Source(p)], r) \in Distro
  BY <1>3, DiskAssumption DEF DistroFrom, Image
<1>5. distro' \in [Proc -> Distro]
  BY <1>4 DEF ReadInfo, TypeInv, TypeOK
<1>6. /\ exc' \in [Proc -> {"none", "error"}]
      /\ reason' \in [Proc -> {"none", "tool", "input"}]
      /\ pc' \in [Proc -> Label]
  BY DEF ReadInfo, TypeInv, TypeOK, Raise, Goto, Because, Label
<1> QED
  BY <1>1, <1>5, <1>6 DEF ReadInfo, TypeInv, TypeOK, Flow, Composed, Begun,
    Idle, Goto, Raise, Running, Label, DiskLabel, outVars

LEMMA FindBuilderType ==
  ASSUME TypeInv, NEW p \in Proc, FindBuilder(p)
  PROVE  TypeInv'
<1>1. job[p] \in Jobs /\ pc[p] = "builder" /\ exc[p] = "none"
  BY DEF FindBuilder, At, TypeInv, TypeOK
<1> QED
  BY <1>1 DEF FindBuilder, TypeInv, TypeOK, Flow, Composed, Begun, Idle, Goto,
    Raise, Because, Running, Label, DiskLabel, outVars

\* The builder, once it is chosen, has a name.
LEMMA BuilderType ==
  ASSUME TypeInv, NEW p \in Proc
  PROVE  Builder(p) \in Name
<1>1. job[p] \in Jobs /\ distro[p] \in Distro
  BY DEF TypeInv, TypeOK
<1> QED
  BY <1>1, JobType, DiskAssumption DEF Builder

LEMMA MakeDiskType ==
  ASSUME TypeInv, NEW p \in Proc, MakeDisk(p)
  PROVE  TypeInv'
<1>1. job[p] \in Jobs /\ pc[p] = "make" /\ exc[p] = "none"
  BY DEF MakeDisk, At, TypeInv, TypeOK
<1>2. Source(p) \in Ref /\ Builder(p) \in Ref
  BY <1>1, JobType, SourceType, BuilderType DEF TypeInv, Flow, DiskLabel, Ref
<1>3. /\ ref[Source(p)] \in Image \cup {NoImage}
      /\ ref[Builder(p)] \in Image \cup {NoImage}
  BY <1>2 DEF TypeInv, TypeOK
<1>4. \A i \in Image, b \in Image, k \in SUBSET Truncatable :
        [img |-> i, tools |-> DistroOf[b.tree], blank |-> k, parts |-> Part]
          \in Disk
  BY DiskAssumption DEF Disk, Image
<1>5. /\ raw' \in [Proc -> Disk \cup {NoDisk}]
      /\ pc'[p] = "write" => raw'[p] # NoDisk
  <2>1. CASE ref[Source(p)] = NoImage \/ ref[Builder(p)] = NoImage
    BY <2>1 DEF MakeDisk, TypeInv, TypeOK, Raise, Goto
  <2>2. CASE ~(ref[Source(p)] = NoImage \/ ref[Builder(p)] = NoImage)
    BY <2>2, <1>3, <1>4, DiskAssumption DEF MakeDisk, TypeInv, TypeOK
  <2> QED BY <2>1, <2>2
<1>6. /\ exc' \in [Proc -> {"none", "error"}]
      /\ reason' \in [Proc -> {"none", "tool", "input"}]
      /\ pc' \in [Proc -> Label]
  BY DEF MakeDisk, TypeInv, TypeOK, Raise, Goto, Because, Label
<1>7. /\ \A q \in Proc \ {p} : pc'[q] = pc[q] /\ raw'[q] = raw[q]
      /\ pc'[p] \in {"write", "unwinding"}
  BY DEF MakeDisk, TypeInv, TypeOK, Raise, Goto
<1>8. Flow'
  BY <1>1, <1>7 DEF MakeDisk, TypeInv, TypeOK, Flow, Goto, Raise, Running,
    DiskLabel
<1>9. TypeOK'
  BY <1>5, <1>6 DEF MakeDisk, TypeInv, TypeOK, outVars
<1>10. Composed'
  BY <1>1, <1>7 DEF MakeDisk, TypeInv, Composed, DiskLabel
<1>11. Begun' /\ Idle'
  BY <1>1, <1>5, <1>7 DEF MakeDisk, TypeInv, Begun, Idle, Running, outVars
<1> QED
  BY <1>8, <1>9, <1>10, <1>11 DEF TypeInv

LEMMA WriteDiskType ==
  ASSUME TypeInv, NEW p \in Proc, WriteDisk(p)
  PROVE  TypeInv'
<1>1. job[p] \in Jobs /\ pc[p] = "write" /\ exc[p] = "none"
  BY DEF WriteDisk, At, TypeInv, TypeOK
<1>2. job[p].disk \in File
  BY <1>1, JobType DEF TypeInv, Flow, DiskLabel
<1>3. raw[p] \in Disk
  BY <1>1 DEF TypeInv, TypeOK, Begun
<1>4. [raw[p] EXCEPT !.parts = {}] \in Disk
  BY <1>3 DEF Disk
<1>5. /\ todo' \in [Proc -> SUBSET Part]
      /\ \/ /\ disk' = [disk EXCEPT ![job[p].disk] = raw[p]]
            /\ Goto(p, "leavebibout")
         \/ /\ disk' = [disk EXCEPT ![job[p].disk] =
                           [raw[p] EXCEPT !.parts = {}]]
            /\ Goto(p, "parts")
  BY DEF WriteDisk, TypeInv, TypeOK
<1>6. /\ disk' \in [File -> Disk \cup {NoDisk}]
      /\ \A f \in File : disk[f] # NoDisk => disk'[f] # NoDisk
      /\ disk'[job[p].disk] # NoDisk
  BY <1>2, <1>3, <1>4, <1>5, DiskAssumption DEF TypeInv, TypeOK
<1>7. /\ pc' \in [Proc -> Label]
      /\ \A q \in Proc \ {p} : pc'[q] = pc[q]
      /\ pc'[p] \in {"leavebibout", "parts"}
  BY <1>5 DEF TypeInv, TypeOK, Goto, Label
<1>8. UNCHANGED <<ref, archive, job, exc, open, etag, tree, distro, raw, left,
                  excused, reason>>
  BY DEF WriteDisk
<1>9. TypeOK'
  BY <1>5, <1>6, <1>7, <1>8 DEF TypeInv, TypeOK
<1>10. Flow' /\ Composed'
  BY <1>1, <1>7, <1>8 DEF TypeInv, Flow, Composed, Running, DiskLabel
<1>11. \A q \in Proc : pc[q] = "parts" => job[q].disk \in File
  BY JobType DEF TypeInv, TypeOK, Flow, DiskLabel
<1>12. Begun' /\ Idle'
  BY <1>1, <1>2, <1>6, <1>7, <1>8, <1>11 DEF TypeInv, Begun, Idle, Running
<1> QED
  BY <1>9, <1>10, <1>12 DEF TypeInv

\* What one step of writing does to the file: nothing, or other partitions of
\* the disk that is begun there.
LEMMA WritePartStep ==
  ASSUME TypeInv, NEW p \in Proc, WritePart(p)
  PROVE  \E c \in SUBSET Part :
           disk' = [disk EXCEPT ![job[p].disk].parts = c]
<1>1. job[p] \in Jobs /\ pc[p] = "parts"
  BY DEF WritePart, At, TypeInv, TypeOK
<1>2. job[p].disk \in File
  BY <1>1, JobType DEF TypeInv, Flow, DiskLabel
<1>3. disk[job[p].disk] \in Disk
  BY <1>1, <1>2 DEF TypeInv, TypeOK, Begun
<1> DEFINE old == disk[job[p].disk].parts
           new(x) == {y \in old : FileOf[y] # FileOf[x]} \cup {x}
<1>4. old \subseteq Part
  BY <1>3 DEF Disk
<1>5. disk = [disk EXCEPT ![job[p].disk].parts = old]
  <2>1. disk[job[p].disk] = [disk[job[p].disk] EXCEPT !.parts = old]
    BY <1>3 DEF Disk
  <2> QED BY <1>2, <2>1 DEF TypeInv, TypeOK
<1>6. \A x \in Part : new(x) \in SUBSET Part
  BY <1>4
<1>7. \/ disk' = disk
      \/ disk' = [disk EXCEPT ![job[p].disk].parts = Part]
      \/ \E x \in todo[p] : disk' = [disk EXCEPT ![job[p].disk].parts = new(x)]
  <2>1. CASE todo[p] = {} /\ UNCHANGED disk
    BY <2>1
  <2>2. CASE disk' = [disk EXCEPT ![job[p].disk].parts = Part]
    BY <2>2
  <2>3. ASSUME NEW x \in todo[p],
               disk' = IF x \in raw[p].blank THEN disk
                       ELSE [disk EXCEPT ![job[p].disk].parts =
                               {y \in @ : FileOf[y] # FileOf[x]} \cup {x}]
        PROVE  \/ disk' = disk
               \/ disk' = [disk EXCEPT ![job[p].disk].parts = new(x)]
    BY <2>3
  <2> QED
    BY <2>1, <2>2, <2>3 DEF WritePart
<1>8. todo[p] \subseteq Part
  BY DEF TypeInv, TypeOK
<1> QED
  BY <1>4, <1>5, <1>6, <1>7, <1>8

LEMMA WritePartType ==
  ASSUME TypeInv, NEW p \in Proc, WritePart(p)
  PROVE  TypeInv'
<1>1. job[p] \in Jobs /\ pc[p] = "parts" /\ exc[p] = "none"
  BY DEF WritePart, At, TypeInv, TypeOK
<1>2. job[p].disk \in File
  BY <1>1, JobType DEF TypeInv, Flow, DiskLabel
<1>3. disk[job[p].disk] \in Disk
  BY <1>1, <1>2 DEF TypeInv, TypeOK, Begun
<1>4. Goto(p, "leavebibout") \/ UNCHANGED pc
  BY DEF WritePart
<1>5. /\ disk' \in [File -> Disk \cup {NoDisk}]
      /\ \A f \in File : disk[f] # NoDisk => disk'[f] # NoDisk
  <2>1. PICK c \in SUBSET Part : disk' = [disk EXCEPT ![job[p].disk].parts = c]
    BY WritePartStep
  <2>2. [disk[job[p].disk] EXCEPT !.parts = c] \in Disk
    BY <1>3 DEF Disk
  <2> QED BY <1>2, <2>1, <2>2, DiskAssumption DEF TypeInv, TypeOK
<1>6. todo' \in [Proc -> SUBSET Part]
  <2>1. todo[p] \subseteq Part
    BY DEF TypeInv, TypeOK
  <2>2. PICK t \in SUBSET Part : todo' = todo \/ todo' = [todo EXCEPT ![p] = t]
    <3>1. \A x \in todo[p] :
            ToWrite(x, todo[p] \ {x}, raw[p].blank) \in SUBSET Part
      BY <2>1 DEF ToWrite
    <3> QED BY <3>1 DEF WritePart
  <2> QED BY <2>2 DEF TypeInv, TypeOK
<1>7. /\ pc' \in [Proc -> Label]
      /\ \A q \in Proc \ {p} : pc'[q] = pc[q]
      /\ pc'[p] \in {"leavebibout", "parts"}
  BY <1>1, <1>4 DEF TypeInv, TypeOK, Goto, Label
<1>8. UNCHANGED <<ref, archive, job, exc, open, etag, tree, distro, raw, left,
                  excused, reason>>
  BY DEF WritePart
<1>9. TypeOK'
  BY <1>5, <1>6, <1>7, <1>8 DEF TypeInv, TypeOK
<1>10. Flow' /\ Composed'
  BY <1>1, <1>7, <1>8 DEF TypeInv, Flow, Composed, Running, DiskLabel
<1>11. \A q \in Proc : pc[q] = "parts" => job[q].disk \in File
  BY JobType DEF TypeInv, TypeOK, Flow, DiskLabel
<1>12. Begun' /\ Idle'
  BY <1>1, <1>5, <1>7, <1>8, <1>11 DEF TypeInv, Begun, Idle, Running
<1> QED
  BY <1>9, <1>10, <1>12 DEF TypeInv

LEMMA CloseOutputType ==
  ASSUME TypeInv, NEW p \in Proc, CloseOutput(p)
  PROVE  TypeInv'
<1>1. job[p] \in Jobs
  BY DEF TypeInv, TypeOK
<1>2. exc[p] # "none" \/ pc[p] = "leaveoutput"
  BY DEF CloseOutput, Closing, End, Manager
<1>3. Running(p) /\ UNCHANGED <<outVars, job, etag, tree, distro, raw, todo,
                              excused>>
  BY DEF CloseOutput, Closing
<1>4. \/ /\ Goto(p, IF exc[p] = "none" THEN AfterOutput(job[p]) ELSE pc[p])
         /\ UNCHANGED <<exc, left, reason>>
      \/ /\ Raise(p)
         /\ left' = [left EXCEPT ![p] = @ \cup {"output"}]
         /\ Because(p, "tool")
  BY DEF CloseOutput, RemoveDirectory, Continue
<1>5. /\ exc' \in [Proc -> {"none", "error"}]
      /\ left' \in [Proc -> SUBSET Manager]
      /\ reason' \in [Proc -> {"none", "tool", "input"}]
      /\ open' \in [Proc -> SUBSET Manager]
  BY <1>4 DEF CloseOutput, RemoveDirectory, TypeInv, TypeOK, Raise, Because,
    Leave, Manager
<1>6. AfterOutput(job[p]) \in {"return", "open"}
  BY DEF AfterOutput
<1>7. pc' \in [Proc -> Label]
  BY <1>4, <1>6 DEF TypeInv, TypeOK, Raise, Goto, Label
<1>8. TypeOK'
  BY <1>3, <1>5, <1>7 DEF TypeInv, TypeOK, outVars
<1>9. /\ \A q \in Proc \ {p} : /\ pc'[q] = pc[q] /\ exc'[q] = exc[q]
                               /\ left'[q] = left[q] /\ open'[q] = open[q]
      /\ \/ pc'[p] = "unwinding" /\ exc'[p] = "error"
         \/ pc'[p] = pc[p] /\ exc'[p] = exc[p] /\ exc[p] = "error"
         \/ /\ pc'[p] = AfterOutput(job[p]) /\ exc'[p] = exc[p]
            /\ exc[p] = "none" /\ pc[p] = "leaveoutput"
  BY <1>2, <1>4 DEF CloseOutput, RemoveDirectory, TypeInv, TypeOK, Raise, Goto,
    Leave
<1>10. AfterOutput(job[p]) = "open" =>
         job[p].disk # NoFile /\ job[p].ctr # "dry-run"
  BY DEF AfterOutput
<1>11. Flow'
  BY <1>1, <1>3, <1>6, <1>9, <1>10, JobType DEF TypeInv, TypeOK, Flow, Running,
    DiskLabel
<1>12. Composed'
  BY <1>3, <1>6, <1>9 DEF TypeInv, Composed, DiskLabel
<1>13. Begun' /\ Idle'
  BY <1>3, <1>6, <1>9 DEF TypeInv, Begun, Idle, Running, outVars
<1> QED
  BY <1>8, <1>11, <1>12, <1>13 DEF TypeInv

LEMMA CloseBibOutType ==
  ASSUME TypeInv, NEW p \in Proc, CloseBibOut(p)
  PROVE  TypeInv'
<1>1. job[p] \in Jobs
  BY DEF TypeInv, TypeOK
<1>2. exc[p] # "none" \/ pc[p] = "leavebibout"
  BY DEF CloseBibOut, Closing, End, Manager
<1>3. Running(p) /\ UNCHANGED <<outVars, job, etag, tree, distro, raw, todo,
                              excused>>
  BY DEF CloseBibOut, Closing
<1>4. \/ /\ Goto(p, IF exc[p] = "none" THEN "return" ELSE pc[p])
         /\ UNCHANGED <<exc, left, reason>>
      \/ /\ Raise(p)
         /\ left' = [left EXCEPT ![p] = @ \cup {"bibout"}]
         /\ Because(p, "tool")
  BY DEF CloseBibOut, RemoveDirectory, Continue
<1>5. /\ exc' \in [Proc -> {"none", "error"}]
      /\ left' \in [Proc -> SUBSET Manager]
      /\ reason' \in [Proc -> {"none", "tool", "input"}]
      /\ open' \in [Proc -> SUBSET Manager]
  BY <1>4 DEF CloseBibOut, RemoveDirectory, TypeInv, TypeOK, Raise, Because,
    Leave, Manager
<1>7. pc' \in [Proc -> Label]
  BY <1>4 DEF TypeInv, TypeOK, Raise, Goto, Label
<1>8. TypeOK'
  BY <1>3, <1>5, <1>7 DEF TypeInv, TypeOK, outVars
<1>9. /\ \A q \in Proc \ {p} : /\ pc'[q] = pc[q] /\ exc'[q] = exc[q]
                               /\ left'[q] = left[q] /\ open'[q] = open[q]
      /\ \/ pc'[p] = "unwinding" /\ exc'[p] = "error"
         \/ pc'[p] = pc[p] /\ exc'[p] = exc[p] /\ exc[p] = "error"
         \/ /\ pc'[p] = "return" /\ exc'[p] = exc[p]
            /\ exc[p] = "none" /\ pc[p] = "leavebibout"
  BY <1>2, <1>4 DEF CloseBibOut, RemoveDirectory, TypeInv, TypeOK, Raise, Goto,
    Leave
<1>11. Flow'
  BY <1>1, <1>3, <1>9 DEF TypeInv, TypeOK, Flow, Running, DiskLabel
<1>12. Composed'
  BY <1>3, <1>9 DEF TypeInv, Composed, DiskLabel
<1>13. Begun' /\ Idle'
  BY <1>3, <1>9 DEF TypeInv, Begun, Idle, Running, outVars
<1> QED
  BY <1>8, <1>11, <1>12, <1>13 DEF TypeInv

LEMMA CloseTemporaryType ==
  ASSUME TypeInv, NEW p \in Proc, CloseTemporary(p)
  PROVE  TypeInv'
<1>1. job[p] \in Jobs /\ Running(p)
  BY DEF CloseTemporary, Closing, TypeInv, TypeOK
<1>2. UNCHANGED <<archive, disk, job, etag, tree, distro, raw, todo, left>>
  BY DEF CloseTemporary
<1>3. ref' \in [Ref -> Image \cup {NoImage}]
  BY DEF CloseTemporary, TypeInv, TypeOK
<1>4. /\ exc' \in [Proc -> {"none", "error"}]
      /\ reason' \in [Proc -> {"none", "tool", "input"}]
      /\ open' \in [Proc -> SUBSET Manager]
      /\ pc' \in [Proc -> Label]
  BY DEF CloseTemporary, TypeInv, TypeOK, Raise, Because, Goto, Leave, Manager,
    Label
<1>5. excused' \in [Proc -> BOOLEAN]
  <2>1. UNCHANGED excused \/ excused' = [excused EXCEPT ![p] = TRUE]
    BY DEF CloseTemporary
  <2> QED BY <2>1 DEF TypeInv, TypeOK
<1>6. TypeOK'
  BY <1>2, <1>3, <1>4, <1>5 DEF TypeInv, TypeOK
<1>7. /\ \A q \in Proc \ {p} : /\ pc'[q] = pc[q] /\ exc'[q] = exc[q]
                               /\ open'[q] = open[q]
      /\ \/ pc'[p] = "unwinding" /\ exc'[p] = "error"
         \/ pc'[p] = pc[p] /\ exc'[p] = exc[p]
  BY DEF CloseTemporary, TypeInv, TypeOK, Raise, Goto, Leave
<1>8. Flow' /\ Composed'
  BY <1>1, <1>2, <1>7 DEF TypeInv, TypeOK, Flow, Composed, Running, DiskLabel
<1>9. Begun' /\ Idle'
  BY <1>1, <1>2, <1>7 DEF TypeInv, Begun, Idle, Running
<1> QED
  BY <1>6, <1>8, <1>9 DEF TypeInv

\* With the tmpdir, the last context manager is left.
LEMMA CloseTmpdirType ==
  ASSUME TypeInv, NEW p \in Proc, CloseTmpdir(p)
  PROVE  TypeInv'
<1>1. job[p] \in Jobs /\ Running(p) /\ Goto(p, "exited") /\ Forget(p)
  BY DEF CloseTmpdir, Closing, TypeInv, TypeOK
<1>2. UNCHANGED outVars /\ exc' \in {exc, [exc EXCEPT ![p] = "error"]}
  BY DEF CloseTmpdir
<1>3. open[p] \subseteq {"tmpdir"}
  <2>1. \A m \in Manager \ {"tmpdir"} : Depth[m] \in {1, 2} /\ Depth["tmpdir"] = 0
    BY DEF Depth, Manager
  <2>2. \A o \in open[p] : Depth[o] <= Depth["tmpdir"]
    BY DEF CloseTmpdir, Closing
  <2> QED BY <2>1, <2>2 DEF TypeInv, TypeOK
<1>4. /\ open' \in [Proc -> SUBSET Manager] /\ open'[p] = {}
      /\ \A q \in Proc \ {p} : open'[q] = open[q]
  BY <1>3 DEF CloseTmpdir, Leave, TypeInv, TypeOK
<1>5. exc' \in [Proc -> {"none", "error"}]
  BY <1>2 DEF TypeInv, TypeOK
<1>6. TypeOK'
  BY <1>1, <1>2, <1>4, <1>5, NoCommandType, DiskAssumption DEF TypeInv, TypeOK,
    Forget, Because, Goto, Label, outVars
<1>7. Flow' /\ Composed' /\ Begun'
  BY <1>1, <1>2 DEF TypeInv, TypeOK, Flow, Composed, Begun, Forget, Goto,
    Running, DiskLabel, outVars
<1>8. Idle'
  BY <1>1, <1>4 DEF TypeInv, TypeOK, Idle, Forget, Goto, Running
<1> QED
  BY <1>6, <1>7, <1>8 DEF TypeInv

LEMMA ToolFailsType ==
  ASSUME TypeInv, NEW p \in Proc, ToolFails(p)
  PROVE  TypeInv'
BY DEF ToolFails, TypeInv, TypeOK, Flow, Composed, Begun, Idle, Goto, Raise,
  Because, Running, Label, DiskLabel, outVars

LEMMA KillType ==
  ASSUME TypeInv, NEW p \in Proc, Kill(p)
  PROVE  TypeInv'
<1>1. TypeOK'
  BY NoCommandType, DiskAssumption DEF Kill, TypeInv, TypeOK, Forget, Because,
    Goto, Label, outVars
<1>2. Flow' /\ Composed' /\ Begun'
  BY DEF Kill, TypeInv, TypeOK, Flow, Composed, Begun, Forget, Goto, Running,
    DiskLabel, outVars
<1>3. Idle'
  BY DEF Kill, TypeInv, TypeOK, Idle, Forget, Goto, Running
<1> QED
  BY <1>1, <1>2, <1>3 DEF TypeInv

\* Every step keeps the types and the flow of control.
LEMMA StepType == TypeInv /\ [Next]_vars => TypeInv'
<1> SUFFICES ASSUME TypeInv, [Next]_vars PROVE TypeInv'
  OBVIOUS
<1>1. CASE UNCHANGED vars
  BY <1>1 DEF TypeInv, TypeOK, Flow, Composed, Begun, Idle, Running, vars,
    outVars, workVars
<1>2. ASSUME NEW p \in Proc, NEW j \in Jobs, Start(p, j) PROVE TypeInv'
  BY <1>2, StartType
<1>3. ASSUME NEW p \in Proc, Step(p) PROVE TypeInv'
  BY <1>3, CheckOptionsType, LoadArchiveType, ReadEtagType, ComposeType,
    OsbuildType, StoreContainerType, MoveArchiveType, OpenOutType,
    ReadInfoType, FindBuilderType, MakeDiskType, WriteDiskType, WritePartType,
    CloseOutputType, CloseBibOutType, CloseTemporaryType, CloseTmpdirType
    DEF Step
<1>4. ASSUME NEW p \in Proc, ToolFails(p) PROVE TypeInv'
  BY <1>4, ToolFailsType
<1>5. ASSUME NEW p \in Proc, Kill(p) PROVE TypeInv'
  BY <1>5, KillType
<1> QED
  BY <1>1, <1>2, <1>3, <1>4, <1>5 DEF Next

\* The types hold in every state, and each command is only ever at the steps
\* that its options lead to.
THEOREM TypeCorrect == Spec => []TypeInv
<1>1. Init => TypeInv
  BY InitType
<1>2. TypeInv /\ [Next]_vars => TypeInv'
  BY StepType
<1> QED
  BY <1>1, <1>2, PTL DEF Spec

-----------------------------------------------------------------------------
(* What a step leaves alone.                                               *)

\* The memory of every process but p.
OthersSame(p) ==
  \A q \in Proc \ {p} :
    /\ pc'[q] = pc[q] /\ job'[q] = job[q] /\ exc'[q] = exc[q]
    /\ open'[q] = open[q] /\ etag'[q] = etag[q] /\ tree'[q] = tree[q]
    /\ distro'[q] = distro[q] /\ raw'[q] = raw[q] /\ todo'[q] = todo[q]
    /\ left'[q] = left[q] /\ excused'[q] = excused[q] /\ reason'[q] = reason[q]

\* The names and files that p's command does not write.
OutputsSame(p) ==
  /\ \A r \in Ref : r # p /\ r \notin Stores(job[p]) => ref'[r] = ref[r]
  /\ \A f \in File : f \notin Written(job[p]) =>
       archive'[f] = archive[f] /\ disk'[f] = disk[f]

\* A process changes no memory but its own.
LEMMA StepKeepsOthers ==
  ASSUME TypeInv, NEW p \in Proc,
         (\E j \in Jobs : Start(p, j)) \/ Step(p) \/ ToolFails(p) \/ Kill(p)
  PROVE  OthersSame(p)
<1> USE DEF OthersSame, TypeInv, TypeOK, Goto, Raise, Because, Enter, Leave,
      outVars, workVars
<1>1. ASSUME NEW j \in Jobs, Start(p, j) PROVE OthersSame(p)
  BY <1>1 DEF Start
<1>2. CASE CheckOptions(p)
  <2>1. PICK l \in {"unwinding", "etag", "open", "load", "compose"} : Goto(p, l)
    BY <1>2 DEF CheckOptions
  <2> QED BY <1>2, <2>1 DEF CheckOptions
<1>3. CASE LoadArchive(p) \/ ReadEtag(p) \/ Compose(p) \/ Osbuild(p)
  BY <1>3 DEF LoadArchive, ReadEtag, Compose, Osbuild
<1>4. CASE StoreContainer(p) \/ MoveArchive(p) \/ OpenOut(p)
  BY <1>4 DEF StoreContainer, MoveArchive, OpenOut
<1>5. CASE ReadInfo(p) \/ FindBuilder(p) \/ MakeDisk(p)
  BY <1>5 DEF ReadInfo, FindBuilder, MakeDisk
<1>6. CASE WriteDisk(p) \/ WritePart(p)
  BY <1>6 DEF WriteDisk, WritePart
<1>7. CASE CloseOutput(p) \/ CloseBibOut(p)
  BY <1>7 DEF CloseOutput, CloseBibOut, RemoveDirectory, Continue
<1>8. CASE CloseTemporary(p) \/ CloseTmpdir(p)
  BY <1>8 DEF CloseTemporary, CloseTmpdir, Forget
<1>9. CASE ToolFails(p) \/ Kill(p)
  BY <1>9 DEF ToolFails, Kill, Forget
<1> QED
  BY <1>1, <1>2, <1>3, <1>4, <1>5, <1>6, <1>7, <1>8, <1>9 DEF Step

\* A running process writes only the names and files of its command line, and
\* the name it drew.
LEMMA StepKeepsOutputs ==
  ASSUME TypeInv, NEW p \in Proc, Step(p) \/ ToolFails(p) \/ Kill(p)
  PROVE  OutputsSame(p)
<1>0. job[p] \in Jobs
  BY DEF TypeInv, TypeOK
<1>1. CASE LoadArchive(p)
  BY <1>1 DEF LoadArchive, OutputsSame, TypeInv, TypeOK, TempName
<1>2. CASE StoreContainer(p)
  <2>1. job[p].cmd \in {"build", "build-builder"}
    BY <1>2 DEF StoreContainer, At, TypeInv, Flow
  <2>2. job[p].ctr = "store" =>
          (IF job[p].cmd = "build" THEN job[p].name ELSE Dest(job[p]))
            \in Stores(job[p])
    BY <1>0, <2>1, NamesType
  <2> QED
    BY <1>2, <2>2 DEF StoreContainer, OutputsSame, TypeInv, TypeOK, TempName
<1>3. CASE MoveArchive(p)
  <2>1. job[p].file \in Written(job[p])
    BY <1>3 DEF MoveArchive, At, TypeInv, Flow, Written
  <2> QED
    BY <1>3, <2>1 DEF MoveArchive, OutputsSame, TypeInv, TypeOK
<1>4. CASE WriteDisk(p) \/ WritePart(p)
  BY <1>4 DEF WriteDisk, WritePart, OutputsSame, Written, TypeInv, TypeOK
<1>5. CASE CloseTemporary(p)
  BY <1>5 DEF CloseTemporary, OutputsSame, TypeInv, TypeOK, TempName
<1>6. CASE UNCHANGED outVars
  BY <1>6 DEF OutputsSame, outVars
<1> QED
  BY <1>1, <1>2, <1>3, <1>4, <1>5, <1>6 DEF Step, CheckOptions, ReadEtag,
    Compose, Osbuild, OpenOut, ReadInfo, FindBuilder, MakeDisk, CloseOutput,
    CloseBibOut, CloseTmpdir, ToolFails, Kill

-----------------------------------------------------------------------------
(* Commands side by side.                                                  *)

\* The commands that run do not write what another one uses.
Together ==
  \A p, q \in Proc : p # q /\ Running(p) /\ Running(q) => Apart(job[p], job[q])

LEMMA ApartSymmetric ==
  ASSUME NEW j, NEW k, Apart(j, k)
  PROVE  Apart(k, j)
BY DEF Apart

\* Only a start makes two commands run side by side, and it checks them.
LEMMA StepTogether == TypeInv /\ Together /\ [Next]_vars => Together'
<1> SUFFICES ASSUME TypeInv, Together, [Next]_vars PROVE Together'
  OBVIOUS
<1>1. CASE UNCHANGED vars
  BY <1>1 DEF Together, Running, vars
<1>2. ASSUME NEW p \in Proc, NEW j \in Jobs, Start(p, j) PROVE Together'
  <2>1. OthersSame(p) /\ job'[p] = j
    BY <1>2, StepKeepsOthers DEF Start, TypeInv, TypeOK
  <2>2. \A q \in Proc : Running(q) => Apart(j, job[q]) /\ Apart(job[q], j)
    BY <1>2, ApartSymmetric DEF Start
  <2> QED
    BY <2>1, <2>2 DEF Together, OthersSame, Running
<1>3. ASSUME NEW p \in Proc, Step(p) \/ ToolFails(p) \/ Kill(p) PROVE Together'
  <2>1. OthersSame(p)
    BY <1>3, StepKeepsOthers
  <2>2. (job'[p] = job[p] /\ Running(p)) \/ ~Running(p)'
    <3>1. CASE CloseTmpdir(p) \/ Kill(p)
      BY <3>1 DEF CloseTmpdir, Kill, Goto, Running, TypeInv, TypeOK
    <3>2. CASE CloseOutput(p) \/ CloseBibOut(p) \/ CloseTemporary(p) \/ ToolFails(p)
      BY <3>2 DEF CloseOutput, CloseBibOut, CloseTemporary, Closing, ToolFails
    <3> QED
      BY <1>3, <3>1, <3>2 DEF Step, At, Running, CheckOptions, LoadArchive,
        ReadEtag, Compose, Osbuild, StoreContainer, MoveArchive, OpenOut,
        ReadInfo, FindBuilder, MakeDisk, WriteDisk, WritePart, workVars
  <2> QED
    BY <2>1, <2>2 DEF Together, OthersSame, Running
<1> QED
  BY <1>1, <1>2, <1>3 DEF Next

\* What another process does to p's command: nothing it can see.
Undisturbed(p) ==
  /\ job'[p] = job[p] /\ tree'[p] = tree[p] /\ pc'[p] = pc[p]
  /\ \A r \in Names(job[p]) \cup {p} : ref'[r] = ref[r]
  /\ job[p].file \in File => archive'[job[p].file] = archive[job[p].file]
  /\ job[p].disk \in File => disk'[job[p].disk] = disk[job[p].disk]

LEMMA OthersDoNotDisturb ==
  ASSUME TypeInv, Together, NEW p \in Proc, NEW q \in Proc \ {p}, Running(p),
         \/ \E j \in Jobs : Start(q, j)
         \/ Step(q) \/ ToolFails(q) \/ Kill(q)
  PROVE  Undisturbed(p) /\ OthersSame(q)
<1>1. OthersSame(q)
  BY StepKeepsOthers
<1>2. job[p] \in Jobs /\ job[q] \in Jobs
  BY DEF TypeInv, TypeOK
<1>3. Names(job[p]) \subseteq Ref \ Proc
  BY <1>2, NamesType, DiskAssumption DEF Ref
<1>4. CASE \E j \in Jobs : Start(q, j)
  BY <1>1, <1>3, <1>4 DEF Start, Undisturbed, OthersSame, TempName, TypeInv,
    TypeOK, Ref
<1>5. CASE Step(q) \/ ToolFails(q) \/ Kill(q)
  <2>1. OutputsSame(q)
    BY <1>5, StepKeepsOutputs
  <2>2. Running(q)
    BY <1>5 DEF Step, At, Running, CheckOptions, LoadArchive, ReadEtag,
      Compose, Osbuild, StoreContainer, MoveArchive, OpenOut, ReadInfo,
      FindBuilder, MakeDisk, WriteDisk, WritePart, CloseOutput, CloseBibOut,
      CloseTemporary, CloseTmpdir, Closing, ToolFails, Kill
  <2>3. Apart(job[p], job[q])
    BY <2>2 DEF Together
  <2>4. Stores(job[q]) \subseteq Name
    BY <1>2, NamesType
  <2>5. \A r \in Names(job[p]) \cup {p} : r # q /\ r \notin Stores(job[q])
    BY <1>3, <2>3, <2>4, DiskAssumption DEF Apart
  <2>6. \A f \in {job[p].file, job[p].disk} : f \in File =>
          f \notin Written(job[q])
    BY <2>3, DiskAssumption DEF Apart, Used
  <2> QED
    BY <1>1, <1>3, <2>1, <2>5, <2>6 DEF OutputsSame, Undisturbed, OthersSame, Ref
<1> QED
  BY <1>4, <1>5

-----------------------------------------------------------------------------
(* What the outputs of a running command are.                              *)

\* The image that a command's disk is to be made of.
Wanted(p) ==
  IF job[p].cmd = "build" THEN Built(p)
  ELSE IF job[p].ctr = "store" THEN ref[job[p].name] ELSE archive[job[p].file]

\* --if-needed holds the tree of the builder there is, until it has composed.
Digest(p) ==
  pc[p] = "compose" /\ job[p].cmd = "build-builder" /\ etag[p] # NoTree =>
    /\ job[p].ctr = "store"
    /\ ref[Dest(job[p])] = [tree |-> etag[p], kind |-> "builder"]

\* The container of a build is where the user wants it from storing it on.
Stored(p) ==
  pc[p] \in DiskLabel \cup {"leaveoutput", "return"} =>
    /\ job[p].cmd \in {"build", "build-builder"} /\ job[p].ctr = "store" =>
         ref[Dest(job[p])] = Built(p)
    /\ job[p].cmd = "build" /\ job[p].ctr \in {"archive", "tar"} =>
         archive[job[p].file] = Built(p)

\* The reference a disk is made from names the container that is wanted.
Sourced(p) ==
  /\ pc[p] \in {"move", "leaveoutput", "open", "info", "builder", "make"}
  /\ job[p].disk # NoFile /\ job[p].ctr # "dry-run"
  => ref[Source(p)] = Wanted(p) /\ ref[Source(p)] # NoImage

\* The files of the partitions that have been looked at are there.
Partly(d, rest) ==
  /\ d.parts \cap d.blank = {}
  /\ \A x \in Part \ (d.blank \cup rest) :
       \E y \in d.parts : FileOf[y] = FileOf[x]

\* The disk that is made and written is one of that container.
DiskMade(p) ==
  /\ pc[p] = "write" => raw[p].img = Wanted(p) /\ raw[p].parts = Part
  /\ pc[p] = "parts" =>
       /\ disk[job[p].disk].img = Wanted(p)
       /\ disk[job[p].disk].blank = raw[p].blank
       /\ job[p].mode # "raw"
       /\ job[p].mode # "partitions" /\ todo[p] = {} =>
            disk[job[p].disk].parts = Part
       /\ job[p].mode = "partitions" => Partly(disk[job[p].disk], todo[p])

DiskWritten(p) ==
  /\ \/ pc[p] = "leavebibout"
     \/ pc[p] = "return" /\ job[p].disk # NoFile /\ job[p].ctr # "dry-run"
  => /\ disk[job[p].disk] # NoDisk
     /\ disk[job[p].disk].img = Wanted(p)
     /\ Whole(job[p], disk[job[p].disk])

Results ==
  \A p \in Proc : Digest(p) /\ Stored(p) /\ Sourced(p) /\ DiskMade(p) /\ DiskWritten(p)

\* A temporary container is handed to the ExitStack before it is stored.
HandedOver ==
  \A p \in Proc :
    /\ Running(p) /\ ref[p] # NoImage => "temp" \in open[p] \/ excused[p]
    /\ pc[p] = "load" => "temp" \in open[p]
    /\ left[p] # {} => exc[p] = "error"

\* A builder's name holds a builder of that distro, and the distro found in the
\* source is the one of its image.
BuildersMatch ==
  \A d \in Distro : ref[BuilderOf[d]] # NoImage =>
    DistroOf[ref[BuilderOf[d]].tree] = d

DistroFound ==
  \A p \in Proc : pc[p] \in {"builder", "make"} /\ job[p].tools = NoName =>
    distro[p] = DistroOf[ref[Source(p)].tree]

ResultInv == TypeInv /\ Together /\ Results

\* A command that makes a disk builds its container or is given one.
LEMMA DiskCommand ==
  ASSUME NEW j \in Jobs, j.disk # NoFile
  PROVE  /\ j.cmd \in {"build", "to-disk-image"}
         /\ j.disk \in File
         /\ j.ctr = "store" => j.name \in Names(j) /\ j.name \in Name
         /\ j.ctr \in {"archive", "tar"} => j.file \in File
<1>1. j.cmd \in {"build", "to-disk-image"}
  BY JobType
<1>2. j.ctr = "store" => Names(j) = {j.name} /\ j.name # NoName
  BY <1>1, JobType, NamesType
<1>3. /\ j.name \in Name \cup {NoName} /\ j.file \in File \cup {NoFile}
      /\ j.disk \in File \cup {NoFile}
      /\ j.ctr \in {"archive", "tar"} => j.file # NoFile
  BY <1>1, JobType
<1> QED
  BY <1>1, <1>2, <1>3

\* What another process does changes neither the container a command wants nor
\* the name it is taken from.
LEMMA WantedUndisturbed ==
  ASSUME TypeInv, NEW p \in Proc, Undisturbed(p), job[p].disk # NoFile,
         job[p].ctr # "dry-run"
  PROVE  /\ Wanted(p)' = Wanted(p)
         /\ Source(p)' = Source(p) /\ ref'[Source(p)] = ref[Source(p)]
<1>1. job[p] \in Jobs
  BY DEF TypeInv, TypeOK
<1>2. /\ job[p].cmd \in {"build", "to-disk-image"}
      /\ job[p].ctr = "store" => job[p].name \in Names(job[p])
      /\ job[p].ctr = "archive" => job[p].file \in File
      /\ job[p].cmd = "to-disk-image" => job[p].ctr \in {"store", "archive"}
  BY <1>1, JobType, DiskCommand
<1>3. Built(p)' = Built(p)
  BY DEF Undisturbed, Built
<1>4. Source(p)' = Source(p) /\ Source(p) \in Names(job[p]) \cup {p}
  BY <1>2 DEF Undisturbed, Source, TempName
<1>5. Wanted(p)' = Wanted(p)
  <2>1. CASE job[p].cmd = "build"
    BY <2>1, <1>3 DEF Undisturbed, Wanted
  <2>2. CASE job[p].cmd # "build" /\ job[p].ctr = "store"
    BY <2>2, <1>2 DEF Undisturbed, Wanted
  <2>3. CASE job[p].cmd # "build" /\ job[p].ctr # "store"
    BY <2>3, <1>2 DEF Undisturbed, Wanted
  <2> QED BY <2>1, <2>2, <2>3
<1> QED
  BY <1>4, <1>5 DEF Undisturbed

\* Nothing another process does spoils the outputs of a command.
LEMMA UndisturbedResults ==
  ASSUME TypeInv, NEW p \in Proc, NEW q \in Proc \ {p}, Undisturbed(p),
         OthersSame(q), Digest(p), Stored(p), Sourced(p), DiskMade(p),
         DiskWritten(p)
  PROVE  /\ Digest(p)' /\ Stored(p)' /\ Sourced(p)' /\ DiskMade(p)'
         /\ DiskWritten(p)'
<1>1. job[p] \in Jobs
  BY DEF TypeInv, TypeOK
<1>2. /\ pc'[p] = pc[p] /\ job'[p] = job[p] /\ etag'[p] = etag[p]
      /\ raw'[p] = raw[p] /\ todo'[p] = todo[p] /\ Built(p)' = Built(p)
  BY DEF OthersSame, Undisturbed, Built
<1>3. /\ job[p].cmd = "build-builder" => ref'[Dest(job[p])] = ref[Dest(job[p])]
      /\ job[p].cmd = "build" /\ job[p].ctr = "store" =>
           ref'[Dest(job[p])] = ref[Dest(job[p])]
      /\ job[p].cmd = "build" /\ job[p].ctr \in {"archive", "tar"} =>
           archive'[job[p].file] = archive[job[p].file]
  BY <1>1, JobType, NamesType DEF Undisturbed, Dest
<1>4. Digest(p)'
  BY <1>2, <1>3 DEF Digest
<1>5. Stored(p)'
  BY <1>2, <1>3 DEF Stored
<1>6. job[p].disk # NoFile /\ job[p].ctr # "dry-run" =>
        /\ Wanted(p)' = Wanted(p)
        /\ Source(p)' = Source(p) /\ ref'[Source(p)] = ref[Source(p)]
        /\ disk'[job[p].disk] = disk[job[p].disk]
  BY <1>1, WantedUndisturbed, DiskCommand DEF Undisturbed
<1>7. Sourced(p)'
  BY <1>2, <1>6 DEF Sourced
<1>8. pc[p] \in {"write", "parts", "leavebibout"} =>
        job[p].disk # NoFile /\ job[p].ctr # "dry-run"
  BY DEF TypeInv, Flow, DiskLabel
<1>9. DiskMade(p)'
  BY <1>2, <1>6, <1>8 DEF DiskMade
<1>10. DiskWritten(p)'
  BY <1>2, <1>6, <1>8 DEF DiskWritten
<1> QED
  BY <1>4, <1>5, <1>7, <1>9, <1>10

\* The results of one process, which its own next step has to keep.
ResultsOf(p) ==
  Digest(p) /\ Stored(p) /\ Sourced(p) /\ DiskMade(p) /\ DiskWritten(p)

\* The steps that only move a command on, or end it.
LEMMA QuietResults ==
  ASSUME TypeInv, NEW p \in Proc,
         \/ \E j \in Jobs : Start(p, j)
         \/ ToolFails(p) \/ Kill(p) \/ CloseTmpdir(p)
  PROVE  ResultsOf(p)'
<1>1. pc'[p] \in {"options", "unwinding", "killed", "exited"}
  BY DEF Start, ToolFails, Raise, Kill, CloseTmpdir, Goto, TypeInv, TypeOK
<1> QED
  BY <1>1 DEF ResultsOf, Digest, Stored, Sourced, DiskMade, DiskWritten,
    DiskLabel

LEMMA CheckOptionsResults ==
  ASSUME TypeInv, NEW p \in Proc, CheckOptions(p)
  PROVE  ResultsOf(p)'
<1>1. job[p] \in Jobs /\ job'[p] = job[p] /\ UNCHANGED <<ref, archive, disk, etag>>
  BY DEF CheckOptions, TypeInv, TypeOK, outVars
<1>2. PICK l \in {"unwinding", "etag", "open", "load", "compose"} :
        /\ Goto(p, l)
        /\ l = "open" => /\ job[p].cmd = "to-disk-image" /\ job[p].ctr = "store"
                         /\ ref[job[p].name] # NoImage
        /\ l = "compose" => job[p].cmd # "build-builder"
  BY <1>1, JobType DEF CheckOptions, Raise
<1>3. pc'[p] = l
  BY <1>2 DEF Goto, TypeInv, TypeOK
<1>4. Digest(p)' /\ DiskMade(p)' /\ DiskWritten(p)'
  BY <1>1, <1>2, <1>3 DEF Digest, DiskMade, DiskWritten
<1>5. Stored(p)'
  BY <1>1, <1>2, <1>3 DEF Stored, DiskLabel
<1>6. Sourced(p)'
  BY <1>1, <1>2, <1>3 DEF Sourced, Source, Wanted
<1> QED
  BY <1>4, <1>5, <1>6 DEF ResultsOf

LEMMA LoadArchiveResults ==
  ASSUME TypeInv, NEW p \in Proc, LoadArchive(p)
  PROVE  ResultsOf(p)'
<1>1. /\ job[p] \in Jobs /\ job'[p] = job[p] /\ UNCHANGED <<archive, disk, etag>>
      /\ job[p].cmd = "to-disk-image" /\ job[p].ctr # "store"
  BY DEF LoadArchive, At, TypeInv, TypeOK, Flow
<1>2. \/ Goto(p, "unwinding")
      \/ /\ Goto(p, "open") /\ archive[job[p].file] # NoImage
         /\ ref' = [ref EXCEPT ![p] = archive[job[p].file]]
  BY DEF LoadArchive, Raise, TempName
<1>3. \/ pc'[p] = "unwinding"
      \/ /\ pc'[p] = "open" /\ archive[job[p].file] # NoImage
         /\ ref'[p] = archive[job[p].file]
  BY <1>2 DEF Goto, TypeInv, TypeOK, Ref
<1>4. Digest(p)' /\ DiskMade(p)' /\ DiskWritten(p)'
  BY <1>3 DEF Digest, DiskMade, DiskWritten
<1>5. Stored(p)'
  BY <1>1, <1>3 DEF Stored
<1>6. Sourced(p)'
  BY <1>1, <1>3 DEF Sourced, Source, Wanted, TempName
<1> QED
  BY <1>4, <1>5, <1>6 DEF ResultsOf

LEMMA ReadEtagResults ==
  ASSUME TypeInv, NEW p \in Proc, ReadEtag(p)
  PROVE  ResultsOf(p)'
<1>1. /\ job[p] \in Jobs /\ job'[p] = job[p] /\ ref' = ref
      /\ pc'[p] = "compose"
  BY DEF ReadEtag, TypeInv, TypeOK, Goto, outVars
<1>2. /\ etag'[p] = IF job[p].ifneeded /\ job[p].ctr = "store"
                          /\ ref[Dest(job[p])] # NoImage
                          /\ ref[Dest(job[p])].kind = "builder"
                      THEN ref[Dest(job[p])].tree ELSE NoTree
  BY DEF ReadEtag, TypeInv, TypeOK
<1>3. ref[Dest(job[p])] \in Image \cup {NoImage}
  BY <1>1, JobType DEF TypeInv, TypeOK, Ref
<1>4. \A i \in Image : i.kind = "builder" =>
        i = [tree |-> i.tree, kind |-> "builder"]
  BY DEF Image
<1>5. Digest(p)'
  BY <1>1, <1>2, <1>3, <1>4 DEF Digest
<1> QED
  BY <1>1, <1>5 DEF ResultsOf, Stored, Sourced, DiskMade, DiskWritten, DiskLabel

\* NotBuildByEtag: what is composed now is what is stored already.
LEMMA ComposeResults ==
  ASSUME TypeInv, NEW p \in Proc, Compose(p), ResultsOf(p)
  PROVE  ResultsOf(p)'
<1>1. /\ job[p] \in Jobs /\ job'[p] = job[p] /\ UNCHANGED <<ref, archive, disk, etag>>
      /\ pc[p] = "compose"
  BY DEF Compose, At, TypeInv, TypeOK, outVars
<1>2. PICK t \in Tree :
        /\ tree' = [tree EXCEPT ![p] = t]
        /\ Goto(p, IF job[p].cmd = "build-builder" /\ ~ShouldBuild(etag[p], t)
                     THEN "return" ELSE "osbuild")
  BY DEF Compose
<1>3. /\ tree'[p] = t
      /\ \/ pc'[p] = "osbuild"
         \/ /\ pc'[p] = "return" /\ job[p].cmd = "build-builder"
            /\ etag[p] # NoTree /\ etag[p] = t
  BY <1>2 DEF Goto, TypeInv, TypeOK, ShouldBuild
<1>4. pc'[p] = "return" => /\ job[p].cmd = "build-builder"
                           /\ ref[Dest(job[p])] = Built(p)'
  BY <1>1, <1>3 DEF ResultsOf, Digest, Built
<1>5. Stored(p)'
  BY <1>1, <1>3, <1>4 DEF Stored, DiskLabel
<1>6. job[p].cmd = "build-builder" => job[p].disk = NoFile
  BY <1>1, JobType
<1> QED
  BY <1>1, <1>3, <1>4, <1>5, <1>6 DEF ResultsOf, Digest, Sourced, DiskMade,
    DiskWritten

LEMMA OsbuildResults ==
  ASSUME TypeInv, NEW p \in Proc, Osbuild(p)
  PROVE  ResultsOf(p)'
<1>1. /\ job[p] \in Jobs /\ job'[p] = job[p]
      /\ pc[p] = "osbuild" /\ job[p].cmd # "to-disk-image"
  BY DEF Osbuild, At, TypeInv, TypeOK, Flow
<1>2. \/ pc'[p] = "export"
      \/ /\ pc'[p] = "leaveoutput"
         /\ job[p].cmd = "download" \/ job[p].ctr = "dry-run"
  BY DEF Osbuild, TypeInv, TypeOK, Goto
<1>3. job[p].cmd \in {"download", "build-builder"} => job[p].disk = NoFile
  BY <1>1, JobType
<1> QED
  BY <1>1, <1>2, <1>3, JobType DEF ResultsOf, Digest, Stored, Sourced, DiskMade,
    DiskWritten, DiskLabel

\* Storing names the composed image, and the random name too when a disk will
\* be made from it.
LEMMA StoreContainerResults ==
  ASSUME TypeInv, NEW p \in Proc, StoreContainer(p)
  PROVE  ResultsOf(p)'
<1>1. /\ job[p] \in Jobs /\ job'[p] = job[p] /\ tree' = tree
      /\ pc[p] = "export" /\ job[p].cmd \in {"build", "build-builder"}
      /\ job[p].ctr # "dry-run" /\ Built(p)' = Built(p)
  BY DEF StoreContainer, At, TypeInv, TypeOK, Flow, Built, workVars
<1>2. Built(p) # NoImage
  BY <1>1, BuiltType DEF TypeInv, Composed
<1>3. pc'[p] = IF job[p].ctr \in {"archive", "tar"} THEN "move" ELSE "leaveoutput"
  BY DEF StoreContainer, Goto, TypeInv, TypeOK
<1>4. job[p].ctr = "store" => ref'[Dest(job[p])] = Built(p)
  <2>1. job[p].cmd = "build" /\ job[p].ctr = "store" => Dest(job[p]) = job[p].name
    BY <1>1, JobType DEF Dest
  <2>2. Dest(job[p]) \in Ref
    BY <1>1, JobType DEF Ref
  <2> QED
    BY <1>1, <2>1, <2>2 DEF StoreContainer, DrawsName, TypeInv, TypeOK
<1>5. DrawsName(job[p]) => ref'[p] = Built(p)
  BY DEF StoreContainer, DrawsName, TypeInv, TypeOK, Ref, TempName
<1>6. Stored(p)'
  BY <1>1, <1>3, <1>4 DEF Stored, DiskLabel
<1>7. Sourced(p)'
  <2> SUFFICES ASSUME job[p].disk # NoFile PROVE Sourced(p)'
    BY <1>1 DEF Sourced
  <2>1. job[p].cmd = "build" /\ job[p].ctr # "tar"
    BY <1>1, JobType DEF TypeInv, Flow, Running
  <2>2. ref'[Source(p)'] = Built(p) /\ Wanted(p)' = Built(p)
    <3>1. CASE job[p].ctr = "store"
      BY <1>1, <1>4, <2>1, <3>1, JobType DEF Source, Wanted, Dest
    <3>2. CASE job[p].ctr # "store"
      BY <1>1, <1>5, <2>1, <3>2, JobType DEF Source, Wanted, TempName, DrawsName
    <3> QED BY <3>1, <3>2
  <2> QED
    BY <1>2, <2>2 DEF Sourced
<1> QED
  BY <1>1, <1>3, <1>6, <1>7 DEF ResultsOf, Digest, DiskMade, DiskWritten

\* Moving the archive leaves the image in it.
LEMMA MoveArchiveResults ==
  ASSUME TypeInv, NEW p \in Proc, MoveArchive(p), ResultsOf(p)
  PROVE  ResultsOf(p)'
<1>1. /\ job[p] \in Jobs /\ job'[p] = job[p] /\ UNCHANGED <<tree, ref>>
      /\ pc[p] = "move" /\ job[p].cmd \in {"build", "build-builder"}
      /\ job[p].ctr \in {"archive", "tar"} /\ Built(p)' = Built(p)
  BY DEF MoveArchive, At, TypeInv, TypeOK, Flow, Built, workVars
<1>2. \/ pc'[p] = "unwinding"
      \/ pc'[p] = "leaveoutput" /\ archive'[job[p].file] = Built(p)
  <2>1. job[p].file # NoFile => job[p].file \in File
    BY <1>1, JobType
  <2> QED
    BY <2>1 DEF MoveArchive, Raise, Goto, TypeInv, TypeOK
<1>3. Stored(p)'
  BY <1>1, <1>2 DEF Stored, DiskLabel
<1>4. Sourced(p)'
  <2> SUFFICES ASSUME job[p].disk # NoFile PROVE Sourced(p)'
    BY <1>1 DEF Sourced
  <2>1. job[p].cmd = "build"
    BY <1>1, JobType
  <2>2. ref[Source(p)] = Built(p) /\ Built(p) # NoImage
    BY <1>1, <2>1 DEF ResultsOf, Sourced, Wanted
  <2>3. Source(p)' = Source(p) /\ Wanted(p)' = Built(p)
    BY <1>1, <2>1 DEF Source, Wanted, TempName
  <2> QED
    BY <1>1, <2>2, <2>3 DEF Sourced
<1> QED
  BY <1>2, <1>3, <1>4 DEF ResultsOf, Digest, DiskMade, DiskWritten

\* The steps that only look, or remove a directory, keep what is wanted.
LEMMA WantedSame ==
  ASSUME TypeInv, NEW p \in Proc, job'[p] = job[p],
         UNCHANGED <<tree, ref, archive>>
  PROVE  /\ Wanted(p)' = Wanted(p) /\ Source(p)' = Source(p)
         /\ Built(p)' = Built(p) /\ ref'[Source(p)] = ref[Source(p)]
BY DEF Wanted, Source, Built, TempName

LEMMA LookResults ==
  ASSUME TypeInv, NEW p \in Proc, OpenOut(p) \/ ReadInfo(p) \/ FindBuilder(p),
         ResultsOf(p)
  PROVE  ResultsOf(p)'
<1>1. /\ job'[p] = job[p] /\ UNCHANGED <<tree, ref, archive, disk>>
      /\ pc[p] \in {"open", "info", "builder"}
  BY DEF OpenOut, ReadInfo, FindBuilder, At, outVars, workVars
<1>2. pc'[p] \in {"unwinding", "info", "builder", "make"}
  <2>1. CASE OpenOut(p)
    BY <2>1 DEF OpenOut, Goto, TypeInv, TypeOK
  <2>2. CASE ReadInfo(p)
    BY <2>2 DEF ReadInfo, Raise, Goto, TypeInv, TypeOK
  <2>3. CASE FindBuilder(p)
    BY <2>3 DEF FindBuilder, Raise, Goto, TypeInv, TypeOK
  <2> QED BY <2>1, <2>2, <2>3
<1>3. /\ Wanted(p)' = Wanted(p) /\ Source(p)' = Source(p)
      /\ Built(p)' = Built(p) /\ ref'[Source(p)] = ref[Source(p)]
  BY <1>1, WantedSame
<1>4. Stored(p)'
  BY <1>1, <1>2, <1>3 DEF ResultsOf, Stored, DiskLabel
<1>5. Sourced(p)'
  BY <1>1, <1>2, <1>3 DEF ResultsOf, Sourced
<1> QED
  BY <1>2, <1>4, <1>5 DEF ResultsOf, Digest, DiskMade, DiskWritten

\* image-builder makes the disk of the image its source names then.
LEMMA MakeDiskResults ==
  ASSUME TypeInv, NEW p \in Proc, MakeDisk(p), ResultsOf(p)
  PROVE  ResultsOf(p)'
<1>1. /\ job'[p] = job[p] /\ UNCHANGED <<tree, ref, archive, disk>>
      /\ pc[p] = "make" /\ job[p].disk # NoFile /\ job[p].ctr # "dry-run"
  BY DEF MakeDisk, At, TypeInv, Flow, DiskLabel, outVars
<1>2. \/ pc'[p] = "unwinding"
      \/ /\ pc'[p] = "write"
         /\ raw'[p].img = ref[Source(p)] /\ raw'[p].parts = Part
  BY DEF MakeDisk, Raise, Goto, TypeInv, TypeOK
<1>3. Wanted(p)' = Wanted(p) /\ Built(p)' = Built(p)
  BY <1>1, WantedSame
<1>4. Stored(p)'
  BY <1>1, <1>2, <1>3 DEF ResultsOf, Stored, DiskLabel
<1>5. pc'[p] = "write" => raw'[p].img = Wanted(p) /\ raw'[p].parts = Part
  BY <1>1, <1>2 DEF ResultsOf, Sourced
<1> QED
  BY <1>2, <1>3, <1>4, <1>5 DEF ResultsOf, Digest, Sourced, DiskMade, DiskWritten

\* The disk is moved to the output, or begun there.
LEMMA WriteDiskResults ==
  ASSUME TypeInv, NEW p \in Proc, WriteDisk(p), ResultsOf(p)
  PROVE  ResultsOf(p)'
<1>1. /\ job'[p] = job[p] /\ UNCHANGED <<tree, ref, archive, raw>>
      /\ pc[p] = "write"
  BY DEF WriteDisk, At
<1>2. job[p].disk \in File /\ raw[p] \in Disk
  BY <1>1, JobType DEF TypeInv, TypeOK, Flow, Begun, DiskLabel
<1>3. raw[p].img = Wanted(p) /\ raw[p].parts = Part
  BY <1>1 DEF ResultsOf, DiskMade
<1>4. raw[p] # NoDisk
  BY <1>2, DiskAssumption
<1>5. /\ [raw[p] EXCEPT !.parts = {}].img = raw[p].img
      /\ [raw[p] EXCEPT !.parts = {}].blank = raw[p].blank
      /\ [raw[p] EXCEPT !.parts = {}].parts = {}
  BY <1>2 DEF Disk
<1>6. \/ /\ job[p].mode = "raw"
         /\ pc'[p] = "leavebibout" /\ disk'[job[p].disk] = raw[p]
      \/ /\ job[p].mode # "raw"
         /\ pc'[p] = "parts" /\ todo'[p] = Part
         /\ disk'[job[p].disk] = [raw[p] EXCEPT !.parts = {}]
  BY <1>2 DEF WriteDisk, Goto, TypeInv, TypeOK
<1>7. Wanted(p)' = Wanted(p) /\ Built(p)' = Built(p)
  BY <1>1, WantedSame
<1>8. Stored(p)'
  BY <1>1, <1>6, <1>7 DEF ResultsOf, Stored, DiskLabel
<1>9. DiskMade(p)'
  <2>1. todo[p]' = Part => Partly([raw[p] EXCEPT !.parts = {}], todo[p]')
    BY <1>5 DEF Partly
  <2>2. CASE pc'[p] = "parts"
    <3>1. /\ disk'[job[p].disk] = [raw[p] EXCEPT !.parts = {}]
          /\ todo'[p] = Part /\ job[p].mode # "raw"
      BY <1>6, <2>2
    <3>2. todo'[p] = {} => Part = {}
      BY <3>1
    <3> QED BY <1>1, <1>3, <1>5, <1>7, <2>1, <2>2, <3>1, <3>2 DEF DiskMade
  <2> QED BY <1>6, <2>2 DEF DiskMade
<1>10. DiskWritten(p)'
  <2>1. job[p].mode = "raw" => Whole(job[p], raw[p])
    BY <1>3 DEF Whole
  <2> QED BY <1>1, <1>3, <1>4, <1>6, <1>7, <2>1 DEF DiskWritten
<1> QED
  BY <1>6, <1>8, <1>9, <1>10 DEF ResultsOf, Digest, Sourced

\* A partition that is skipped is empty, and one that is written is there from
\* then on, or another of its name is.
LEMMA OnePartition ==
  ASSUME NEW d \in Disk, NEW rest \in SUBSET Part, NEW x \in rest,
         Partly(d, rest)
  PROVE  /\ x \in d.blank => Partly(d, rest \ {x})
         /\ x \notin d.blank =>
              Partly([d EXCEPT !.parts =
                        {y \in @ : FileOf[y] # FileOf[x]} \cup {x}], rest \ {x})
<1>1. CASE x \in d.blank
  BY <1>1 DEF Partly
<1>2. CASE x \notin d.blank
  <2> DEFINE e == [d EXCEPT !.parts =
                     {y \in @ : FileOf[y] # FileOf[x]} \cup {x}]
  <2>1. /\ e.blank = d.blank
        /\ e.parts = {y \in d.parts : FileOf[y] # FileOf[x]} \cup {x}
    BY DEF Disk
  <2> HIDE DEF e
  <2>2. e.parts \cap e.blank = {}
    BY <1>2, <2>1 DEF Partly
  <2>3. ASSUME NEW z \in Part \ (e.blank \cup (rest \ {x}))
        PROVE  \E y \in e.parts : FileOf[y] = FileOf[z]
    <3>1. CASE FileOf[z] = FileOf[x]
      BY <2>1, <3>1
    <3>2. CASE FileOf[z] # FileOf[x]
      <4>1. z \in Part \ (d.blank \cup rest)
        BY <2>1, <2>3, <3>2
      <4>2. PICK y \in d.parts : FileOf[y] = FileOf[z]
        BY <4>1 DEF Partly
      <4> QED BY <2>1, <3>2, <4>2
    <3> QED BY <3>1, <3>2
  <2>4. Partly(e, rest \ {x})
    BY <2>2, <2>3 DEF Partly
  <2> QED BY <1>2, <2>4 DEF e
<1> QED BY <1>1, <1>2

\* The last partition ends the writing.
LEMMA WritePartResults ==
  ASSUME TypeInv, NEW p \in Proc, WritePart(p), ResultsOf(p)
  PROVE  ResultsOf(p)'
<1>1. /\ job'[p] = job[p] /\ UNCHANGED <<tree, ref, archive, raw>>
      /\ pc[p] = "parts"
  BY DEF WritePart, At
<1>2. job[p].disk \in File /\ todo[p] \subseteq Part
  BY <1>1, JobType DEF TypeInv, TypeOK, Flow, DiskLabel
<1> DEFINE d == disk[job[p].disk]
<1>3. d # NoDisk /\ d \in Disk
  BY <1>1, <1>2 DEF TypeInv, TypeOK, Begun
<1>4. /\ d.img = Wanted(p) /\ d.blank = raw[p].blank
      /\ job[p].mode # "raw"
      /\ job[p].mode # "partitions" /\ todo[p] = {} => d.parts = Part
      /\ job[p].mode = "partitions" => Partly(d, todo[p])
  BY <1>1 DEF ResultsOf, DiskMade
<1>5. \/ /\ pc'[p] = "leavebibout" /\ disk' = disk /\ todo[p] = {}
      \/ /\ pc'[p] = "parts" /\ job[p].mode # "partitions"
         /\ disk'[job[p].disk] = [d EXCEPT !.parts = Part]
      \/ /\ pc'[p] = "parts" /\ job[p].mode = "partitions"
         /\ \E x \in todo[p] :
              /\ disk'[job[p].disk] =
                   IF x \in raw[p].blank THEN d
                   ELSE [d EXCEPT !.parts =
                           {y \in @ : FileOf[y] # FileOf[x]} \cup {x}]
              /\ todo'[p] = todo[p] \ {x}
  <2>1. CASE todo[p] = {} /\ Goto(p, "leavebibout") /\ UNCHANGED <<disk, todo>>
    BY <2>1 DEF Goto, TypeInv, TypeOK
  <2>2. CASE /\ job[p].mode # "partitions" /\ UNCHANGED pc
             /\ disk' = [disk EXCEPT ![job[p].disk].parts = Part]
    BY <1>1, <1>2, <2>2 DEF TypeInv, TypeOK
  <2>3. ASSUME job[p].mode = "partitions", UNCHANGED pc, NEW x \in todo[p],
               disk' = IF x \in raw[p].blank THEN disk
                       ELSE [disk EXCEPT ![job[p].disk].parts =
                               {y \in @ : FileOf[y] # FileOf[x]} \cup {x}],
               todo' = [todo EXCEPT ![p] =
                          ToWrite(x, @ \ {x}, raw[p].blank)]
        PROVE  /\ disk'[job[p].disk] =
                    IF x \in raw[p].blank THEN d
                    ELSE [d EXCEPT !.parts =
                            {y \in @ : FileOf[y] # FileOf[x]} \cup {x}]
               /\ todo'[p] = todo[p] \ {x}
    BY <1>1, <1>2, <2>3 DEF TypeInv, TypeOK, ToWrite
  <2> QED
    BY <1>1, <2>1, <2>2, <2>3 DEF WritePart
<1>6. /\ disk'[job[p].disk].img = d.img /\ disk'[job[p].disk].blank = d.blank
      /\ disk'[job[p].disk] # NoDisk
  <2>1. PICK c \in SUBSET Part : disk' = [disk EXCEPT ![job[p].disk].parts = c]
    BY WritePartStep
  <2>2. disk'[job[p].disk] = [d EXCEPT !.parts = c]
    BY <1>2, <2>1 DEF TypeInv, TypeOK
  <2>3. [d EXCEPT !.parts = c] \in Disk
    BY <1>3 DEF Disk
  <2> QED BY <1>3, <2>2, <2>3, DiskAssumption DEF Disk
<1>7. Wanted(p)' = Wanted(p) /\ Built(p)' = Built(p)
  BY <1>1, WantedSame
<1>8. Stored(p)'
  BY <1>1, <1>5, <1>7 DEF ResultsOf, Stored, DiskLabel
<1>9. DiskMade(p)'
  <2> SUFFICES ASSUME pc'[p] = "parts" PROVE DiskMade(p)'
    BY <1>5 DEF DiskMade
  <2>1. CASE /\ job[p].mode # "partitions"
             /\ disk'[job[p].disk] = [d EXCEPT !.parts = Part]
    <3>1. disk'[job[p].disk].parts = Part
      BY <1>3, <2>1 DEF Disk
    <3> QED BY <1>1, <1>4, <1>6, <1>7, <2>1, <3>1 DEF DiskMade
  <2>2. ASSUME job[p].mode = "partitions", NEW x \in todo[p],
               disk'[job[p].disk] =
                 IF x \in raw[p].blank THEN d
                 ELSE [d EXCEPT !.parts =
                         {y \in @ : FileOf[y] # FileOf[x]} \cup {x}],
               todo'[p] = todo[p] \ {x}
        PROVE  DiskMade(p)'
    <3>1. Partly(disk'[job[p].disk], todo'[p])
      <4> DEFINE e == [d EXCEPT !.parts =
                         {y \in @ : FileOf[y] # FileOf[x]} \cup {x}]
      <4>1. d \in Disk /\ Partly(d, todo[p]) /\ todo[p] \in SUBSET Part
        BY <1>2, <1>3, <1>4, <2>2
      <4>2. x \in d.blank => Partly(d, todo[p] \ {x})
        BY <4>1, OnePartition
      <4>3. x \notin d.blank => Partly(e, todo[p] \ {x})
        BY <4>1, OnePartition, Zenon
      <4>4. disk'[job[p].disk] = IF x \in d.blank THEN d ELSE e
        BY <1>4, <2>2
      <4>5. todo'[p] = todo[p] \ {x}
        BY <2>2
      <4> HIDE DEF d, e
      <4> QED BY <4>2, <4>3, <4>4, <4>5
    <3>2. job[p].mode = "partitions"
      BY <2>2
    <3> HIDE DEF d
    <3>3. /\ disk'[job[p].disk].img = Wanted(p)
          /\ disk'[job[p].disk].blank = raw[p].blank
      BY <1>4, <1>6
    <3> QED BY <1>1, <1>7, <3>1, <3>2, <3>3 DEF DiskMade
  <2> QED BY <1>5, <2>1, <2>2
<1>10. DiskWritten(p)'
  <2> SUFFICES ASSUME pc'[p] = "leavebibout" PROVE DiskWritten(p)'
    BY <1>5 DEF DiskWritten
  <2>1. disk' = disk /\ todo[p] = {}
    BY <1>5
  <2>2. Whole(job[p], d)
    BY <1>4, <2>1 DEF Whole, Partly
  <2> QED BY <1>1, <1>3, <1>4, <1>7, <2>1, <2>2 DEF DiskWritten
<1> QED
  BY <1>5, <1>8, <1>9, <1>10 DEF ResultsOf, Digest, Sourced

\* Leaving the output directory starts the disk, or ends the command.
LEMMA CloseOutputResults ==
  ASSUME TypeInv, NEW p \in Proc, CloseOutput(p), ResultsOf(p)
  PROVE  ResultsOf(p)'
<1>1. /\ job'[p] = job[p] /\ UNCHANGED <<tree, ref, archive, disk>>
      /\ job[p] \in Jobs
  BY DEF CloseOutput, outVars, TypeInv, TypeOK
<1>2. \/ pc'[p] = "unwinding"
      \/ pc'[p] = AfterOutput(job[p]) /\ pc[p] = "leaveoutput"
  BY DEF CloseOutput, RemoveDirectory, Continue, Closing, End, Manager, Raise,
    Goto, Running, TypeInv, TypeOK, Flow
<1>3. AfterOutput(job[p]) = IF job[p].disk = NoFile \/ job[p].ctr = "dry-run"
                              THEN "return" ELSE "open"
  BY DEF AfterOutput
<1>4. /\ Wanted(p)' = Wanted(p) /\ Source(p)' = Source(p)
      /\ Built(p)' = Built(p) /\ ref'[Source(p)] = ref[Source(p)]
  BY <1>1, WantedSame
<1>5. Stored(p)'
  BY <1>1, <1>2, <1>3, <1>4 DEF ResultsOf, Stored, DiskLabel
<1>6. Sourced(p)'
  BY <1>1, <1>2, <1>3, <1>4 DEF ResultsOf, Sourced
<1>7. DiskMade(p)' /\ DiskWritten(p)'
  BY <1>1, <1>2, <1>3 DEF DiskMade, DiskWritten
<1> QED
  BY <1>2, <1>3, <1>5, <1>6, <1>7 DEF ResultsOf, Digest

LEMMA CloseBibOutResults ==
  ASSUME TypeInv, NEW p \in Proc, CloseBibOut(p), ResultsOf(p)
  PROVE  ResultsOf(p)'
<1>1. /\ job'[p] = job[p] /\ UNCHANGED <<tree, ref, archive, disk>>
      /\ job[p] \in Jobs
  BY DEF CloseBibOut, outVars, TypeInv, TypeOK
<1>2. \/ pc'[p] = "unwinding"
      \/ pc'[p] = "return" /\ pc[p] = "leavebibout"
  BY DEF CloseBibOut, RemoveDirectory, Continue, Closing, End, Manager, Raise,
    Goto, Running, TypeInv, TypeOK, Flow
<1>3. Wanted(p)' = Wanted(p) /\ Built(p)' = Built(p)
  BY <1>1, WantedSame
<1>4. Stored(p)'
  BY <1>1, <1>2, <1>3 DEF ResultsOf, Stored, DiskLabel
<1>5. DiskMade(p)' /\ DiskWritten(p)'
  BY <1>1, <1>2, <1>3 DEF ResultsOf, DiskMade, DiskWritten
<1> QED
  BY <1>2, <1>4, <1>5 DEF ResultsOf, Digest, Sourced

\* By the time the temporary container is removed the disk is made.
LEMMA CloseTemporaryResults ==
  ASSUME TypeInv, NEW p \in Proc, CloseTemporary(p), ResultsOf(p)
  PROVE  ResultsOf(p)'
<1>1. /\ job'[p] = job[p] /\ UNCHANGED <<tree, archive, disk>>
      /\ job[p] \in Jobs
  BY DEF CloseTemporary, TypeInv, TypeOK
<1>2. \/ pc'[p] = "unwinding"
      \/ pc'[p] = "return" /\ pc[p] = "return"
  BY DEF CloseTemporary, Closing, End, Manager, Raise, Goto, Running, TypeInv,
    TypeOK, Flow
<1>3. \A r \in Name : ref'[r] = ref[r]
  BY DiskAssumption DEF CloseTemporary, TempName, TypeInv, TypeOK, Ref
<1>4. Built(p)' = Built(p)
  BY <1>1 DEF Built
<1>5. Stored(p)'
  <2>1. Dest(job[p]) \in Name
    BY <1>1, JobType
  <2>2. ref'[Dest(job[p])] = ref[Dest(job[p])] /\ archive' = archive
    BY <1>1, <1>3, <2>1
  <2>3. pc'[p] = "unwinding" => Stored(p)'
    BY DEF Stored, DiskLabel
  <2> QED
    BY <1>1, <1>2, <1>4, <2>2, <2>3 DEF ResultsOf, Stored
<1>6. job[p].disk # NoFile => Wanted(p)' = Wanted(p)
  BY <1>1, <1>3, <1>4, DiskCommand DEF Wanted
<1>7. DiskMade(p)' /\ DiskWritten(p)'
  BY <1>1, <1>2, <1>6 DEF ResultsOf, DiskMade, DiskWritten
<1> QED
  BY <1>2, <1>5, <1>7 DEF ResultsOf, Digest, Sourced

LEMMA StepResults == ResultInv /\ [Next]_vars => Results'
<1> SUFFICES ASSUME ResultInv, [Next]_vars, NEW p \in Proc
             PROVE  ResultsOf(p)'
  BY DEF Results, ResultsOf
<1>0. ResultsOf(p) /\ TypeInv /\ Together
  BY DEF ResultInv, Results, ResultsOf
<1>1. CASE UNCHANGED vars
  BY <1>0, <1>1 DEF ResultsOf, Digest, Stored, Sourced, DiskMade, DiskWritten,
    Wanted, Built, Source, TempName, vars, outVars, workVars
<1>2. CASE \/ \E j \in Jobs : Start(p, j)
           \/ Step(p) \/ ToolFails(p) \/ Kill(p)
  BY <1>0, <1>2, QuietResults, CheckOptionsResults, LoadArchiveResults,
    ReadEtagResults, ComposeResults, OsbuildResults, StoreContainerResults,
    MoveArchiveResults, LookResults, MakeDiskResults, WriteDiskResults,
    WritePartResults, CloseOutputResults, CloseBibOutResults,
    CloseTemporaryResults DEF Step
<1>3. ASSUME NEW q \in Proc \ {p},
             \/ \E j \in Jobs : Start(q, j)
             \/ Step(q) \/ ToolFails(q) \/ Kill(q)
      PROVE  ResultsOf(p)'
  <2>1. CASE Running(p)
    BY <1>0, <1>3, <2>1, OthersDoNotDisturb, UndisturbedResults DEF ResultsOf
  <2>2. CASE ~Running(p)
    <3>1. pc'[p] = pc[p]
      BY <1>0, <1>3, StepKeepsOthers DEF OthersSame
    <3> QED
      BY <2>2, <3>1 DEF Running, ResultsOf, Digest, Stored, Sourced, DiskMade,
        DiskWritten, DiskLabel
  <2> QED BY <2>1, <2>2
<1> QED
  BY <1>1, <1>2, <1>3 DEF Next

LEMMA InitResults == Init => ResultInv
<1> SUFFICES ASSUME Init PROVE ResultInv
  OBVIOUS
<1>1. \A p \in Proc : pc[p] = "exited"
  BY DEF Init
<1>2. Results
  BY <1>1 DEF Results, Digest, Stored, Sourced, DiskMade, DiskWritten, DiskLabel
<1> QED
  BY <1>1, <1>2, InitType DEF ResultInv, Together, Running

\* In every state, what a running command has stored, moved, made and written
\* so far is what it wants, whatever the commands beside it do.
THEOREM ResultsHold == Spec => []ResultInv
<1>1. Init => ResultInv
  BY InitResults
<1>2. ResultInv /\ [Next]_vars => ResultInv'
  BY StepType, StepTogether, StepResults DEF ResultInv
<1> QED
  BY <1>1, <1>2, PTL DEF Spec

-----------------------------------------------------------------------------
(* What the commands promise.                                              *)

\* A process exits by leaving its tmpdir, with status 0 only from the end of
\* its command.
LEMMA ExitStep ==
  ASSUME TypeInv, [Next]_vars, NEW p \in Proc, Running(p), pc'[p] = "exited"
  PROVE  CloseTmpdir(p) /\ (exc'[p] = "none" => exc[p] = "none" /\ pc[p] = "return")
<1>1. ~UNCHANGED vars
  BY DEF vars, Running
<1>2. PICK q \in Proc : \/ \E j \in Jobs : Start(q, j)
                        \/ Step(q) \/ ToolFails(q) \/ Kill(q)
  BY <1>1 DEF Next
<1>3. q = p
  <2>1. OthersSame(q)
    BY <1>2, StepKeepsOthers
  <2> QED
    BY <2>1 DEF OthersSame, Running
<1>4. CloseTmpdir(p)
  <2> USE DEF TypeInv, TypeOK, Goto, Raise
  <2>1. ~(\E j \in Jobs : Start(p, j)) /\ ~ToolFails(p) /\ ~Kill(p)
    BY DEF Start, ToolFails, Kill
  <2>2. ~CheckOptions(p) /\ ~LoadArchive(p) /\ ~ReadEtag(p) /\ ~Compose(p)
    <3>1. ~CheckOptions(p)
      <4>1. CheckOptions(p) =>
              \E l \in {"unwinding", "etag", "open", "load", "compose"} : Goto(p, l)
        BY DEF CheckOptions
      <4> QED BY <4>1
    <3> QED BY <3>1 DEF LoadArchive, ReadEtag, Compose
  <2>3. ~Osbuild(p) /\ ~StoreContainer(p) /\ ~MoveArchive(p) /\ ~OpenOut(p)
    BY DEF Osbuild, StoreContainer, MoveArchive, OpenOut
  <2>4. ~ReadInfo(p) /\ ~FindBuilder(p) /\ ~MakeDisk(p) /\ ~WriteDisk(p)
    BY DEF ReadInfo, FindBuilder, MakeDisk, WriteDisk
  <2>5. ~WritePart(p) /\ ~CloseOutput(p) /\ ~CloseBibOut(p) /\ ~CloseTemporary(p)
    BY DEF WritePart, CloseOutput, CloseBibOut, CloseTemporary, RemoveDirectory,
      Continue, AfterOutput, Running
  <2> QED
    BY <1>2, <1>3, <2>1, <2>2, <2>3, <2>4, <2>5 DEF Step
<1>5. exc'[p] = "none" => exc[p] = "none"
  BY <1>4 DEF CloseTmpdir, TypeInv, TypeOK
<1>6. exc[p] # "none" \/ pc[p] = "return"
  BY <1>4 DEF CloseTmpdir, Closing, End, Manager
<1> QED
  BY <1>4, <1>5, <1>6

\* build that ends with status 0 has put the image it composed everywhere it was
\* asked for, and the disk is whole and made of that image.
THEOREM BuildCompletes == Spec => BuildIsComplete
<1>1. ResultInv /\ [Next]_vars =>
       [\A p \in Proc :
          Succeeds(p) /\ job[p].cmd = "build" /\ job[p].ctr # "dry-run" =>
          LET j == job[p] IN
          /\ j.ctr = "store" => ref'[j.name] = Built(p)
          /\ j.ctr \in {"archive", "tar"} => archive'[j.file] = Built(p)
          /\ j.disk # NoFile => /\ disk'[j.disk] # NoDisk
                                /\ disk'[j.disk].img = Built(p)
                                /\ Whole(j, disk'[j.disk])]_vars
  <2> SUFFICES ASSUME ResultInv, [Next]_vars, NEW p \in Proc, Succeeds(p),
                      job[p].cmd = "build", job[p].ctr # "dry-run"
               PROVE  /\ job[p].ctr = "store" => ref'[job[p].name] = Built(p)
                      /\ job[p].ctr \in {"archive", "tar"} =>
                           archive'[job[p].file] = Built(p)
                      /\ job[p].disk # NoFile =>
                           /\ disk'[job[p].disk] # NoDisk
                           /\ disk'[job[p].disk].img = Built(p)
                           /\ Whole(job[p], disk'[job[p].disk])
    OBVIOUS
  <2>1. CloseTmpdir(p) /\ pc[p] = "return"
    BY ExitStep DEF ResultInv, Succeeds
  <2>2. UNCHANGED <<ref, archive, disk>> /\ job[p] \in Jobs
    BY <2>1 DEF CloseTmpdir, outVars, ResultInv, TypeInv, TypeOK
  <2>3. Stored(p) /\ DiskWritten(p)
    BY DEF ResultInv, Results
  <2>4. job[p].ctr = "store" => Dest(job[p]) = job[p].name
    BY <2>2, JobType DEF Dest
  <2> QED
    BY <2>1, <2>2, <2>3, <2>4 DEF Stored, DiskWritten, Wanted
<1> QED
  BY <1>1, ResultsHold, PTL DEF Spec, BuildIsComplete

\* build-builder that ends with status 0 leaves the builder composed now under
\* its name, also when it says the one there is up to date.
THEOREM BuilderStaysCurrent == Spec => BuilderIsCurrent
<1>1. ResultInv /\ [Next]_vars =>
       [\A p \in Proc :
          Succeeds(p) /\ job[p].cmd = "build-builder" /\ job[p].ctr = "store" =>
            ref'[Dest(job[p])] = Built(p)]_vars
  <2> SUFFICES ASSUME ResultInv, [Next]_vars, NEW p \in Proc, Succeeds(p),
                      job[p].cmd = "build-builder", job[p].ctr = "store"
               PROVE  ref'[Dest(job[p])] = Built(p)
    OBVIOUS
  <2>1. CloseTmpdir(p) /\ pc[p] = "return"
    BY ExitStep DEF ResultInv, Succeeds
  <2>2. ref' = ref /\ Stored(p)
    BY <2>1 DEF CloseTmpdir, outVars, ResultInv, Results
  <2> QED
    BY <2>1, <2>2 DEF Stored
<1> QED
  BY <1>1, ResultsHold, PTL DEF Spec, BuilderIsCurrent

\* to-disk-image that ends with status 0 has written a disk made of the container
\* the user named: all of it, or with --separate-partitions a file for every name
\* a partition with data has, of one of the partitions of that name.
THEOREM DiskCompletes == Spec => DiskIsWhole
<1>1. ResultInv /\ [Next]_vars =>
       [\A p \in Proc : Succeeds(p) /\ job[p].cmd = "to-disk-image" =>
          LET j == job[p] IN
          /\ disk'[j.disk] # NoDisk
          /\ Whole(j, disk'[j.disk])
          /\ disk'[j.disk].img = IF j.ctr = "store" THEN ref[j.name]
                                                    ELSE archive[j.file]]_vars
  <2> SUFFICES ASSUME ResultInv, [Next]_vars, NEW p \in Proc, Succeeds(p),
                      job[p].cmd = "to-disk-image"
               PROVE  /\ disk'[job[p].disk] # NoDisk
                      /\ Whole(job[p], disk'[job[p].disk])
                      /\ disk'[job[p].disk].img =
                           IF job[p].ctr = "store" THEN ref[job[p].name]
                                                   ELSE archive[job[p].file]
    OBVIOUS
  <2>1. CloseTmpdir(p) /\ pc[p] = "return"
    BY ExitStep DEF ResultInv, Succeeds
  <2>2. disk' = disk /\ job[p] \in Jobs
    BY <2>1 DEF CloseTmpdir, outVars, ResultInv, TypeInv, TypeOK
  <2>3. job[p].disk # NoFile /\ job[p].ctr # "dry-run"
    BY <2>2, JobType
  <2>4. DiskWritten(p)
    BY DEF ResultInv, Results
  <2> QED
    BY <2>1, <2>2, <2>3, <2>4 DEF DiskWritten, Wanted
<1> QED
  BY <1>1, ResultsHold, PTL DEF Spec, DiskIsWhole

-----------------------------------------------------------------------------
(* Cleaning up.                                                            *)

\* What another process does leaves the name p drew alone.
LEMMA DrawnNameIsOwn ==
  ASSUME TypeInv, NEW p \in Proc, NEW q \in Proc \ {p},
         \/ \E j \in Jobs : Start(q, j)
         \/ Step(q) \/ ToolFails(q) \/ Kill(q)
  PROVE  ref'[p] = ref[p]
<1>1. p \in Ref /\ p \notin Name /\ job[q] \in Jobs
  BY DiskAssumption DEF Ref, TypeInv, TypeOK
<1>2. ASSUME NEW j \in Jobs, Start(q, j) PROVE ref'[p] = ref[p]
  BY <1>1, <1>2 DEF Start, TempName, TypeInv, TypeOK
<1>3. CASE Step(q) \/ ToolFails(q) \/ Kill(q)
  <2>1. OutputsSame(q)
    BY <1>3, StepKeepsOutputs
  <2>2. p \notin Stores(job[q])
    BY <1>1, NamesType
  <2> QED
    BY <1>1, <2>1, <2>2 DEF OutputsSame
<1> QED
  BY <1>2, <1>3

\* The part of HandedOver that is about one process.
HandedOverBy(p) ==
  /\ Running(p) /\ ref[p] # NoImage => "temp" \in open[p] \/ excused[p]
  /\ pc[p] = "load" => "temp" \in open[p]
  /\ left[p] # {} => exc[p] = "error"

LEMMA OwnStepHandsOver ==
  ASSUME TypeInv, NEW p \in Proc, HandedOverBy(p),
         \/ \E j \in Jobs : Start(p, j)
         \/ Step(p) \/ ToolFails(p) \/ Kill(p)
  PROVE  HandedOverBy(p)'
<1> USE DEF HandedOverBy, TypeInv, TypeOK, Goto
<1>0. p \in Ref /\ p \notin Name /\ job[p] \in Jobs
  BY DiskAssumption DEF Ref
<1>1. ASSUME NEW j \in Jobs, Start(p, j) PROVE HandedOverBy(p)'
  BY <1>0, <1>1 DEF Start, TempName, Idle, workVars
<1>2. CASE CheckOptions(p)
  <2>1. UNCHANGED <<ref, left, excused>> /\ open[p] \subseteq open'[p]
    BY <1>2 DEF CheckOptions, outVars, Enter
  <2>2. PICK l \in {"unwinding", "etag", "open", "load", "compose"} :
          /\ Goto(p, l)
          /\ l = "load" => Enter(p, {"temp"})
    BY <1>0, <1>2, JobType DEF CheckOptions, Raise
  <2>3. Running(p) /\ left[p] = {}
    BY <1>2 DEF CheckOptions, At, Running
  <2>4. pc'[p] = "load" => "temp" \in open'[p]
    BY <2>2 DEF Enter
  <2> QED
    BY <2>1, <2>3, <2>4
<1>3. CASE LoadArchive(p)
  <2>1. "temp" \in open[p] /\ left[p] = {} /\ Running(p)
    BY <1>3 DEF LoadArchive, At, Running
  <2>2. open' = open /\ left' = left /\ pc'[p] # "load"
    BY <1>3 DEF LoadArchive, Raise
  <2> QED
    BY <2>1, <2>2
<1>4. CASE ReadEtag(p) \/ Compose(p) \/ Osbuild(p)
  BY <1>4 DEF ReadEtag, Compose, Osbuild, At, Running, Enter, outVars, workVars
<1>5. CASE StoreContainer(p)
  <2>1. /\ pc'[p] # "load" /\ left' = left /\ exc' = exc /\ excused' = excused
        /\ Running(p) /\ left[p] = {}
    BY <1>5 DEF StoreContainer, At, Running, workVars
  <2>2. \/ "temp" \in open'[p]
        \/ ref'[p] = ref[p] /\ open' = open
    BY <1>0, <1>5, JobType DEF StoreContainer, Enter, TempName, DrawsName, At, Flow
  <2> QED
    BY <2>1, <2>2
<1>6. CASE MoveArchive(p) \/ OpenOut(p) \/ WriteDisk(p) \/ WritePart(p)
  <2>0. UNCHANGED <<ref, left, excused>>
    BY <1>6 DEF MoveArchive, OpenOut, WriteDisk, WritePart, outVars, workVars
  <2>1. /\ ref' = ref /\ left' = left /\ excused' = excused
        /\ exc[p] = "none" /\ pc[p] \in {"move", "open", "write", "parts"}
    BY <1>6, <2>0 DEF MoveArchive, OpenOut, WriteDisk, WritePart, At
  <2>2. open[p] \subseteq open'[p]
    BY <1>6 DEF MoveArchive, OpenOut, WriteDisk, WritePart, Enter
  <2>3. pc'[p] # "load"
    BY <1>6 DEF MoveArchive, OpenOut, WriteDisk, WritePart, Raise, At
  <2>4. Running(p) /\ left[p] = {}
    BY <2>1 DEF Running
  <2> QED
    BY <2>1, <2>2, <2>3, <2>4
<1>7. CASE ReadInfo(p) \/ FindBuilder(p) \/ MakeDisk(p)
  BY <1>7 DEF ReadInfo, FindBuilder, MakeDisk, At, Running, Raise, outVars
<1>8. CASE CloseOutput(p) \/ CloseBibOut(p)
  <2>1. /\ UNCHANGED <<ref, excused>> /\ Running(p)
        /\ "temp" \in open[p] => "temp" \in open'[p]
    BY <1>8 DEF CloseOutput, CloseBibOut, RemoveDirectory, Leave, Closing, outVars
  <2>2. \/ exc'[p] = "error" /\ pc'[p] = "unwinding"
        \/ UNCHANGED <<exc, left>> /\ pc'[p] \in {pc[p], "return", "open"}
    BY <1>8 DEF CloseOutput, CloseBibOut, RemoveDirectory, Raise, Continue,
      AfterOutput
  <2>3. exc[p] # "none" \/ pc[p] \in {"leaveoutput", "leavebibout"}
    BY <1>8 DEF CloseOutput, CloseBibOut, Closing, End, Manager
  <2>4. pc[p] # "load"
    BY <2>1, <2>3 DEF Flow
  <2> QED
    BY <2>1, <2>2, <2>4
<1>9. CASE CloseTemporary(p)
  <2>1. Running(p) /\ left' = left /\ (exc[p] # "none" \/ pc[p] = "return")
    BY <1>9 DEF CloseTemporary, Closing, End, Manager
  <2>2. pc[p] # "load" /\ pc'[p] \in {pc[p], "unwinding"}
    BY <1>9, <2>1 DEF CloseTemporary, Raise, Flow
  <2>3. exc'[p] \in {exc[p], "error"}
    BY <1>9 DEF CloseTemporary, Raise
  <2>4. ref'[p] = NoImage \/ excused'[p]
    BY <1>0, <1>9 DEF CloseTemporary, TempName
  <2> QED
    BY <2>1, <2>2, <2>3, <2>4
<1>10. CASE CloseTmpdir(p) \/ Kill(p)
  BY <1>10 DEF CloseTmpdir, Kill, Forget, Running
<1>11. CASE ToolFails(p)
  BY <1>11 DEF ToolFails, Raise, Running, outVars
<1> QED
  BY <1>1, <1>2, <1>3, <1>4, <1>5, <1>6, <1>7, <1>8, <1>9, <1>10, <1>11 DEF Step

LEMMA StepHandsOver == TypeInv /\ HandedOver /\ [Next]_vars => HandedOver'
<1> SUFFICES ASSUME TypeInv, HandedOver, [Next]_vars, NEW p \in Proc
             PROVE  HandedOverBy(p)'
  BY DEF HandedOver, HandedOverBy
<1>0. HandedOverBy(p)
  BY DEF HandedOver, HandedOverBy
<1>1. CASE UNCHANGED vars
  BY <1>0, <1>1 DEF HandedOverBy, Running, vars, outVars, workVars
<1>2. CASE \/ \E j \in Jobs : Start(p, j)
           \/ Step(p) \/ ToolFails(p) \/ Kill(p)
  BY <1>0, <1>2, OwnStepHandsOver
<1>3. ASSUME NEW q \in Proc \ {p},
             \/ \E j \in Jobs : Start(q, j)
             \/ Step(q) \/ ToolFails(q) \/ Kill(q)
      PROVE  HandedOverBy(p)'
  <2>1. ref'[p] = ref[p] /\ OthersSame(q)
    BY <1>3, DrawnNameIsOwn, StepKeepsOthers
  <2> QED
    BY <1>0, <2>1 DEF OthersSame, HandedOverBy, Running
<1> QED
  BY <1>1, <1>2, <1>3 DEF Next

LEMMA InitHandsOver == Init => HandedOver
BY DEF Init, HandedOver, Running

\* An ended process has removed the container it gave a random name, unless
\* podman failed to; and with status 0 every directory it made.
THEOREM CleansUp == Spec => NothingLeft
<1>1. TypeInv /\ HandedOver /\ [Next]_vars =>
       [\A p \in Proc : Running(p) /\ pc'[p] = "exited" =>
          /\ exc'[p] = "none" => left[p] = {}
          /\ ref'[TempName(p)] = NoImage \/ excused[p]]_vars
  <2> SUFFICES ASSUME TypeInv, HandedOver, [Next]_vars, NEW p \in Proc,
                      Running(p), pc'[p] = "exited"
               PROVE  /\ exc'[p] = "none" => left[p] = {}
                      /\ ref'[p] = NoImage \/ excused[p]
    BY DEF TempName
  <2>1. CloseTmpdir(p) /\ (exc'[p] = "none" => exc[p] = "none")
    BY ExitStep
  <2>2. ref' = ref
    BY <2>1 DEF CloseTmpdir, outVars
  <2>3. "temp" \notin open[p]
    <3>1. Depth["temp"] = 1 /\ Depth["tmpdir"] = 0
      BY DEF Depth, Manager
    <3>2. \A o \in open[p] : Depth[o] <= Depth["tmpdir"]
      BY <2>1 DEF CloseTmpdir, Closing
    <3> QED BY <3>1, <3>2
  <2> QED
    BY <2>1, <2>2, <2>3 DEF HandedOver
<1>2. Spec => []HandedOver
  BY InitHandsOver, StepHandsOver, TypeCorrect, PTL DEF Spec
<1> QED
  BY <1>1, <1>2, TypeCorrect, PTL DEF Spec, NothingLeft

-----------------------------------------------------------------------------
(* Failures.                                                               *)

\* One process's own failures: the disk's source is there when it is read, so
\* what is missing is something the user named, or a tool's doing.
LEMMA OwnFailureHasReason ==
  ASSUME TypeInv, NEW p \in Proc, ResultsOf(p),
         Running(p) /\ exc[p] = "error" =>
           reason[p] # "none" \/ Nowhere(job[p]),
         \/ \E j \in Jobs : Start(p, j)
         \/ Step(p) \/ ToolFails(p) \/ Kill(p),
         Running(p)', exc'[p] = "error"
  PROVE  reason'[p] # "none" \/ Nowhere(job'[p])
<1> USE DEF TypeInv, TypeOK, Goto
<1>1. ASSUME NEW j \in Jobs, Start(p, j) PROVE FALSE
  BY <1>1 DEF Start
<1>2. CASE CheckOptions(p) \/ LoadArchive(p) \/ FindBuilder(p)
  BY <1>2 DEF CheckOptions, LoadArchive, FindBuilder, At, Because
<1>3. CASE ReadEtag(p) \/ Compose(p) \/ Osbuild(p) \/ StoreContainer(p)
  BY <1>3 DEF ReadEtag, Compose, Osbuild, StoreContainer, At, workVars
<1>4. CASE MoveArchive(p)
  <2>1. /\ job[p] \in Jobs /\ job'[p] = job[p]
        /\ job[p].cmd \in {"build", "build-builder"}
        /\ job[p].ctr \in {"archive", "tar"}
    BY <1>4 DEF MoveArchive, At, Flow
  <2>2. job[p].file = NoFile => Nowhere(job[p])
    BY <2>1, JobType DEF Nowhere
  <2>3. job[p].file = NoFile
    BY <1>4 DEF MoveArchive, At
  <2> QED
    BY <2>1, <2>2, <2>3
<1>5. CASE OpenOut(p) \/ WriteDisk(p) \/ WritePart(p)
  BY <1>5 DEF OpenOut, WriteDisk, WritePart, At
<1>6. CASE ReadInfo(p) \/ MakeDisk(p)
  <2>1. pc[p] \in {"info", "make"} /\ exc[p] = "none"
    BY <1>6 DEF ReadInfo, MakeDisk, At
  <2>2. ref[Source(p)] # NoImage
    BY <2>1 DEF Flow, DiskLabel, ResultsOf, Sourced
  <2> QED
    BY <1>6, <2>1, <2>2 DEF ReadInfo, MakeDisk, Because
<1>7. CASE CloseOutput(p) \/ CloseBibOut(p) \/ CloseTemporary(p)
  <2>1. Running(p)
    BY <1>7 DEF CloseOutput, CloseBibOut, CloseTemporary, Closing
  <2>2. job'[p] = job[p]
    BY <1>7 DEF CloseOutput, CloseBibOut, CloseTemporary
  <2> QED
    BY <1>7, <2>1, <2>2 DEF CloseOutput, CloseBibOut, CloseTemporary,
      RemoveDirectory, Raise, Because
<1>8. CASE CloseTmpdir(p) \/ Kill(p)
  BY <1>8 DEF CloseTmpdir, Kill, Running
<1>9. CASE ToolFails(p)
  BY <1>9 DEF ToolFails, Because
<1> QED
  BY <1>1, <1>2, <1>3, <1>4, <1>5, <1>6, <1>7, <1>8, <1>9 DEF Step

\* No legal command line but one fails by itself: a command that fails was let
\* down by a tool, or names something that is not there; or it is build-builder
\* --oci-archive without `out', which fails in move_chown after the build.
THEOREM FailuresHaveReasons == Spec => []FailsForAReason
<1>1. Init => FailsForAReason
  BY DEF Init, FailsForAReason, Running
<1>2. ResultInv /\ FailsForAReason /\ [Next]_vars => FailsForAReason'
  <2> SUFFICES ASSUME ResultInv, FailsForAReason, [Next]_vars, NEW p \in Proc,
                      Running(p)', exc'[p] = "error"
               PROVE  reason'[p] # "none" \/ Nowhere(job'[p])
    BY DEF FailsForAReason
  <2>0. TypeInv /\ ResultsOf(p)
    BY DEF ResultInv, Results, ResultsOf
  <2>1. CASE UNCHANGED vars
    BY <2>1 DEF FailsForAReason, Running, vars, workVars
  <2>2. CASE \/ \E j \in Jobs : Start(p, j)
             \/ Step(p) \/ ToolFails(p) \/ Kill(p)
    BY <2>0, <2>2, OwnFailureHasReason DEF FailsForAReason
  <2>3. ASSUME NEW q \in Proc \ {p},
               \/ \E j \in Jobs : Start(q, j)
               \/ Step(q) \/ ToolFails(q) \/ Kill(q)
        PROVE  reason'[p] # "none" \/ Nowhere(job'[p])
    <3>1. OthersSame(q)
      BY <2>0, <2>3, StepKeepsOthers
    <3> QED
      BY <3>1 DEF OthersSame, FailsForAReason, Running
  <2> QED
    BY <2>1, <2>2, <2>3 DEF Next
<1> QED
  BY <1>1, <1>2, ResultsHold, PTL DEF Spec

-----------------------------------------------------------------------------
(* The tools of a disk.                                                    *)

\* A name that get_build_container_for takes for a distro's builder is stored
\* under by commands for that distro only, so no two distros share one.
BuildersKept ==
  \A j \in Jobs, d \in Distro : BuilderOf[d] \in Stores(j) => d = j.distro

LEMMA StepBuildersMatch ==
  ASSUME BuildersKept
  PROVE  TypeInv /\ BuildersMatch /\ [Next]_vars => BuildersMatch'
<1> SUFFICES ASSUME TypeInv, BuildersMatch, [Next]_vars, NEW d \in Distro,
                    ref'[BuilderOf[d]] # NoImage
             PROVE  DistroOf[ref'[BuilderOf[d]].tree] = d
  BY DEF BuildersMatch
<1>0. BuilderOf[d] \in Name /\ BuilderOf[d] \in Ref /\ BuilderOf[d] \notin Proc
  BY DiskAssumption DEF Ref
<1>1. CASE ref'[BuilderOf[d]] = ref[BuilderOf[d]]
  BY <1>1 DEF BuildersMatch
<1>2. ASSUME NEW p \in Proc, NEW j \in Jobs, Start(p, j)
      PROVE  ref'[BuilderOf[d]] = ref[BuilderOf[d]]
  BY <1>0, <1>2 DEF Start, TempName, TypeInv, TypeOK
<1>3. ASSUME NEW p \in Proc, Step(p) \/ ToolFails(p) \/ Kill(p),
             ref'[BuilderOf[d]] # ref[BuilderOf[d]]
      PROVE  DistroOf[ref'[BuilderOf[d]].tree] = d
  <2>1. BuilderOf[d] \in Stores(job[p]) /\ job[p] \in Jobs
    BY <1>0, <1>3, StepKeepsOutputs DEF OutputsSame, TypeInv, TypeOK
  <2>2. d = job[p].distro
    BY <2>1 DEF BuildersKept
  <2>3. StoreContainer(p)
    BY <1>0, <1>3 DEF Step, TypeInv, TypeOK, CheckOptions, LoadArchive, ReadEtag,
      Compose, Osbuild, MoveArchive, OpenOut, ReadInfo, FindBuilder, MakeDisk,
      WriteDisk, WritePart, CloseOutput, CloseBibOut, CloseTemporary,
      CloseTmpdir, ToolFails, Kill, TempName, outVars
  <2>4. ref'[BuilderOf[d]] = Built(p)
    BY <1>0, <1>3, <2>3 DEF StoreContainer, TypeInv, TypeOK, TempName
  <2>5. tree[p] # NoTree
    BY <2>3 DEF StoreContainer, At, TypeInv, Composed
  <2>6. DistroOf[tree[p]] = job[p].distro
    BY <2>5 DEF TypeInv, Composed
  <2> QED
    BY <2>2, <2>4, <2>6 DEF Built
<1> QED
  BY <1>1, <1>2, <1>3 DEF Next, vars, outVars

\* The distro that get_build_container_for reads out of the source is that of
\* the image image-builder is given, when the source can be read.
LEMMA StepDistroFound ==
  ASSUME "probe" \notin Fault
  PROVE  ResultInv /\ DistroFound /\ [Next]_vars => DistroFound'
<1> SUFFICES ASSUME ResultInv, DistroFound, [Next]_vars, NEW p \in Proc,
                    pc'[p] \in {"builder", "make"}, job'[p].tools = NoName
             PROVE  distro'[p] = DistroOf[ref'[Source(p)'].tree]
  BY DEF DistroFound
<1>0. TypeInv /\ Together
  BY DEF ResultInv
<1>1. CASE UNCHANGED vars
  BY <1>1 DEF DistroFound, Source, TempName, vars, outVars, workVars
<1>2. ASSUME NEW q \in Proc \ {p},
             \/ \E j \in Jobs : Start(q, j)
             \/ Step(q) \/ ToolFails(q) \/ Kill(q)
      PROVE  distro'[p] = DistroOf[ref'[Source(p)'].tree]
  <2>1. OthersSame(q)
    BY <1>0, <1>2, StepKeepsOthers
  <2>2. /\ pc[p] \in {"builder", "make"} /\ job[p].tools = NoName /\ Running(p)
        /\ distro'[p] = distro[p]
    BY <2>1 DEF OthersSame, Running
  <2>3. Undisturbed(p)
    BY <1>0, <1>2, <2>2, OthersDoNotDisturb
  <2>4. job[p].disk # NoFile /\ job[p].ctr # "dry-run"
    BY <1>0, <2>2 DEF TypeInv, Flow, DiskLabel
  <2>5. Source(p)' = Source(p) /\ ref'[Source(p)] = ref[Source(p)]
    BY <1>0, <2>3, <2>4, WantedUndisturbed
  <2> QED
    BY <2>2, <2>5 DEF DistroFound
<1>3. CASE ReadInfo(p)
  <2>1. ref' = ref /\ Source(p)' = Source(p)
    BY <1>3 DEF ReadInfo, Source, TempName, outVars
  <2>2. ref[Source(p)] # NoImage
    BY <1>0, <1>3 DEF ReadInfo, Raise, Goto, TypeInv, TypeOK
  <2>3. distro'[p] = DistroFrom(ref[Source(p)], TRUE)
    BY <1>0, <1>3, <2>2 DEF ReadInfo, TypeInv, TypeOK
  <2> QED
    BY <2>1, <2>3 DEF DistroFrom
<1>4. CASE FindBuilder(p)
  <2>1. ref' = ref /\ Source(p)' = Source(p) /\ distro' = distro /\ job' = job
    BY <1>4 DEF FindBuilder, Source, TempName, outVars
  <2> QED
    BY <1>4, <2>1 DEF FindBuilder, At, DistroFound
<1>5. ASSUME \/ \E j \in Jobs : Start(p, j)
             \/ ToolFails(p) \/ Kill(p) \/ CloseTmpdir(p)
      PROVE  FALSE
  BY <1>0, <1>5 DEF Start, ToolFails, Kill, CloseTmpdir, Raise, Goto, TypeInv, TypeOK
<1>6. ASSUME \/ CheckOptions(p) \/ LoadArchive(p) \/ ReadEtag(p) \/ Compose(p)
             \/ Osbuild(p) \/ StoreContainer(p) \/ MoveArchive(p)
      PROVE  FALSE
  <2>1. ASSUME CheckOptions(p) PROVE FALSE
    <3>1. PICK l \in {"unwinding", "etag", "open", "load", "compose"} : Goto(p, l)
      BY <2>1 DEF CheckOptions, Raise
    <3> QED
      BY <1>0, <3>1 DEF Goto, TypeInv, TypeOK
  <2> QED
    BY <1>0, <1>6, <2>1 DEF LoadArchive, ReadEtag, Compose, Osbuild,
      StoreContainer, MoveArchive, Raise, Goto, TypeInv, TypeOK
<1>7. ASSUME OpenOut(p) PROVE FALSE
  BY <1>0, <1>7 DEF OpenOut, Goto, TypeInv, TypeOK
<1>8. ASSUME MakeDisk(p) \/ WriteDisk(p) \/ WritePart(p) PROVE FALSE
  BY <1>0, <1>8 DEF MakeDisk, WriteDisk, WritePart, Raise, Goto, At, TypeInv, TypeOK
<1>9. ASSUME CloseOutput(p) \/ CloseBibOut(p) \/ CloseTemporary(p) PROVE FALSE
  <2>1. exc[p] # "none" \/ pc[p] \in {"leaveoutput", "leavebibout", "return"}
    BY <1>9 DEF CloseOutput, CloseBibOut, CloseTemporary, Closing, End, Manager
  <2>2. pc[p] \notin {"builder", "make"}
    BY <1>0, <1>9, <2>1 DEF TypeInv, TypeOK, Flow, Running, CloseOutput,
      CloseBibOut, CloseTemporary, Closing
  <2>3. pc'[p] \in {pc[p], "unwinding", "return", "open"}
    BY <1>0, <1>9 DEF CloseOutput, CloseBibOut, CloseTemporary, RemoveDirectory,
      Continue, AfterOutput, Raise, Goto, TypeInv, TypeOK
  <2> QED
    BY <2>2, <2>3
<1> QED
  BY <1>1, <1>2, <1>3, <1>4, <1>5, <1>6, <1>7, <1>8, <1>9 DEF Next, Step

\* Where the source's distro can be read and each builder's name is kept for
\* its distro, no disk is made by the tools of another distro unless the user
\* chose them, whatever is stored between choosing the builder and using it.
THEOREM ToolsFitDistro ==
  ASSUME "probe" \notin Fault, BuildersKept
  PROVE  Spec => []SameDistroTools
<1>1. Init => BuildersMatch /\ DistroFound /\ SameDistroTools
  BY DEF Init, BuildersMatch, DistroFound, SameDistroTools
<1>2. ResultInv /\ BuildersMatch /\ DistroFound /\ SameDistroTools /\ [Next]_vars
        => SameDistroTools'
  <2> SUFFICES ASSUME ResultInv, BuildersMatch, DistroFound, SameDistroTools,
                      [Next]_vars, NEW p \in Proc, raw'[p] # NoDisk,
                      job'[p].tools = NoName
               PROVE  raw'[p].tools = DistroOf[raw'[p].img.tree]
    BY DEF SameDistroTools
  <2>0. TypeInv
    BY DEF ResultInv
  <2>1. CASE raw'[p] = raw[p] /\ job'[p] = job[p]
    BY <2>1 DEF SameDistroTools
  <2>2. CASE MakeDisk(p)
    <3>1. job' = job /\ pc[p] = "make" /\ distro[p] \in Distro
      BY <2>0, <2>2 DEF MakeDisk, At, TypeInv, TypeOK
    <3>2. CASE ref[Source(p)] = NoImage \/ ref[Builder(p)] = NoImage
      BY <2>2, <3>1, <3>2 DEF MakeDisk, SameDistroTools
    <3>3. CASE ~(ref[Source(p)] = NoImage \/ ref[Builder(p)] = NoImage)
      <4>1. /\ raw'[p].img = ref[Source(p)]
            /\ raw'[p].tools = DistroOf[ref[Builder(p)].tree]
        BY <2>0, <2>2, <3>3 DEF MakeDisk, TypeInv, TypeOK
      <4>2. Builder(p) = BuilderOf[distro[p]]
        BY <3>1 DEF Builder
      <4>3. DistroOf[ref[Builder(p)].tree] = distro[p]
        BY <3>1, <3>3, <4>2 DEF BuildersMatch
      <4>4. distro[p] = DistroOf[ref[Source(p)].tree]
        BY <3>1 DEF DistroFound
      <4> QED
        BY <4>1, <4>3, <4>4
    <3> QED
      BY <3>2, <3>3
  <2>3. ASSUME NEW j \in Jobs, Start(p, j) PROVE FALSE
    BY <2>0, <2>3 DEF Start, TypeInv, Idle, workVars
  <2>4. ASSUME CloseTmpdir(p) \/ Kill(p) PROVE FALSE
    BY <2>0, <2>4 DEF CloseTmpdir, Kill, Forget, TypeInv, TypeOK
  <2>5. ASSUME \/ CheckOptions(p) \/ LoadArchive(p) \/ ReadEtag(p) \/ Compose(p)
               \/ Osbuild(p) \/ StoreContainer(p) \/ MoveArchive(p)
               \/ OpenOut(p) \/ ReadInfo(p) \/ FindBuilder(p) \/ WriteDisk(p)
               \/ WritePart(p) \/ CloseOutput(p) \/ CloseBibOut(p)
               \/ CloseTemporary(p) \/ ToolFails(p) \/ UNCHANGED vars
        PROVE  raw'[p] = raw[p] /\ job'[p] = job[p]
    BY <2>5 DEF CheckOptions, LoadArchive, ReadEtag, Compose, Osbuild,
      StoreContainer, MoveArchive, OpenOut, ReadInfo, FindBuilder, WriteDisk,
      WritePart, CloseOutput, CloseBibOut, CloseTemporary, ToolFails, vars,
      workVars
  <2>6. ASSUME NEW q \in Proc \ {p},
               \/ \E j \in Jobs : Start(q, j)
               \/ Step(q) \/ ToolFails(q) \/ Kill(q)
        PROVE  raw'[p] = raw[p] /\ job'[p] = job[p]
    BY <2>0, <2>6, StepKeepsOthers DEF OthersSame
  <2> QED
    BY <2>1, <2>2, <2>3, <2>4, <2>5, <2>6 DEF Next, Step
<1> QED
  BY <1>1, <1>2, StepBuildersMatch, StepDistroFound, ResultsHold, PTL
    DEF Spec, ResultInv
=============================================================================
