---------------------------- MODULE SealWorkflow ----------------------------
(***************************************************************************)
(* extract-for-signing, prepare-reseal, inject-signed and reseal of        *)
(* aib/main.py, run by several aib processes over one container store,     *)
(* with PodmanImageMount, TemporaryContainer and podman_bootc_inject_pubkey *)
(* of aib/podman.py.                                                       *)
(*                                                                         *)
(* Between two steps of a process any other process may run; each external *)
(* command (podman, skopeo, rpm-ostree, cat, tee) is one step.  A process  *)
(* holds open context managers (`open'); an exception (`exc') closes them  *)
(* innermost first, exactly as leaving their with-blocks does.             *)
(***************************************************************************)
EXTENDS BootcImage, Naturals

CONSTANT Fault  \* the optional faults of the environment, see FaultKinds

\* "retag":  other aib commands store images under names that running commands
\*           read (without it, users keep such commands apart);
\* "stream": `cat' of a file in an image dies before the end of the file;
\* "misread": `test -f' of has_file fails for a file that is there;
\* "rm":     `podman image rm' of a temporary image exits with an error.
FaultKinds == {"retag", "stream", "misread", "rm"}

ASSUME SealAssumption == Fault \subseteq FaultKinds

VARIABLES
  ref,      \* the store: the image each reference names
  anon,     \* the untagged image a process committed, while the store has it
  archive,  \* the OCI archive at each output path
  dir,      \* for each directory and listed file: the tree it is from, Torn
            \* when it is cut short, or NoFile
  pc,       \* where in its command a process is
  job,      \* the command it runs
  exc,      \* the exception it is unwinding
  open,     \* the context managers it is inside of
  mnt,      \* the image (or working container) its mount point shows
  todo,     \* the listed files it still has to copy
  initrd,   \* the tree of the initramfs copied out of the source image
  aboot,    \* src_is_aboot: has_file found an aboot.img next to it
  key,      \* the key pair it injects or signs with
  excuse,   \* why it may leave a temporary image: it logged "Failed to remove
            \* temporary container", or Ctrl-C hit that very cleanup
  pub       \* history: the image the command stored under its destination

storeVars == <<ref, anon, archive, dir>>
workVars  == <<mnt, todo, initrd, aboot, key, excuse, pub>>
vars      == <<storeVars, pc, job, exc, open, workVars>>

Manager == {"tmpdir", "temp", "sealing", "image", "container", "mounted"}
Depth   == [m \in Manager |->
              CASE m = "tmpdir" -> 0 [] m = "temp" -> 1 [] m = "sealing" -> 2
                [] m \in {"image", "container"} -> 3 [] m = "mounted" -> 4]

Label == {"exited", "killed", "check", "builder", "clear", "mount", "extract",
          "readinitrd", "leaveimage", "append", "create", "modify",
          "leavemount", "leavecontainer", "readkeys", "seal", "leavesealing",
          "archive", "return", "unwinding"}

TypeOK ==
  /\ ref \in [Ref -> Image \cup {NoImage}]
  /\ anon \in [Proc -> Image \cup {NoImage}]
  /\ archive \in [Name -> Image \cup {NoImage}]
  /\ dir \in [Dir -> [SignedFile -> Tree \cup {Torn, NoFile}]]
  /\ pc \in [Proc -> Label]
  /\ job \in [Proc -> Jobs]
  /\ exc \in [Proc -> {"none", "exit0", "error"}]
  /\ open \in [Proc -> SUBSET Manager]
  /\ mnt \in [Proc -> Image \cup {NoImage}]
  /\ todo \in [Proc -> SUBSET SignedFile]
  /\ initrd \in [Proc -> Tree \cup {Torn}]
  /\ aboot \in [Proc -> BOOLEAN]
  /\ key \in [Proc -> Key \cup {NoKey}]
  /\ excuse \in [Proc -> {"none", "warned", "interrupted"}]
  /\ pub \in [Proc -> Image \cup {NoImage}]

Running(p) == pc[p] \notin {"exited", "killed"}

\* Commands users run side by side do not write what another one reads, unless
\* the "retag" fault is on.
Reads(j)  == {j.src} \cup (IF j.cmd = "inject-signed" THEN {j.dir} ELSE {})
Writes(j) == IF j.cmd = "extract-for-signing" THEN {j.dir}
             ELSE IF j.oci THEN {} ELSE {j.dst}
Apart(j, k) == /\ Reads(j) \cap Writes(k) = {}
               /\ Reads(k) \cap Writes(j) = {}
               /\ Dir \cap Writes(j) \cap Writes(k) = {}
MayStart(j) ==
  "retag" \in Fault \/ \A q \in Proc : Running(q) => Apart(j, job[q])

Init ==
  /\ ref \in [Ref -> {NoImage} \cup {Fresh(t) : t \in Tree}]
  /\ \A p \in Proc : ref[p] = NoImage
  /\ anon = [p \in Proc |-> NoImage]
  /\ archive = [n \in Name |-> NoImage]
  /\ dir = [d \in Dir |-> [f \in SignedFile |-> NoFile]]
  /\ pc = [p \in Proc |-> "exited"]
  /\ job \in [Proc -> {CHOOSE j \in Jobs : TRUE}]
  /\ exc = [p \in Proc |-> "none"]
  /\ open = [p \in Proc |-> {}]
  /\ mnt = [p \in Proc |-> NoImage]
  /\ todo = [p \in Proc |-> {}]
  /\ initrd = [p \in Proc |-> Torn]
  /\ aboot = [p \in Proc |-> FALSE]
  /\ key = [p \in Proc |-> NoKey]
  /\ excuse = [p \in Proc |-> "none"]
  /\ pub = [p \in Proc |-> NoImage]

-----------------------------------------------------------------------------
(* Control.                                                                *)

At(p, l) == pc[p] = l /\ exc[p] = "none"

Goto(p, l) == pc' = [pc EXCEPT ![p] = l]

Raise(p, e) == exc' = [exc EXCEPT ![p] = e] /\ Goto(p, "unwinding")

\* Where the with-block of a manager ends without an exception.
End == [m \in Manager |->
          CASE m \in {"tmpdir", "temp"} -> "return"
            [] m = "sealing" -> "leavesealing" [] m = "image" -> "leaveimage"
            [] m = "container" -> "leavecontainer"
            [] m = "mounted" -> "leavemount"]

\* The innermost open manager is the one whose __exit__ runs next: when its
\* with-block ends or an exception passes through it.
Closing(p, m) ==
  /\ Running(p)
  /\ m \in open[p]
  /\ \A o \in open[p] : Depth[o] <= Depth[m]
  /\ exc[p] # "none" \/ pc[p] = End[m]

Enter(p, ms) == open' = [open EXCEPT ![p] = @ \cup ms]
Leave(p, ms) == open' = [open EXCEPT ![p] = @ \ ms]

\* After a with-block: on to its continuation, or on with the exception.
Continue(p, l) == Goto(p, IF exc[p] = "none" THEN l ELSE pc[p])

\* Where the result goes: new_container is a random name for --oci-archive.
Target(p) == IF job[p].oci THEN p ELSE job[p].dst

AfterCheck(j) ==
  CASE j.cmd = "extract-for-signing" -> "clear"
    [] j.cmd = "inject-signed" -> "create"
    [] j.cmd = "reseal" /\ j.key # NoKey -> "seal"
    [] OTHER -> "builder"

AfterImage(j) == IF j.cmd = "extract-for-signing" THEN "return" ELSE "append"

\* Mutant: --oci-archive stops at the container store.
FinishInStore(j) == "return"

Finish(j) == IF j.oci THEN "archive" ELSE "return"

AfterContainer(j) ==
  CASE j.cmd = "prepare-reseal" -> "return"
    [] j.cmd = "inject-signed" /\ j.key = NoKey -> Finish(j)
    [] j.cmd = "inject-signed" /\ j.key # NoKey -> "readkeys"
    [] OTHER -> "seal"

AfterSeal(j) == IF j.cmd = "inject-signed" THEN "leavesealing" ELSE Finish(j)

\* Storing an image; only under the destination the user named is it a result.
Store(p, img) ==
  /\ ref' = [ref EXCEPT ![Target(p)] = img]
  /\ pub' = [pub EXCEPT ![p] = IF job[p].oci THEN @ ELSE img]

-----------------------------------------------------------------------------
(* The steps of the commands, in the order of the code.                    *)

\* generate_keys: a key pair no running command uses and no user has.
FreshKeys ==
  Key \ ({BuildKey} \cup {j.key : j \in Jobs} \cup {key[p] : p \in Proc})

\* main: a new process, where an earlier one ended, parses a command line and
\* creates its tmpdir.
Start(p, j) ==
  /\ ~Running(p)
  /\ MayStart(j)
  /\ Goto(p, "check")
  /\ job' = [job EXCEPT ![p] = j]
  /\ exc' = [exc EXCEPT ![p] = "none"]
  /\ Enter(p, {"tmpdir"})
  /\ excuse' = [excuse EXCEPT ![p] = "none"]
  /\ ref' = [ref EXCEPT ![p] = NoImage]     \* the name it may draw is new
  /\ anon' = [anon EXCEPT ![p] = NoImage]   \* so is every image it commits
  /\ UNCHANGED <<archive, dir, mnt, todo, initrd, aboot, key, pub>>

\* Mutant: random_container_name, which hands the name to nobody.
UnmanagedName(j) == {}

\* temporary_container_name hands the name to the ExitStack before it is used.
NameManagers(j) == IF j.oci THEN {"temp"} ELSE {}

\* podman_image_exists(src), then the key of reseal and the temporary name.
CheckSource(p) ==
  LET j == job[p] IN
  /\ At(p, "check")
  /\ IF ref[j.src] = NoImage
       THEN Raise(p, "error") /\ UNCHANGED <<open, key>>
       ELSE /\ Goto(p, AfterCheck(j))
            /\ Enter(p, NameManagers(j))
            /\ \/ j.key # NoKey /\ key' = [key EXCEPT ![p] = j.key]
               \/ /\ j.key = NoKey /\ j.cmd = "reseal"
                  /\ \E k \in FreshKeys : key' = [key EXCEPT ![p] = k]
               \/ j.key = NoKey /\ j.cmd # "reseal" /\ UNCHANGED key
            /\ UNCHANGED exc
  /\ UNCHANGED <<storeVars, job, mnt, todo, initrd, aboot, excuse, pub>>

\* --build-container, or get_build_container_for (see DiskImage); it fails by
\* ToolFails.
FindBuilder(p) ==
  /\ At(p, "builder")
  /\ Goto(p, "mount")
  /\ UNCHANGED <<storeVars, job, exc, open, workVars>>

\* Mutant: an out that exists is used as it is.
KeepOut(p) ==
  /\ At(p, "clear")
  /\ Goto(p, "mount")
  /\ UNCHANGED <<storeVars, job, exc, open, workVars>>

\* extract-for-signing: rm_rf(out) and makedirs(out).
ClearOut(p) ==
  /\ At(p, "clear")
  /\ dir' = [dir EXCEPT ![job[p].dir] = [f \in SignedFile |-> NoFile]]
  /\ Goto(p, "mount")
  /\ UNCHANGED <<ref, anon, archive, job, exc, open, workVars>>

\* PodmanImageMount.__enter__, read-only: the name is resolved here, again.
MountImage(p) ==
  /\ At(p, "mount")
  /\ IF ref[job[p].src] = NoImage
       THEN Raise(p, "error") /\ UNCHANGED <<open, mnt, todo>>
       ELSE /\ mnt' = [mnt EXCEPT ![p] = ref[job[p].src]]
            /\ todo' = [todo EXCEPT ![p] = SignedFile]
            /\ Enter(p, {"image"})
            /\ Goto(p, IF job[p].cmd = "extract-for-signing" THEN "extract"
                       ELSE "readinitrd")
            /\ UNCHANGED exc
  /\ UNCHANGED <<storeVars, job, initrd, aboot, key, excuse, pub>>

\* extract-for-signing: copy_out_file of the next listed file.  Nobody waits
\* for the `cat' behind open_file, so one that dies leaves a shorter file.
CopyOut(p) ==
  /\ At(p, "extract")
  /\ mnt[p].tree \notin Unsignable
  /\ \E f \in todo[p] :
       /\ \E t \in {mnt[p].tree, Torn} :
            /\ t = mnt[p].tree \/ "stream" \in Fault
            /\ dir' = [dir EXCEPT ![job[p].dir][f] = t]
       /\ todo' = [todo EXCEPT ![p] = @ \ {f}]
       /\ Goto(p, IF todo[p] = {f} THEN "leaveimage" ELSE "extract")
  /\ UNCHANGED <<ref, anon, archive, job, exc, open, mnt, initrd, aboot, key,
                 excuse, pub>>

\* No /etc/signing_info.json: sys.exit(0) from inside the with-block, in
\* extract-for-signing and in inject-signed.  has_file runs its `test' with
\* check=False: one that fails for another reason says no as well.
ExitNothingToSign(p) ==
  /\ At(p, "extract") \/ (At(p, "modify") /\ job[p].cmd = "inject-signed")
  /\ \/ mnt[p].tree \in Unsignable
     \/ "misread" \in Fault /\ todo[p] = SignedFile
  /\ Raise(p, "exit0")
  /\ UNCHANGED <<storeVars, job, open, workVars>>

\* podman_bootc_inject_pubkey: is there an aboot.img (has_file again), and copy
\* the initramfs out of the image.
ReadInitrd(p) ==
  /\ At(p, "readinitrd")
  /\ \E i \in {mnt[p].initrd, Torn} :
       /\ i = mnt[p].initrd \/ "stream" \in Fault
       /\ initrd' = [initrd EXCEPT ![p] = i]
  /\ \/ aboot' = [aboot EXCEPT ![p] = mnt[p].tree \in Aboot]
     \/ "misread" \in Fault /\ aboot' = [aboot EXCEPT ![p] = FALSE]
  /\ Goto(p, "leaveimage")
  /\ UNCHANGED <<storeVars, job, exc, open, mnt, todo, key, excuse, pub>>

\* bootconfig -d, then the padded cpio archive with the key is appended.
AppendKey(p) ==
  /\ At(p, "append")
  /\ Goto(p, "create")
  /\ UNCHANGED <<storeVars, job, exc, open, workVars>>

\* PodmanImageMount.__enter__, writable: `podman create' resolves the name once
\* more, `podman mount' shows the container.
CreateContainer(p) ==
  /\ At(p, "create")
  /\ IF ref[job[p].src] = NoImage
       THEN Raise(p, "error") /\ UNCHANGED <<open, mnt, todo>>
       ELSE /\ mnt' = [mnt EXCEPT ![p] = ref[job[p].src]]
            /\ todo' = [todo EXCEPT ![p] = SignedFile]
            /\ Enter(p, {"container", "mounted"})
            /\ Goto(p, "modify")
            /\ UNCHANGED exc
  /\ UNCHANGED <<storeVars, job, initrd, aboot, key, excuse, pub>>

\* podman_bootc_inject_pubkey: copy key and initramfs in, aboot-update for what
\* was found to have an aboot.img before, link.
ModifyInitrd(p) ==
  /\ At(p, "modify")
  /\ job[p].cmd # "inject-signed"
  /\ mnt' = [mnt EXCEPT ![p] = WithKey(@, initrd[p], key[p], aboot[p])]
  /\ Goto(p, "leavemount")
  /\ UNCHANGED <<storeVars, job, exc, open, todo, initrd, aboot, key, excuse,
                 pub>>

\* inject-signed: copy_in_file of the next listed file; one that is missing in
\* srcdir raises FileNotFoundError.
CopyIn(p) ==
  /\ At(p, "modify")
  /\ job[p].cmd = "inject-signed"
  /\ mnt[p].tree \notin Unsignable
  /\ \E f \in todo[p] :
       IF dir[job[p].dir][f] = NoFile
         THEN Raise(p, "error") /\ UNCHANGED <<mnt, todo>>
         ELSE /\ mnt' = [mnt EXCEPT ![p] = WithFile(@, f)]
              /\ todo' = [todo EXCEPT ![p] = @ \ {f}]
              /\ Goto(p, IF todo[p] = {f} THEN "leavemount" ELSE "modify")
              /\ UNCHANGED exc
  /\ UNCHANGED <<storeVars, job, open, initrd, aboot, key, excuse, pub>>

\* PodmanImageMount.__exit__, read-only: `image unmount'.
CloseImage(p) ==
  /\ Closing(p, "image")
  /\ Leave(p, {"image"})
  /\ \/ Continue(p, AfterImage(job[p])) /\ UNCHANGED exc
     \/ Raise(p, "error")
  /\ UNCHANGED <<storeVars, job, workVars>>

\* Mutant: __exit__ that does not look at exc_type.
CommitsAlways(p) == TRUE

Commits(p) == exc[p] = "none"

\* Mutant: reseal commits the image with the new key under its final name.
UntaggedInject(j) == j.cmd = "inject-signed" /\ j.key # NoKey

\* commit_image is None, for the image is to be sealed before it gets a name.
Untagged(j) == j.cmd = "reseal" \/ (j.cmd = "inject-signed" /\ j.key # NoKey)

\* PodmanImageMount.__exit__, writable: unmount; commit unless an exception is
\* passing, under new_container or untagged.  A failing commit raises before
\* `podman rm', and the container stays in the storage below tmpdir.
CommitContainer(p) ==
  /\ Closing(p, "mounted")
  /\ \/ /\ ~Commits(p)
        /\ Leave(p, {"mounted"})
        /\ UNCHANGED <<ref, anon, pc, exc, pub>>
     \/ /\ Commits(p)
        /\ Leave(p, {"mounted"})
        /\ Continue(p, "leavecontainer")
        /\ IF Untagged(job[p])
             THEN anon' = [anon EXCEPT ![p] = mnt[p]] /\ UNCHANGED <<ref, pub>>
             ELSE Store(p, mnt[p]) /\ UNCHANGED anon
        /\ UNCHANGED exc
     \/ /\ Commits(p)
        /\ Leave(p, {"mounted", "container"})
        /\ Raise(p, "error")
        /\ UNCHANGED <<ref, anon, pub>>
  /\ UNCHANGED <<archive, dir, job, mnt, todo, initrd, aboot, key, excuse>>

\* The `podman rm' that ends the same __exit__.
RemoveContainer(p) ==
  /\ Closing(p, "container")
  /\ Leave(p, {"container"})
  /\ \/ Continue(p, AfterContainer(job[p])) /\ UNCHANGED exc
     \/ Raise(p, "error")
  /\ UNCHANGED <<storeVars, job, workVars>>

\* inject-signed: read_keys only now, with the untagged image committed and not
\* yet owned by a TemporaryContainer; a wrong password raises (ToolFails).
ReadKeys(p) ==
  /\ At(p, "readkeys")
  /\ Enter(p, {"sealing"})
  /\ Goto(p, "seal")
  /\ UNCHANGED <<storeVars, job, exc, workVars>>

\* Mutant: reseal forgets the image id podman_bootc_inject_pubkey returned.
SealSourceByName(p) ==
  IF job[p].cmd = "reseal" THEN ref[job[p].src] ELSE anon[p]

SealSource(p) == IF job[p].cmd = "reseal" /\ job[p].key # NoKey
                   THEN ref[job[p].src] ELSE anon[p]

\* do_reseal_image: rpm-ostree reads the untagged image by its id, or, for
\* reseal --key, the source by its name, and stores the sealed image.
SealImage(p) ==
  /\ At(p, "seal")
  /\ IF SealSource(p) = NoImage
       THEN Raise(p, "error") /\ UNCHANGED <<ref, pub>>
       ELSE /\ Store(p, Sealed(SealSource(p), key[p]))
            /\ Goto(p, AfterSeal(job[p]))
            /\ UNCHANGED exc
  /\ UNCHANGED <<anon, archive, dir, job, open, mnt, todo, initrd, aboot, key,
                 excuse>>

\* store_to_bootc_archive.
StoreToArchive(p) ==
  /\ At(p, "archive")
  /\ archive' = [archive EXCEPT ![job[p].dst] = ref[p]]
  /\ pub' = [pub EXCEPT ![p] = ref[p]]
  /\ Goto(p, "return")
  /\ UNCHANGED <<ref, anon, dir, job, exc, open, mnt, todo, initrd, aboot, key,
                 excuse>>

\* What TemporaryContainer.cleanup leaves of the image it owns: nothing; the
\* image and a warning; or the image, when `podman image rm' reports failure.
Cleanup(p, img, img2) ==
  \/ img2 = NoImage /\ UNCHANGED excuse
  \/ img2 = img /\ excuse' = [excuse EXCEPT ![p] = "warned"]
  \/ "rm" \in Fault /\ img2 = img /\ UNCHANGED excuse

\* TemporaryContainer.__exit__ for the image committed by inject-signed.
CloseSealing(p) ==
  /\ Closing(p, "sealing")
  /\ Leave(p, {"sealing"})
  /\ Continue(p, Finish(job[p]))
  /\ \E i \in {anon[p], NoImage} :
       Cleanup(p, anon[p], i) /\ anon' = [anon EXCEPT ![p] = i]
  /\ UNCHANGED <<ref, archive, dir, job, exc, mnt, todo, initrd, aboot, key,
                 pub>>

\* The ExitStack args.cm closes: TemporaryContainer.__exit__ for the random
\* name.
CloseTemporary(p) ==
  /\ Closing(p, "temp")
  /\ Leave(p, {"temp"})
  /\ \E i \in {ref[p], NoImage} :
       Cleanup(p, ref[p], i) /\ ref' = [ref EXCEPT ![p] = i]
  /\ UNCHANGED <<anon, archive, dir, pc, job, exc, mnt, todo, initrd, aboot,
                 key, pub>>

\* A process's memory ends with it.
Forget(p) ==
  /\ mnt' = [mnt EXCEPT ![p] = NoImage]
  /\ todo' = [todo EXCEPT ![p] = {}]
  /\ initrd' = [initrd EXCEPT ![p] = Torn]
  /\ aboot' = [aboot EXCEPT ![p] = FALSE]
  /\ key' = [key EXCEPT ![p] = NoKey]
  /\ pub' = [pub EXCEPT ![p] = NoImage]

\* tmpdir is removed, or cleanup raises RuntimeError; the process ends either
\* way.
CloseTmpdir(p) ==
  /\ Closing(p, "tmpdir")
  /\ Leave(p, {"tmpdir"})
  /\ Goto(p, "exited")
  /\ UNCHANGED exc \/ exc' = [exc EXCEPT ![p] = "error"]
  /\ Forget(p)
  /\ UNCHANGED <<storeVars, job, excuse>>

-----------------------------------------------------------------------------
(* Failures.                                                               *)

\* The command a step ran failed, before it did anything or, the process being
\* past that step, after it did: PodmanCommandFailed, or Runner's sys.exit(1).
\* Ctrl-C outside of an __exit__ does the same.
ToolFails(p) ==
  /\ Running(p) /\ exc[p] = "none"
  /\ Raise(p, "error")
  /\ UNCHANGED <<storeVars, job, open, workVars>>

\* Ctrl-C hits an __exit__: the KeyboardInterrupt ends it with its work undone.
Interrupt(p) ==
  /\ Raise(p, "error")
  /\ \E m \in Manager \ {"tmpdir"} :
       /\ Closing(p, m)
       /\ Leave(p, IF m = "mounted" THEN {m, "container"} ELSE {m})
       /\ IF m \in {"temp", "sealing"}
            THEN excuse' = [excuse EXCEPT ![p] = "interrupted"]
            ELSE UNCHANGED excuse
  /\ UNCHANGED <<storeVars, job, mnt, todo, initrd, aboot, key, pub>>

\* SIGKILL or SIGTERM: no with-block is left, nothing is cleaned up.
Kill(p) ==
  /\ Running(p)
  /\ Goto(p, "killed")
  /\ open' = [open EXCEPT ![p] = {}]
  /\ exc' = [exc EXCEPT ![p] = "error"]
  /\ Forget(p)
  /\ UNCHANGED <<storeVars, job, excuse>>

\* Another aib command, say build, stores a new image under a name.
Rebuild(n, t) ==
  /\ "retag" \in Fault \/ \A q \in Proc : Running(q) => n \notin Reads(job[q])
  /\ ref' = [ref EXCEPT ![n] = Fresh(t)]
  /\ UNCHANGED <<anon, archive, dir, pc, job, exc, open, workVars>>

-----------------------------------------------------------------------------
Step(p) ==
  \/ CheckSource(p) \/ FindBuilder(p) \/ ClearOut(p) \/ MountImage(p)
  \/ CopyOut(p) \/ ExitNothingToSign(p) \/ ReadInitrd(p) \/ AppendKey(p)
  \/ CreateContainer(p) \/ ModifyInitrd(p) \/ CopyIn(p) \/ CloseImage(p)
  \/ CommitContainer(p) \/ RemoveContainer(p) \/ ReadKeys(p) \/ SealImage(p)
  \/ StoreToArchive(p) \/ CloseSealing(p) \/ CloseTemporary(p)
  \/ CloseTmpdir(p)

Next ==
  \/ \E p \in Proc : \/ \E j \in Jobs : Start(p, j)
                     \/ Step(p)
                     \/ ToolFails(p) \/ Interrupt(p) \/ Kill(p)
  \/ \E n \in Name, t \in Tree : Rebuild(n, t)

Spec == Init /\ [][Next]_vars

-----------------------------------------------------------------------------
(* What makes the workflow correct.                                        *)

Reseals(j) == j.cmd = "reseal" \/ (j.cmd = "inject-signed" /\ j.key # NoKey)

\* What reseal, or inject-signed --reseal-with-key, stores under the name the
\* user gave is never an unsealed image, and reseal without --key signs with
\* the very key it put into the initramfs that boots, whatever other commands
\* did to the source meanwhile; only an aboot.img that was not seen when the
\* source was first looked at keeps its old key (and the status is 0).
ResealBinds ==
  \A p \in Proc : pub[p] # NoImage /\ Reseals(job[p]) =>
    /\ pub[p].seal = key[p]
    /\ job[p].key = NoKey =>
         pub[p].key = key[p] \/ (pub[p].tree \in Aboot /\ ~aboot[p])

\* inject-signed stores an image with every listed file replaced, or none at
\* all: a file missing from srcdir, or a failing copy, leaves nothing half
\* signed.
InjectIsComplete ==
  \A p \in Proc : pub[p] # NoImage /\ job[p].cmd = "inject-signed" =>
    pub[p].files = SignedFile

\* Images stored under a random name, and the one inject-signed commits to seal
\* it, do not outlive the command, unless it said so or Ctrl-C hit the removal
\* itself: not after an error either.  (The image reseal commits is owned by
\* nobody and stays: see the README.)
TemporariesRemoved ==
  \A p \in Proc : pc[p] = "exited" /\ excuse[p] = "none" =>
    /\ ref[p] = NoImage
    /\ job[p].cmd = "inject-signed" /\ exc[p] = "none" => anon[p] = NoImage

Succeeds(p) ==
  Running(p) /\ pc'[p] = "exited" /\ exc'[p] \in {"none", "exit0"}

\* What extract-for-signing leaves in out when it ends with status 0 is of the
\* image it mounted and of no earlier extraction: every listed file, although
\* one may be cut short unnoticed; or, when it said that there is nothing to
\* sign, no file at all.
ExtractIsFresh ==
  [][\A p \in Proc :
       Succeeds(p) /\ job[p].cmd = "extract-for-signing" =>
       \A f \in SignedFile :
         dir'[job[p].dir][f] \in
           IF exc'[p] = "exit0" THEN {NoFile} ELSE {mnt[p].tree, Torn}]_vars

\* Status 0 of the other commands means that the result is under the name the
\* user gave.  The one other way to it is inject-signed's "nothing needed
\* signing", which is also what it says when the test for the list fails.
SuccessMeansResult ==
  [][\A p \in Proc :
       Succeeds(p) /\ job[p].cmd # "extract-for-signing" =>
         \/ pub[p] # NoImage
         \/ exc[p] = "exit0" /\ job[p].cmd = "inject-signed"
              /\ (mnt[p].tree \in Unsignable \/ "misread" \in Fault)]_vars

\* Seen through the names users give, every command is the atomic one.
Atomic == INSTANCE SealAtomic WITH
            store <- [n \in Name |-> ref[n]],
            task  <- [p \in Proc |-> IF Running(p) THEN job[p] ELSE NoJob],
            done  <- [p \in Proc |-> pub[p] # NoImage /\ Running(p)]
RefinesAtomic == Atomic!Spec
=============================================================================
