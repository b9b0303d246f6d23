------------------------ MODULE SealWorkflow_proofs ------------------------
(***************************************************************************)
(* Proofs about SealWorkflow for any set of processes, names, trees, keys  *)
(* and jobs.  The first part holds with any of the optional faults; the    *)
(* second, from Undisturbed on, is the refinement of SealAtomic.           *)
(***************************************************************************)
EXTENDS SealWorkflow, TLAPS

-----------------------------------------------------------------------------
(* Images stay images.                                                     *)

\* What osbuild leaves is an image.
LEMMA FreshType == ASSUME NEW t \in Tree PROVE Fresh(t) \in Image
  BY BootcImageAssumption DEF Fresh, Image

\* Injecting a key, a signed file or a signature makes an image of an image.
LEMMA WithKeyType ==
  ASSUME NEW img \in Image, NEW i \in Tree \cup {Torn}, NEW k \in Key,
         NEW a \in BOOLEAN
  PROVE  /\ WithKey(img, i, k, a) \in Image
         /\ WithKey(img, i, k, a).tree = img.tree
         /\ a \/ img.tree \notin Aboot => WithKey(img, i, k, a).key = k
  BY DEF WithKey, Image

LEMMA WithFileType ==
  ASSUME NEW img \in Image, NEW f \in SignedFile
  PROVE  /\ WithFile(img, f) \in Image
         /\ WithFile(img, f).files = img.files \cup {f}
  BY DEF WithFile, Image

LEMMA SealedType ==
  ASSUME NEW img \in Image, NEW k \in Key
  PROVE  /\ Sealed(img, k) \in Image
         /\ Sealed(img, k).seal = k
         /\ Sealed(img, k).key = img.key
         /\ Sealed(img, k).tree = img.tree
         /\ Sealed(img, k).files = img.files
  BY DEF Sealed, Image

-----------------------------------------------------------------------------
(* Type correctness.                                                       *)

\* Which commands reach the steps that need a key or a writable image.
Flow ==
  \A p \in Proc :
    /\ pc[p] = "extract" => job[p].cmd = "extract-for-signing"
    /\ pc[p] \in {"builder", "readinitrd", "append", "create", "modify",
                  "leavemount", "leavecontainer"} => job[p].cmd # "extract-for-signing"
    /\ pc[p] \in {"readkeys", "seal", "leavesealing"} => Untagged(job[p])

\* Between mounting and unmounting there is something under the mount point.
Mounted ==
  \A p \in Proc :
    pc[p] \in {"extract", "readinitrd", "modify", "leavemount"} =>
      mnt[p] # NoImage

\* A command that needs a key has one once its source was checked.
KeyHeld ==
  \A p \in Proc :
    pc[p] \notin {"exited", "killed", "check", "unwinding"}
      /\ (job[p].key # NoKey \/ job[p].cmd = "reseal") => key[p] # NoKey

TypeInv == TypeOK /\ Flow /\ Mounted /\ KeyHeld

\* The fields of a command line.
LEMMA JobType ==
  ASSUME NEW j \in Jobs
  PROVE  /\ j.cmd \in Command
         /\ j.src \in Name /\ j.dst \in Name
         /\ j.key \in Key \cup {NoKey}
         /\ j.oci \in BOOLEAN
         /\ j.dir \in Dir
         /\ j.cmd = "prepare-reseal" => j.key # NoKey
  BY BootcImageAssumption DEF Job

LEMMA InitType == Init => TypeInv
  <1> SUFFICES ASSUME Init PROVE TypeInv
    OBVIOUS
  <1>1. (CHOOSE j \in Jobs : TRUE) \in Jobs
    BY BootcImageAssumption
  <1>2. TypeOK
    BY <1>1, FreshType, BootcImageAssumption
    DEF Init, TypeOK, Ref, Label, Manager
  <1>3. Flow /\ Mounted /\ KeyHeld
    BY DEF Init, Flow, Mounted, KeyHeld
  <1> QED BY <1>2, <1>3 DEF TypeInv

\* Every step keeps the invariant.
LEMMA StepType == TypeInv /\ [Next]_vars => TypeInv'
  <1> SUFFICES ASSUME TypeInv, [Next]_vars PROVE TypeInv'
    OBVIOUS
  <1> USE DEF TypeInv
  <1>0. /\ \A p \in Proc : job[p] \in Jobs
        /\ TypeOK
    BY DEF TypeOK
  <1>1. ASSUME NEW p \in Proc, NEW j \in Jobs, Start(p, j) PROVE TypeInv'
    BY <1>1, JobType DEF Start, TypeOK, Flow, Mounted, KeyHeld, Goto, Enter,
      Ref, Label, Manager
  <1>2. ASSUME NEW p \in Proc, CheckSource(p) PROVE TypeInv'
    <2>a. ref[job[p].src] \in Image \cup {NoImage}
      BY <1>0, JobType DEF TypeOK, Ref
    <2>b. /\ FreshKeys \subseteq Key
          /\ job[p].key \in Key \cup {NoKey}
          /\ AfterCheck(job[p]) \in Label
          /\ NameManagers(job[p]) \subseteq Manager
      BY <1>0, JobType DEF FreshKeys, AfterCheck, Label, NameManagers, Manager
    <2>c. key' \in [Proc -> Key \cup {NoKey}]
      BY <1>2, <1>0, <2>b DEF CheckSource, TypeOK
    <2>d. pc' \in [Proc -> Label]
      BY <1>2, <1>0, <2>b DEF CheckSource, TypeOK, Goto, Raise, Label
    <2>e. UNCHANGED <<storeVars, job, mnt, todo, initrd, aboot, excuse, pub>>
      BY <1>2 DEF CheckSource
    <2>f. /\ open' \in [Proc -> SUBSET Manager]
          /\ exc' \in [Proc -> {"none", "exit0", "error"}]
      <3>1. UNCHANGED open \/ Enter(p, NameManagers(job[p]))
        BY <1>2 DEF CheckSource
      <3>2. UNCHANGED exc \/ Raise(p, "error")
        BY <1>2 DEF CheckSource
      <3>3. open' \in [Proc -> SUBSET Manager]
        BY <3>1, <1>0, <2>b DEF TypeOK, Enter
      <3> QED BY <3>2, <3>3, <1>0 DEF TypeOK, Raise
    <2>1. TypeOK'
      BY <2>c, <2>d, <2>e, <2>f, <1>0 DEF TypeOK, storeVars
    <2>2. Flow'
      BY <1>2, <1>0, JobType, BootcImageAssumption DEF Flow, TypeOK, Untagged,
        CheckSource, Goto, Label, Enter, Raise, At, AfterCheck, NameManagers,
        FreshKeys, Manager, storeVars, Command
    <2>3. Mounted'
      BY <1>2, <1>0, JobType, BootcImageAssumption DEF Mounted, TypeOK,
        CheckSource, Goto, Label, Enter, Raise, At, AfterCheck, NameManagers,
        FreshKeys, Manager, storeVars, Command
    <2>4. KeyHeld'
      BY <1>2, <1>0, JobType, BootcImageAssumption DEF KeyHeld, TypeOK,
        CheckSource, Goto, Label, Enter, Raise, At, AfterCheck, NameManagers,
        FreshKeys, Manager, storeVars, Command
    <2> QED BY <2>1, <2>2, <2>3, <2>4
  <1>3. ASSUME NEW p \in Proc, FindBuilder(p) PROVE TypeInv'
    BY <1>3 DEF FindBuilder, TypeOK, Flow, Mounted, KeyHeld, Goto, Label, At,
      storeVars, workVars
  <1>4. ASSUME NEW p \in Proc, ClearOut(p) PROVE TypeInv'
    <2>1. TypeOK'
      BY <1>4, <1>0, JobType DEF TypeOK, Mounted, KeyHeld, Flow, Untagged,
        ClearOut, Goto, Label, At, workVars
    <2>2. Flow'
      BY <1>4, <1>0, JobType DEF Flow, TypeOK, Untagged, Command, ClearOut,
        Goto, Label, At
    <2>3. Mounted'
      BY <1>4, <1>0, JobType DEF Mounted, TypeOK, ClearOut, Goto, Label, At, workVars
    <2>4. KeyHeld'
      BY <1>4, <1>0, JobType DEF KeyHeld, TypeOK, ClearOut, Goto, Label, At, workVars
    <2> QED BY <2>1, <2>2, <2>3, <2>4
  <1>5. ASSUME NEW p \in Proc, MountImage(p) PROVE TypeInv'
    <2>a. ref[job[p].src] \in Image \cup {NoImage}
      BY <1>0, JobType DEF TypeOK, Ref
    <2>b. /\ UNCHANGED <<storeVars, job, initrd, aboot, key, excuse, pub>>
          /\ pc[p] = "mount"
      BY <1>5 DEF MountImage, At
    <2>c. \/ /\ ref[job[p].src] = NoImage
             /\ Raise(p, "error") /\ UNCHANGED <<open, mnt, todo>>
          \/ /\ ref[job[p].src] # NoImage
             /\ mnt' = [mnt EXCEPT ![p] = ref[job[p].src]]
             /\ todo' = [todo EXCEPT ![p] = SignedFile]
             /\ Enter(p, {"image"})
             /\ Goto(p, IF job[p].cmd = "extract-for-signing" THEN "extract"
                        ELSE "readinitrd")
             /\ UNCHANGED exc
      BY <1>5 DEF MountImage
    <2>d. /\ pc' \in [Proc -> Label]
          /\ \A q \in Proc \ {p} : pc'[q] = pc[q] /\ mnt'[q] = mnt[q]
          /\ pc'[p] \in {"unwinding", "extract", "readinitrd"}
          /\ pc'[p] = "extract" => job[p].cmd = "extract-for-signing"
          /\ pc'[p] = "readinitrd" => job[p].cmd # "extract-for-signing"
      BY <2>c, <1>0 DEF TypeOK, Goto, Raise, Label
    <2>e. open' \in [Proc -> SUBSET Manager]
      BY <2>c, <1>0 DEF TypeOK, Enter, Manager
    <2>f. /\ mnt' \in [Proc -> Image \cup {NoImage}]
          /\ pc'[p] # "unwinding" => mnt'[p] # NoImage
      BY <2>c, <2>a, <1>0 DEF TypeOK, Raise, Goto
    <2>g. /\ todo' \in [Proc -> SUBSET SignedFile]
          /\ exc' \in [Proc -> {"none", "exit0", "error"}]
      <3>1. \/ UNCHANGED todo
            \/ todo' = [todo EXCEPT ![p] = SignedFile]
        BY <2>c
      <3>2. UNCHANGED exc \/ Raise(p, "error")
        BY <2>c
      <3>3. exc' \in [Proc -> {"none", "exit0", "error"}]
        BY <3>2, <1>0 DEF TypeOK, Raise
      <3> QED BY <3>1, <3>3, <1>0 DEF TypeOK
    <2>1. TypeOK'
      BY <2>b, <2>d, <2>e, <2>f, <2>g, <1>0 DEF TypeOK, storeVars
    <2>2. Flow'
      BY <2>b, <2>d DEF Flow, Untagged
    <2>3. Mounted'
      BY <2>d, <2>f DEF Mounted
    <2>4. KeyHeld'
      BY <2>b, <2>d DEF KeyHeld
    <2> QED BY <2>1, <2>2, <2>3, <2>4
  <1>6. ASSUME NEW p \in Proc, CopyOut(p) PROVE TypeInv'
    <2>1. mnt[p] \in Image
      BY <1>6, <1>0 DEF CopyOut, At, Mounted, TypeOK
    <2>2. {mnt[p].tree, Torn} \subseteq Tree \cup {Torn, NoFile}
      BY <2>1 DEF Image
    <2>3. dir' \in [Dir -> [SignedFile -> Tree \cup {Torn, NoFile}]]
      BY <1>6, <1>0, <2>2, JobType DEF CopyOut, TypeOK
    <2>4. pc' \in [Proc -> Label] /\ todo' \in [Proc -> SUBSET SignedFile]
      BY <1>6, <1>0 DEF CopyOut, TypeOK, Goto, Label
    <2>5. TypeOK'
      BY <1>6, <1>0, <2>3, <2>4 DEF CopyOut, TypeOK
    <2>6. Flow' /\ Mounted' /\ KeyHeld'
      BY <1>6, JobType DEF CopyOut, TypeOK, Flow, Mounted, KeyHeld, Goto, At,
        Untagged
    <2> QED BY <2>5, <2>6
  <1>7. ASSUME NEW p \in Proc, ExitNothingToSign(p) PROVE TypeInv'
    BY <1>7 DEF ExitNothingToSign, TypeOK, Flow, Mounted, KeyHeld, Goto,
      Label, At, Raise, storeVars, workVars
  <1>8. ASSUME NEW p \in Proc, ReadInitrd(p) PROVE TypeInv'
    <2>1. mnt[p] \in Image
      BY <1>8, <1>0 DEF ReadInitrd, At, Mounted, TypeOK
    <2>2. {mnt[p].initrd, Torn} \subseteq Tree \cup {Torn}
      BY <2>1 DEF Image
    <2>3. /\ initrd' \in [Proc -> Tree \cup {Torn}]
          /\ aboot' \in [Proc -> BOOLEAN]
      <3>1. \/ aboot' = [aboot EXCEPT ![p] = mnt[p].tree \in Aboot]
            \/ aboot' = [aboot EXCEPT ![p] = FALSE]
        BY <1>8 DEF ReadInitrd
      <3>2. PICK b : b = (mnt[p].tree \in Aboot)
        OBVIOUS
      <3>4. b \in BOOLEAN
        BY <3>2
      <3>5. aboot' = [aboot EXCEPT ![p] = b] \/ aboot' = [aboot EXCEPT ![p] = FALSE]
        BY <3>1, <3>2
      <3>6. aboot \in [Proc -> BOOLEAN]
        BY <1>0 DEF TypeOK
      <3>7. aboot' \in [Proc -> BOOLEAN]
        BY <3>4, <3>5, <3>6
      <3>3. initrd' \in [Proc -> Tree \cup {Torn}]
        BY <1>8, <1>0, <2>2 DEF ReadInitrd, TypeOK
      <3> QED BY <3>3, <3>7
    <2>4. pc' \in [Proc -> Label]
      BY <1>8, <1>0 DEF ReadInitrd, TypeOK, Goto, Label
    <2>5. TypeOK'
      BY <1>8, <1>0, <2>3, <2>4 DEF ReadInitrd, TypeOK, storeVars
    <2>6. Flow' /\ Mounted' /\ KeyHeld'
      BY <1>8 DEF ReadInitrd, TypeOK, Flow, Mounted, KeyHeld, Goto, At,
        Untagged
    <2> QED BY <2>5, <2>6
  <1>9. ASSUME NEW p \in Proc, AppendKey(p) PROVE TypeInv'
    BY <1>9 DEF AppendKey, TypeOK, Flow, Mounted, KeyHeld, Goto, Label, At,
      storeVars, workVars
  <1>10. ASSUME NEW p \in Proc, CreateContainer(p) PROVE TypeInv'
    <2>a. ref[job[p].src] \in Image \cup {NoImage}
      BY <1>0, JobType DEF TypeOK, Ref
    <2>b. /\ UNCHANGED <<storeVars, job, initrd, aboot, key, excuse, pub>>
          /\ pc[p] = "create"
      BY <1>10 DEF CreateContainer, At
    <2>c. \/ /\ ref[job[p].src] = NoImage
             /\ Raise(p, "error") /\ UNCHANGED <<open, mnt, todo>>
          \/ /\ ref[job[p].src] # NoImage
             /\ mnt' = [mnt EXCEPT ![p] = ref[job[p].src]]
             /\ todo' = [todo EXCEPT ![p] = SignedFile]
             /\ Enter(p, {"container", "mounted"})
             /\ Goto(p, "modify")
             /\ UNCHANGED exc
      BY <1>10 DEF CreateContainer
    <2>d. /\ pc' \in [Proc -> Label]
          /\ \A q \in Proc \ {p} : pc'[q] = pc[q] /\ mnt'[q] = mnt[q]
          /\ pc'[p] \in {"unwinding", "modify"}
      <3>1. \/ Goto(p, "unwinding") /\ UNCHANGED mnt
            \/ Goto(p, "modify") /\ mnt' = [mnt EXCEPT ![p] = ref[job[p].src]]
        BY <2>c DEF Raise
      <3> QED BY <3>1, <1>0 DEF TypeOK, Goto, Label
    <2>e. open' \in [Proc -> SUBSET Manager]
      BY <2>c, <1>0 DEF TypeOK, Enter, Manager
    <2>f. /\ mnt' \in [Proc -> Image \cup {NoImage}]
          /\ pc'[p] # "unwinding" => mnt'[p] # NoImage
      BY <2>c, <2>a, <1>0 DEF TypeOK, Raise, Goto
    <2>g. /\ todo' \in [Proc -> SUBSET SignedFile]
          /\ exc' \in [Proc -> {"none", "exit0", "error"}]
      <3>1. \/ UNCHANGED todo
            \/ todo' = [todo EXCEPT ![p] = SignedFile]
        BY <2>c
      <3>2. UNCHANGED exc \/ Raise(p, "error")
        BY <2>c
      <3>3. exc' \in [Proc -> {"none", "exit0", "error"}]
        BY <3>2, <1>0 DEF TypeOK, Raise
      <3> QED BY <3>1, <3>3, <1>0 DEF TypeOK
    <2>1. TypeOK'
      BY <2>b, <2>d, <2>e, <2>f, <2>g, <1>0 DEF TypeOK, storeVars
    <2>2. Flow'
      BY <2>b, <2>d DEF Flow, Untagged
    <2>3. Mounted'
      BY <2>d, <2>f DEF Mounted
    <2>4. KeyHeld'
      BY <2>b, <2>d DEF KeyHeld
    <2> QED BY <2>1, <2>2, <2>3, <2>4
  <1>11. ASSUME NEW p \in Proc, ModifyInitrd(p) PROVE TypeInv'
    <2>1. /\ mnt[p] \in Image /\ key[p] \in Key
          /\ initrd[p] \in Tree \cup {Torn} /\ aboot[p] \in BOOLEAN
      BY <1>11, <1>0, JobType DEF ModifyInitrd, At, Mounted, Flow, KeyHeld,
        TypeOK, Command
    <2>2. WithKey(mnt[p], initrd[p], key[p], aboot[p]) \in Image
      BY <2>1, WithKeyType
    <2>3. TypeOK'
      BY <1>11, <1>0, <2>2 DEF ModifyInitrd, TypeOK, Goto, Label, storeVars
    <2>4. Flow' /\ Mounted' /\ KeyHeld'
      BY <1>11, <2>2, BootcImageAssumption DEF ModifyInitrd, TypeOK, Flow,
        Mounted, KeyHeld, Goto, At, Untagged
    <2> QED BY <2>3, <2>4
  <1>12. ASSUME NEW p \in Proc, CopyIn(p) PROVE TypeInv'
    <2>a. mnt[p] \in Image
      BY <1>12, <1>0 DEF CopyIn, At, Mounted, TypeOK
    <2>b. pc' \in [Proc -> Label]
      BY <1>12, <1>0 DEF CopyIn, TypeOK, Goto, Raise, Label
    <2>c. mnt' \in [Proc -> Image \cup {NoImage}]
      BY <1>12, <1>0, <2>a, WithFileType DEF CopyIn, TypeOK
    <2>1. TypeOK'
      BY <1>12, <1>0, <2>b, <2>c DEF CopyIn, TypeOK, Raise, storeVars
    <2>2. Flow'
      BY <1>12, <1>0, JobType, WithFileType, BootcImageAssumption DEF Flow,
        TypeOK, Untagged, Command, CopyIn, Goto, Label, At, Raise, storeVars
    <2>3. Mounted'
      BY <1>12, <1>0, JobType, WithFileType, BootcImageAssumption DEF Mounted,
        TypeOK, CopyIn, Goto, Label, At, Raise, storeVars
    <2>4. KeyHeld'
      BY <1>12, <1>0, JobType, WithFileType, BootcImageAssumption DEF KeyHeld,
        TypeOK, CopyIn, Goto, Label, At, Raise, storeVars
    <2> QED BY <2>1, <2>2, <2>3, <2>4
  <1>13. ASSUME NEW p \in Proc, CloseImage(p) PROVE TypeInv'
    <2>a. /\ UNCHANGED <<storeVars, job, workVars>>
          /\ Leave(p, {"image"})
          /\ exc[p] # "none" \/ pc[p] = "leaveimage"
          /\ Running(p)
      BY <1>13 DEF CloseImage, Closing, End, Manager
    <2>b. \/ Continue(p, AfterImage(job[p])) /\ UNCHANGED exc
          \/ Raise(p, "error")
      BY <1>13 DEF CloseImage
    <2>c. \/ AfterImage(job[p]) = "return"
          \/ /\ AfterImage(job[p]) = "append"
             /\ job[p].cmd # "extract-for-signing"
      BY DEF AfterImage
    <2>d. /\ pc' \in [Proc -> Label]
          /\ \A q \in Proc \ {p} : pc'[q] = pc[q]
          /\ pc'[p] \in {"unwinding", pc[p], AfterImage(job[p])}
          /\ pc'[p] \in {"unwinding", pc[p]} \/ exc[p] = "none"
      <3>1. PICK l \in Label :
              /\ Goto(p, l)
              /\ l \in {"unwinding", pc[p], AfterImage(job[p])}
              /\ l \in {"unwinding", pc[p]} \/ exc[p] = "none"
        BY <2>b, <2>c, <1>0 DEF TypeOK, Continue, Raise, Label
      <3> QED BY <3>1, <1>0 DEF TypeOK, Goto
    <2>e. /\ open' \in [Proc -> SUBSET Manager]
          /\ exc' \in [Proc -> {"none", "exit0", "error"}]
      <3>1. exc' \in [Proc -> {"none", "exit0", "error"}]
        BY <2>b, <1>0 DEF TypeOK, Raise
      <3> QED BY <3>1, <2>a, <1>0 DEF TypeOK, Leave
    <2>1. TypeOK'
      BY <2>a, <2>d, <2>e, <1>0 DEF TypeOK, storeVars, workVars
    <2>2. Flow'
      BY <2>a, <2>c, <2>d DEF Flow, Untagged
    <2>3. Mounted'
      BY <2>a, <2>c, <2>d DEF Mounted, workVars
    <2>4. KeyHeld'
      BY <2>a, <2>c, <2>d DEF KeyHeld, workVars, Running
    <2> QED BY <2>1, <2>2, <2>3, <2>4
  <1>14. ASSUME NEW p \in Proc, CommitContainer(p) PROVE TypeInv'
    <2>a. Target(p) \in Ref /\ mnt[p] \in Image \cup {NoImage}
      BY <1>0, JobType DEF Target, Ref, TypeOK
    <2>b. pc' \in [Proc -> Label]
      BY <1>14, <1>0 DEF CommitContainer, TypeOK, Goto, Continue, Raise, Label
    <2>c. open' \in [Proc -> SUBSET Manager]
      <3>1. Leave(p, {"mounted"}) \/ Leave(p, {"mounted", "container"})
        BY <1>14 DEF CommitContainer
      <3> QED BY <3>1, <1>0 DEF Leave, TypeOK, Manager
    <2>d. exc' \in [Proc -> {"none", "exit0", "error"}]
      BY <1>14, <1>0 DEF CommitContainer, TypeOK, Raise
    <2>e. /\ ref' \in [Ref -> Image \cup {NoImage}]
          /\ anon' \in [Proc -> Image \cup {NoImage}]
          /\ pub' \in [Proc -> Image \cup {NoImage}]
      BY <1>14, <1>0, <2>a DEF CommitContainer, TypeOK, Store
    <2>1. TypeOK'
      BY <1>14, <1>0, <2>b, <2>c, <2>d, <2>e DEF CommitContainer, TypeOK
    <2>2. Flow'
      BY <1>14, <1>0, JobType DEF Flow, TypeOK, Untagged, Command,
        CommitContainer, Goto, Label, Closing, Leave, Continue, Raise, Store,
        Target, Ref, Commits, End, Manager
    <2>3. Mounted'
      BY <1>14, <1>0, JobType DEF Mounted, TypeOK, CommitContainer, Goto,
        Label, Closing, Leave, Continue, Raise, Store, Target, Ref, Commits,
        End, Manager
    <2>4. KeyHeld'
      BY <1>14, <1>0, JobType DEF KeyHeld, TypeOK, CommitContainer, Goto,
        Label, Closing, Leave, Continue, Raise, Store, Target, Ref, Commits,
        End, Manager
    <2> QED BY <2>1, <2>2, <2>3, <2>4
  <1>15. ASSUME NEW p \in Proc, RemoveContainer(p) PROVE TypeInv'
    <2>a. /\ UNCHANGED <<storeVars, job, workVars>>
          /\ Leave(p, {"container"})
          /\ exc[p] # "none" \/ pc[p] = "leavecontainer"
          /\ Running(p)
      BY <1>15 DEF RemoveContainer, Closing, End, Manager
    <2>b. \/ Continue(p, AfterContainer(job[p])) /\ UNCHANGED exc
          \/ Raise(p, "error")
      BY <1>15 DEF RemoveContainer
    <2>c. /\ AfterContainer(job[p])
               \in {"return", "readkeys", "seal", "archive"}
          /\ AfterContainer(job[p]) \in {"readkeys", "seal"} =>
               (job[p].cmd # "extract-for-signing" => Untagged(job[p]))
      BY <1>0, JobType DEF AfterContainer, Finish, Untagged, Command
    <2>d. /\ pc' \in [Proc -> Label]
          /\ \A q \in Proc \ {p} : pc'[q] = pc[q]
          /\ pc'[p] \in {"unwinding", pc[p], AfterContainer(job[p])}
          /\ pc'[p] \in {"unwinding", pc[p]} \/ exc[p] = "none"
      <3>1. PICK l \in Label :
              /\ Goto(p, l)
              /\ l \in {"unwinding", pc[p], AfterContainer(job[p])}
              /\ l \in {"unwinding", pc[p]} \/ exc[p] = "none"
        BY <2>b, <2>c, <1>0 DEF TypeOK, Continue, Raise, Label
      <3> QED BY <3>1, <1>0 DEF TypeOK, Goto
    <2>e. /\ open' \in [Proc -> SUBSET Manager]
          /\ exc' \in [Proc -> {"none", "exit0", "error"}]
      <3>1. exc' \in [Proc -> {"none", "exit0", "error"}]
        BY <2>b, <1>0 DEF TypeOK, Raise
      <3> QED BY <3>1, <2>a, <1>0 DEF TypeOK, Leave
    <2>1. TypeOK'
      BY <2>a, <2>d, <2>e, <1>0 DEF TypeOK, storeVars, workVars
    <2>2. Flow'
      BY <2>a, <2>c, <2>d DEF Flow, Untagged
    <2>3. Mounted'
      BY <2>a, <2>c, <2>d DEF Mounted, workVars
    <2>4. KeyHeld'
      BY <2>a, <2>c, <2>d DEF KeyHeld, workVars, Running
    <2> QED BY <2>1, <2>2, <2>3, <2>4
  <1>16. ASSUME NEW p \in Proc, ReadKeys(p) PROVE TypeInv'
    BY <1>16 DEF ReadKeys, TypeOK, Flow, Mounted, KeyHeld, Goto, Label, At,
      Enter, Manager, storeVars, workVars
  <1>17. ASSUME NEW p \in Proc, SealImage(p) PROVE TypeInv'
    <2>a. /\ Target(p) \in Ref
          /\ SealSource(p) \in Image \cup {NoImage}
          /\ key[p] \in Key
      BY <1>17, <1>0, JobType
      DEF SealImage, At, KeyHeld, Flow, Untagged, SealSource, Target, Ref,
          TypeOK
    <2>b. SealSource(p) # NoImage => Sealed(SealSource(p), key[p]) \in Image
      BY <2>a, SealedType
    <2>c. AfterSeal(job[p]) \in Label
      BY DEF AfterSeal, Finish, Label
    <2>d. pc' \in [Proc -> Label]
      BY <1>17, <1>0, <2>c DEF SealImage, TypeOK, Goto, Raise, Label
    <2>e. /\ ref' \in [Ref -> Image \cup {NoImage}]
          /\ pub' \in [Proc -> Image \cup {NoImage}]
      <3>1. \/ UNCHANGED <<ref, pub>>
            \/ /\ SealSource(p) # NoImage
               /\ Store(p, Sealed(SealSource(p), key[p]))
        BY <1>17 DEF SealImage
      <3>2. ref' \in [Ref -> Image \cup {NoImage}]
        BY <3>1, <1>0, <2>a, <2>b DEF TypeOK, Store
      <3>3. pub' \in [Proc -> Image \cup {NoImage}]
        BY <3>1, <1>0, <2>b DEF TypeOK, Store
      <3> QED BY <3>2, <3>3
    <2>f. /\ UNCHANGED <<anon, archive, dir, job, open, mnt, todo, initrd, aboot, key,
                         excuse>>
          /\ pc[p] = "seal"
      BY <1>17 DEF SealImage, At
    <2>g. exc' \in [Proc -> {"none", "exit0", "error"}]
      BY <1>17, <1>0 DEF SealImage, TypeOK, Raise
    <2>h. /\ \A q \in Proc \ {p} : pc'[q] = pc[q]
          /\ pc'[p] \in {"unwinding", AfterSeal(job[p])}
      BY <1>17, <1>0 DEF SealImage, TypeOK, Goto, Raise
    <2>i. AfterSeal(job[p]) \in {"leavesealing", "archive", "return"}
      BY DEF AfterSeal, Finish
    <2>1. TypeOK'
      BY <2>d, <2>e, <2>f, <2>g, <1>0 DEF TypeOK
    <2>2. Flow'
      BY <2>f, <2>h, <2>i DEF Flow, Untagged
    <2>3. Mounted'
      BY <2>f, <2>h, <2>i DEF Mounted
    <2>4. KeyHeld'
      BY <2>f, <2>h, <2>i DEF KeyHeld
    <2> QED BY <2>1, <2>2, <2>3, <2>4
  <1>18. ASSUME NEW p \in Proc, StoreToArchive(p) PROVE TypeInv'
    BY <1>18, JobType DEF StoreToArchive, TypeOK, Flow, Mounted, KeyHeld,
      Goto, Label, At, Ref
  <1>19. ASSUME NEW p \in Proc, CloseSealing(p) PROVE TypeInv'
    BY <1>19 DEF CloseSealing, TypeOK, Flow, Mounted, KeyHeld, Goto, Label,
      Closing, Leave, Continue, Finish, Cleanup, Untagged, End, Manager
  <1>20. ASSUME NEW p \in Proc, CloseTemporary(p) PROVE TypeInv'
    BY <1>20 DEF CloseTemporary, TypeOK, Flow, Mounted, KeyHeld, Goto, Label,
      Closing, Leave, Cleanup, Ref
  <1>21. ASSUME NEW p \in Proc, CloseTmpdir(p) PROVE TypeInv'
    BY <1>21 DEF CloseTmpdir, TypeOK, Flow, Mounted, KeyHeld, Goto, Label,
      Closing, Leave, Forget, storeVars, Manager
  <1>22. ASSUME NEW p \in Proc, ToolFails(p) PROVE TypeInv'
    BY <1>22 DEF ToolFails, TypeOK, Flow, Mounted, KeyHeld, Goto, Label,
      Raise, storeVars, workVars
  <1>23. ASSUME NEW p \in Proc, Interrupt(p) PROVE TypeInv'
    BY <1>23 DEF Interrupt, TypeOK, Flow, Mounted, KeyHeld, Goto, Label,
      Raise, Leave, storeVars
  <1>24. ASSUME NEW p \in Proc, Kill(p) PROVE TypeInv'
    BY <1>24 DEF Kill, TypeOK, Flow, Mounted, KeyHeld, Goto, Label, Forget,
      storeVars
  <1>25. ASSUME NEW n \in Name, NEW t \in Tree, Rebuild(n, t) PROVE TypeInv'
    BY <1>25, FreshType DEF Rebuild, TypeOK, Flow, Mounted, KeyHeld, Ref,
      workVars
  <1>26. CASE UNCHANGED vars
    BY <1>26 DEF vars, storeVars, workVars, TypeOK, Flow, Mounted, KeyHeld
  <1> QED
    BY <1>1, <1>2, <1>3, <1>4, <1>5, <1>6, <1>7, <1>8, <1>9, <1>10, <1>11,
       <1>12, <1>13, <1>14, <1>15, <1>16, <1>17, <1>18, <1>19, <1>20, <1>21,
       <1>22, <1>23, <1>24, <1>25, <1>26
    DEF Next, Step

\* Every variable keeps its type: in particular no command mistakes "no image"
\* or "no key" for one on any path through its failures.
THEOREM TypeCorrect == Spec => []TypeOK
  <1>1. TypeInv => TypeOK
    BY DEF TypeInv
  <1> QED BY InitType, StepType, <1>1, PTL DEF Spec

\* The same for the strengthened invariant, which the other theorems rest on.
THEOREM TypeInvHolds == Spec => []TypeInv
  BY InitType, StepType, PTL DEF Spec

-----------------------------------------------------------------------------
(* What a command stores.                                                  *)

\* The initramfs an image boots carries the key of process p, unless it is in an
\* aboot.img the process did not see.
Carries(p, img) == img.key = key[p] \/ (img.tree \in Aboot /\ ~aboot[p])

\* An image that is sealed with the key of process p, and, for reseal without
\* --key, carries that key.
Binds(p, img) ==
  /\ img.seal = key[p]
  /\ job[p].key = NoKey => Carries(p, img)

\* What is known, at each stage of process p, of the image it works on.  The
\* two invariants are not inductive: what is stored was under the mount point,
\* then untagged or under the random name, before.
Unstarted(p) ==
  /\ pc[p] \in {"exited", "killed"} => pub[p] = NoImage
  /\ pc[p] \in {"check", "builder", "clear", "mount", "readinitrd"} =>
       pub[p] = NoImage /\ anon[p] = NoImage /\ ref[p] = NoImage

ResealStages(p) ==
  /\ Running(p) /\ job[p].cmd = "reseal" /\ job[p].key = NoKey =>
       /\ pc[p] = "leavemount" => Carries(p, mnt[p])
       /\ anon[p] # NoImage => Carries(p, anon[p])
  /\ Running(p) /\ Reseals(job[p]) /\ ref[p] # NoImage => Binds(p, ref[p])
  /\ Reseals(job[p]) /\ pub[p] # NoImage => Binds(p, pub[p])

InjectStages(p) ==
  Running(p) /\ job[p].cmd = "inject-signed" =>
    /\ pc[p] = "modify" => SignedFile \ todo[p] \subseteq mnt[p].files
    /\ pc[p] = "leavemount" => mnt[p].files = SignedFile
    /\ anon[p] # NoImage => anon[p].files = SignedFile
    /\ ref[p] # NoImage => ref[p].files = SignedFile
    /\ pub[p] # NoImage => pub[p].files = SignedFile

Result(p) == Unstarted(p) /\ ResealStages(p) /\ InjectStages(p)

ResultInv == \A p \in Proc : Result(p)

LEMMA InitResult == Init => ResultInv
  BY BootcImageAssumption
  DEF Init, ResultInv, Result, Unstarted, ResealStages, InjectStages, Running

\* Every step keeps the invariant.
LEMMA StepResult == TypeInv /\ ResultInv /\ [Next]_vars => ResultInv'
  <1> SUFFICES ASSUME TypeInv, ResultInv, [Next]_vars, NEW q \in Proc
               PROVE  Result(q)'
    BY DEF ResultInv
  <1>0. /\ TypeOK
        /\ Result(q)
    BY DEF ResultInv, TypeInv
  <1>1. ASSUME NEW p \in Proc, NEW j \in Jobs, Start(p, j) PROVE Result(q)'
    BY <1>1, <1>0 DEF Start, Ref, Result, Unstarted, ResealStages,
      InjectStages, Binds, Carries, Reseals, Running, TypeOK, Goto
  <1>2. ASSUME NEW p \in Proc, CheckSource(p) PROVE Result(q)'
    BY <1>2, <1>0 DEF CheckSource, Result, Unstarted, ResealStages,
      InjectStages, Binds, Carries, Reseals, Running, TypeOK, Goto, Raise, At,
      AfterCheck, storeVars
  <1>3. ASSUME NEW p \in Proc, FindBuilder(p) PROVE Result(q)'
    BY <1>3, <1>0 DEF FindBuilder, Result, Unstarted, ResealStages,
      InjectStages, Binds, Carries, Reseals, Running, TypeOK, Goto, At, storeVars,
      workVars
  <1>4. ASSUME NEW p \in Proc, ClearOut(p) PROVE Result(q)'
    BY <1>4, <1>0 DEF ClearOut, Result, Unstarted, ResealStages, InjectStages,
      Binds, Carries, Reseals, Running, TypeOK, Goto, At, workVars
  <1>5. ASSUME NEW p \in Proc, MountImage(p) PROVE Result(q)'
    BY <1>5, <1>0 DEF MountImage, Result, Unstarted, ResealStages,
      InjectStages, Binds, Carries, Reseals, Running, TypeOK, Goto, At, Raise,
      storeVars
  <1>6. ASSUME NEW p \in Proc, CopyOut(p) PROVE Result(q)'
    BY <1>6, <1>0 DEF CopyOut, Result, Unstarted, ResealStages, InjectStages,
      Binds, Carries, Reseals, Running, TypeOK, Goto, At
  <1>7. ASSUME NEW p \in Proc, ExitNothingToSign(p) PROVE Result(q)'
    BY <1>7, <1>0 DEF ExitNothingToSign, Result, Unstarted, ResealStages,
      InjectStages, Binds, Carries, Reseals, Running, TypeOK, Goto, At, Raise,
      storeVars, workVars
  <1>8. ASSUME NEW p \in Proc, ReadInitrd(p) PROVE Result(q)'
    BY <1>8, <1>0 DEF ReadInitrd, Result, Unstarted, ResealStages,
      InjectStages, Binds, Carries, Reseals, Running, TypeOK, Goto, At, storeVars
  <1>9. ASSUME NEW p \in Proc, AppendKey(p) PROVE Result(q)'
    BY <1>9, <1>0 DEF AppendKey, Result, Unstarted, ResealStages,
      InjectStages, Binds, Carries, Reseals, Running, TypeOK, Goto, At, storeVars,
      workVars
  <1>10. ASSUME NEW p \in Proc, CreateContainer(p) PROVE Result(q)'
    BY <1>10, <1>0 DEF CreateContainer, Result, Unstarted, ResealStages,
      InjectStages, Binds, Carries, Reseals, Running, TypeOK, Goto, At, Raise,
      storeVars
  <1>11. ASSUME NEW p \in Proc, ModifyInitrd(p) PROVE Result(q)'
    <2>1. /\ mnt[p] \in Image /\ key[p] \in Key
          /\ initrd[p] \in Tree \cup {Torn} /\ aboot[p] \in BOOLEAN
      BY <1>11, <1>0, JobType DEF ModifyInitrd, At, TypeInv, Mounted, Flow,
        KeyHeld, TypeOK, Command
    <2>2. LET img == WithKey(mnt[p], initrd[p], key[p], aboot[p]) IN
          img.key = key[p] \/ (img.tree \in Aboot /\ ~aboot[p])
      <3>1. PICK img : img = WithKey(mnt[p], initrd[p], key[p], aboot[p])
        OBVIOUS
      <3>2. /\ img.tree = mnt[p].tree
            /\ aboot[p] \/ mnt[p].tree \notin Aboot => img.key = key[p]
        BY <2>1, <3>1, WithKeyType
      <3> QED BY <3>1, <3>2
    <2> QED
      BY <1>11, <1>0, <2>2 DEF ModifyInitrd, At, storeVars, Result, Unstarted,
        ResealStages, InjectStages, Binds, Carries, Reseals, Running, TypeOK, Goto
  <1>12. ASSUME NEW p \in Proc, CopyIn(p) PROVE Result(q)'
    <2>1. /\ mnt[p] \in Image
          /\ \A f \in SignedFile :
               WithFile(mnt[p], f).files = mnt[p].files \cup {f}
      BY <1>12, <1>0, WithFileType DEF CopyIn, At, TypeInv, Mounted, TypeOK
    <2>2. mnt[p].files \subseteq SignedFile
      BY <2>1 DEF Image
    <2>3. PICK f \in todo[p] :
            IF dir[job[p].dir][f] = NoFile
              THEN Raise(p, "error") /\ UNCHANGED <<mnt, todo>>
              ELSE /\ mnt' = [mnt EXCEPT ![p] = WithFile(@, f)]
                   /\ todo' = [todo EXCEPT ![p] = @ \ {f}]
                   /\ Goto(p, IF todo[p] = {f} THEN "leavemount" ELSE "modify")
                   /\ UNCHANGED exc
      BY <1>12 DEF CopyIn
    <2>4. /\ f \in SignedFile
          /\ UNCHANGED <<ref, anon, job, aboot, key, pub>>
          /\ pc[p] = "modify" /\ job[p].cmd = "inject-signed"
      BY <1>12, <1>0, <2>3 DEF CopyIn, At, TypeOK, storeVars
    <2>5. CASE dir[job[p].dir][f] = NoFile
      BY <1>0, <2>3, <2>4, <2>5 DEF Raise, Result, Unstarted, ResealStages,
        InjectStages, Binds, Carries, Reseals, Running, TypeOK, Goto
    <2>6. CASE dir[job[p].dir][f] # NoFile
      <3>1. SignedFile \ todo[p] \subseteq mnt[p].files \/ p # q
        BY <1>0, <2>4 DEF Result, InjectStages, Running
      <3>2. p = q => /\ SignedFile \ todo'[p] \subseteq mnt'[p].files
                     /\ todo[p] = {f} => mnt'[p].files = SignedFile
        <4>1. mnt'[p].files = mnt[p].files \cup {f} /\ todo'[p] = todo[p] \ {f}
          BY <1>0, <2>1, <2>3, <2>4, <2>6 DEF TypeOK
        <4> QED BY <4>1, <3>1, <2>2, <2>4
      <3>3. /\ p = q => pc'[p] = IF todo[p] = {f} THEN "leavemount"
                                                 ELSE "modify"
            /\ p # q => /\ pc'[q] = pc[q]
                        /\ mnt'[q] = mnt[q]
                        /\ todo'[q] = todo[q]
        BY <1>0, <2>3, <2>6 DEF Goto, TypeOK
      <3> QED
        BY <1>0, <2>4, <3>2, <3>3 DEF Result, Unstarted, ResealStages,
          InjectStages, Binds, Carries, Reseals, Running
    <2> QED BY <2>5, <2>6
  <1>13. ASSUME NEW p \in Proc, CloseImage(p) PROVE Result(q)'
    BY <1>13, <1>0 DEF CloseImage, Result, Unstarted, ResealStages,
      InjectStages, Binds, Carries, Reseals, Running, TypeOK, Goto, Closing, Continue,
      Raise, AfterImage, storeVars, workVars
  <1>14. ASSUME NEW p \in Proc, CommitContainer(p) PROVE Result(q)'
    <2>1. Target(p) = q => p = q /\ job[p].oci
      BY <1>0, JobType, BootcImageAssumption DEF Target, TypeOK
    <2>2. CASE q = p
      BY <1>14, <1>0, <2>1, <2>2 DEF CommitContainer, Closing, End, Manager,
        Continue, Raise, Store, Target, Ref, Commits, Untagged, Result,
        Unstarted, ResealStages, InjectStages, Binds, Carries, Reseals, Running,
        TypeOK, Goto
    <2>3. CASE q # p
      BY <1>14, <1>0, <2>1, <2>3 DEF CommitContainer, Closing, Continue,
        Raise, Store, Ref, Result, Unstarted, ResealStages, InjectStages,
        Binds, Carries, Reseals, Running, TypeOK, Goto
    <2> QED BY <2>2, <2>3
  <1>15. ASSUME NEW p \in Proc, RemoveContainer(p) PROVE Result(q)'
    BY <1>15, <1>0 DEF RemoveContainer, Result, Unstarted, ResealStages,
      InjectStages, Binds, Carries, Reseals, Running, TypeOK, Goto, Closing, Continue,
      Raise, AfterContainer, Finish, storeVars, workVars
  <1>16. ASSUME NEW p \in Proc, ReadKeys(p) PROVE Result(q)'
    BY <1>16, <1>0 DEF ReadKeys, Result, Unstarted, ResealStages,
      InjectStages, Binds, Carries, Reseals, Running, TypeOK, Goto, At, storeVars,
      workVars
  <1>17. ASSUME NEW p \in Proc, SealImage(p) PROVE Result(q)'
    <2>1. Target(p) = q => p = q /\ job[p].oci
      BY <1>0, JobType, BootcImageAssumption DEF Target, TypeOK
    <2>2. SealSource(p) # NoImage =>
            LET img == Sealed(SealSource(p), key[p]) IN
            /\ img.seal = key[p]
            /\ img.key = SealSource(p).key
            /\ img.tree = SealSource(p).tree
            /\ img.files = SealSource(p).files
      <3>1. SealSource(p) \in Image \cup {NoImage} /\ key[p] \in Key
        BY <1>17, <1>0, JobType DEF SealImage, At, TypeInv, KeyHeld, Flow,
          Untagged, SealSource, Ref, TypeOK
      <3> QED BY <3>1, SealedType
    <2>3. CASE q = p
      BY <1>17, <1>0, <2>1, <2>2, <2>3 DEF SealImage, At, Raise, SealSource,
        AfterSeal, Finish, Store, Target, Ref, Result, Unstarted,
        ResealStages, InjectStages, Binds, Carries, Reseals, Running, TypeOK, Goto
    <2>4. CASE q # p
      BY <1>17, <1>0, <2>1, <2>4 DEF SealImage, At, Raise, Store, Ref,
        Result, Unstarted, ResealStages, InjectStages, Binds, Carries, Reseals,
        Running, TypeOK, Goto
    <2> QED BY <2>3, <2>4
  <1>18. ASSUME NEW p \in Proc, StoreToArchive(p) PROVE Result(q)'
    BY <1>18, <1>0 DEF StoreToArchive, Result, Unstarted, ResealStages,
      InjectStages, Binds, Carries, Reseals, Running, TypeOK, Goto, At
  <1>19. ASSUME NEW p \in Proc, CloseSealing(p) PROVE Result(q)'
    BY <1>19, <1>0 DEF CloseSealing, Result, Unstarted, ResealStages,
      InjectStages, Binds, Carries, Reseals, Running, TypeOK, Goto, Closing, Continue,
      Finish, Cleanup
  <1>20. ASSUME NEW p \in Proc, CloseTemporary(p) PROVE Result(q)'
    BY <1>20, <1>0 DEF CloseTemporary, Result, Unstarted, ResealStages,
      InjectStages, Binds, Carries, Reseals, Running, TypeOK, Goto, Closing, Cleanup,
      Ref
  <1>21. ASSUME NEW p \in Proc, CloseTmpdir(p) PROVE Result(q)'
    BY <1>21, <1>0 DEF CloseTmpdir, Result, Unstarted, ResealStages,
      InjectStages, Binds, Carries, Reseals, Running, TypeOK, Goto, Forget, storeVars
  <1>22. ASSUME NEW p \in Proc, ToolFails(p) PROVE Result(q)'
    BY <1>22, <1>0 DEF ToolFails, Result, Unstarted, ResealStages,
      InjectStages, Binds, Carries, Reseals, Running, TypeOK, Goto, Raise, storeVars,
      workVars
  <1>23. ASSUME NEW p \in Proc, Interrupt(p) PROVE Result(q)'
    BY <1>23, <1>0
    DEF Interrupt, Closing, Result, Unstarted, ResealStages, InjectStages,
      Binds, Carries, Reseals, Running, TypeOK, Goto, Raise, storeVars
  <1>24. ASSUME NEW p \in Proc, Kill(p) PROVE Result(q)'
    BY <1>24, <1>0 DEF Kill, Result, Unstarted, ResealStages, InjectStages,
      Binds, Carries, Reseals, Running, TypeOK, Goto, Forget, storeVars
  <1>25. ASSUME NEW n \in Name, NEW t \in Tree, Rebuild(n, t) PROVE Result(q)'
    BY <1>25, <1>0, BootcImageAssumption DEF Rebuild, Ref, Result, Unstarted,
      ResealStages, InjectStages, Binds, Carries, Reseals, Running, TypeOK, Goto,
      workVars
  <1>26. CASE UNCHANGED vars
    BY <1>26, <1>0 DEF vars, storeVars, workVars, Result, Unstarted,
      ResealStages, InjectStages, Binds, Carries, Reseals, Running, TypeOK, Goto
  <1> QED
    BY <1>1, <1>2, <1>3, <1>4, <1>5, <1>6, <1>7, <1>8, <1>9, <1>10, <1>11,
       <1>12, <1>13, <1>14, <1>15, <1>16, <1>17, <1>18, <1>19, <1>20, <1>21,
       <1>22, <1>23, <1>24, <1>25, <1>26
    DEF Next, Step

\* Whatever fails and whatever other processes do, the image that reseal or
\* inject-signed --reseal-with-key names is sealed, and reseal without --key
\* sealed it with the key it put into the initramfs, but for an aboot.img that it
\* took for absent.
THEOREM ResealIsBinding == Spec => []ResealBinds
  <1>1. TypeInv /\ ResultInv => ResealBinds
    BY DEF TypeInv, TypeOK, ResultInv, Result, ResealStages, Binds, Carries, ResealBinds
  <1> QED BY InitType, StepType, InitResult, StepResult, <1>1, PTL DEF Spec

\* inject-signed never names an image some listed file of which is unsigned.
THEOREM InjectCompletes == Spec => []InjectIsComplete
  <1>1. TypeInv /\ ResultInv => InjectIsComplete
    BY DEF TypeInv, TypeOK, ResultInv, Result, Unstarted, InjectStages,
      InjectIsComplete, Running
  <1> QED BY InitType, StepType, InitResult, StepResult, <1>1, PTL DEF Spec

-----------------------------------------------------------------------------
(* How a command ends.                                                     *)

\* Until it returns, a command without an error holds its result: under the
\* name the user gave, or under the random name on the way to the archive.
Stored(p) == IF job[p].oci THEN ref[p] # NoImage ELSE pub[p] # NoImage

\* inject-signed found nothing to sign, or its test for the list failed.
Excused(p) == /\ job[p].cmd = "inject-signed"
              /\ mnt[p].tree \in Unsignable \/ "misread" \in Fault

Ending(p) ==
  /\ pc[p] = "leavecontainer" /\ ~Untagged(job[p]) => Stored(p)
  /\ pc[p] \in {"leavesealing", "archive"} => Stored(p)
  /\ pc[p] = "archive" => job[p].oci
  /\ pc[p] = "return" /\ job[p].cmd # "extract-for-signing" =>
       pub[p] # NoImage
  /\ Running(p) /\ exc[p] = "none" => pc[p] # "unwinding"
  /\ Running(p) /\ exc[p] # "none" => pc[p] = "unwinding"
  /\ Running(p) /\ exc[p] = "exit0"
       /\ job[p].cmd # "extract-for-signing" => Excused(p)

EndInv == \A p \in Proc : Ending(p)

\* At first every process has ended.
LEMMA InitEnd == Init => EndInv
  BY DEF Init, EndInv, Ending, Excused, Running

\* Every step keeps the invariant.
LEMMA StepEnd == TypeInv /\ EndInv /\ [Next]_vars => EndInv'
  <1> SUFFICES ASSUME TypeInv, EndInv, [Next]_vars, NEW q \in Proc
               PROVE  Ending(q)'
    BY DEF EndInv
  <1>0. TypeInv /\ TypeOK /\ Ending(q)
    BY DEF EndInv, TypeInv
  <1>1. ASSUME NEW p \in Proc, NEW j \in Jobs, Start(p, j) PROVE Ending(q)'
    BY <1>1, <1>0 DEF Start, Enter, Ending, Excused, Stored, Running, TypeOK, Goto
  <1>2. ASSUME NEW p \in Proc, CheckSource(p) PROVE Ending(q)'
    BY <1>2, <1>0 DEF CheckSource, Ending, Excused, Stored, Running, TypeOK, Goto,
      Raise, At, AfterCheck, Enter, storeVars
  <1>3. ASSUME NEW p \in Proc, FindBuilder(p) PROVE Ending(q)'
    BY <1>3, <1>0 DEF FindBuilder, Ending, Excused, Stored, Running, TypeOK, Goto, At,
      storeVars, workVars
  <1>4. ASSUME NEW p \in Proc, ClearOut(p) PROVE Ending(q)'
    BY <1>4, <1>0 DEF ClearOut, Ending, Excused, Stored, Running, TypeOK, Goto, At,
      workVars
  <1>5. ASSUME NEW p \in Proc, MountImage(p) PROVE Ending(q)'
    BY <1>5, <1>0 DEF MountImage, Ending, Excused, Stored, Running, TypeOK, Goto, At,
      Raise, Enter, storeVars
  <1>6. ASSUME NEW p \in Proc, CopyOut(p) PROVE Ending(q)'
    BY <1>6, <1>0 DEF CopyOut, Ending, Excused, Stored, Running, TypeOK, Goto, At
  <1>7. ASSUME NEW p \in Proc, ExitNothingToSign(p) PROVE Ending(q)'
    BY <1>7, <1>0 DEF ExitNothingToSign, Ending, Excused, Stored, Running, TypeOK,
      Goto, At, Raise, TypeInv, Flow, Mounted, storeVars,
      workVars
  <1>8. ASSUME NEW p \in Proc, ReadInitrd(p) PROVE Ending(q)'
    BY <1>8, <1>0 DEF ReadInitrd, Ending, Excused, Stored, Running, TypeOK, Goto, At,
      storeVars
  <1>9. ASSUME NEW p \in Proc, AppendKey(p) PROVE Ending(q)'
    BY <1>9, <1>0 DEF AppendKey, Ending, Excused, Stored, Running, TypeOK, Goto, At,
      storeVars, workVars
  <1>10. ASSUME NEW p \in Proc, CreateContainer(p) PROVE Ending(q)'
    BY <1>10, <1>0 DEF CreateContainer, Ending, Excused, Stored, Running, TypeOK, Goto,
      At, Raise, Enter, storeVars
  <1>11. ASSUME NEW p \in Proc, ModifyInitrd(p) PROVE Ending(q)'
    BY <1>11, <1>0 DEF ModifyInitrd, Ending, Excused, Stored, Running, TypeOK, Goto,
      At, storeVars
  <1>12. ASSUME NEW p \in Proc, CopyIn(p) PROVE Ending(q)'
    BY <1>12, <1>0 DEF CopyIn, Ending, Excused, Stored, Running, TypeOK, Goto, At,
      Raise, storeVars
  <1>13. ASSUME NEW p \in Proc, CloseImage(p) PROVE Ending(q)'
    BY <1>13, <1>0 DEF CloseImage, Ending, Excused, Stored, Running, TypeOK, Goto,
      Closing, End, Manager, Leave, Continue, Raise, AfterImage, storeVars,
      workVars
  <1>14. ASSUME NEW p \in Proc, CommitContainer(p) PROVE Ending(q)'
    BY <1>14, <1>0, JobType DEF CommitContainer, Ending, Excused, Stored, Running,
      TypeOK, Goto, Closing, End, Manager, Leave, Continue, Raise, Store,
      Target, Commits, Ref, TypeInv, Mounted
  <1>15. ASSUME NEW p \in Proc, RemoveContainer(p) PROVE Ending(q)'
    <2>1. exc[p] = "none" => pc[p] = "leavecontainer"
      BY <1>15 DEF RemoveContainer, Closing, End, Manager
    <2>2. /\ AfterContainer(job[p]) \notin
                {"exited", "killed", "unwinding", "leavecontainer",
                 "leavesealing"}
          /\ AfterContainer(job[p]) = "archive" => job[p].oci
          /\ AfterContainer(job[p]) \in {"archive", "return"} =>
               ~Untagged(job[p])
          /\ AfterContainer(job[p]) = "return" /\ job[p].oci =>
               job[p].cmd = "prepare-reseal"
      BY <1>0, JobType DEF AfterContainer, Finish, Untagged, Command, TypeOK
    <2>3. job[p].cmd = "prepare-reseal" => ~job[p].oci
      BY <1>0, BootcImageAssumption DEF TypeOK
    <2> QED
      BY <1>15, <1>0, <2>1, <2>2, <2>3 DEF RemoveContainer, Closing, Leave,
        Continue, Raise, storeVars, workVars, Ending, Excused, Stored, Running, TypeOK,
        Goto
  <1>16. ASSUME NEW p \in Proc, ReadKeys(p) PROVE Ending(q)'
    BY <1>16, <1>0 DEF ReadKeys, Ending, Excused, Stored, Running, TypeOK, Goto, At,
      Enter, storeVars, workVars
  <1>17. ASSUME NEW p \in Proc, SealImage(p) PROVE Ending(q)'
    <2>1. SealSource(p) # NoImage => Sealed(SealSource(p), key[p]) # NoImage
      <3>1. SealSource(p) \in Image \cup {NoImage} /\ key[p] \in Key
        BY <1>17, <1>0, JobType DEF SealImage, At, TypeInv, KeyHeld, Flow,
          Untagged, SealSource, Ref, TypeOK
      <3> QED BY <3>1, SealedType, BootcImageAssumption
    <2>2. /\ Target(p) \in Ref
          /\ job[p].oci => Target(p) = p
          /\ Target(p) = q => p = q
      BY <1>0, JobType, BootcImageAssumption DEF Target, Ref, TypeOK
    <2>3. /\ AfterSeal(job[p]) \in {"leavesealing", "archive", "return"}
          /\ AfterSeal(job[p]) = "archive" => job[p].oci
          /\ AfterSeal(job[p]) = "return" => ~job[p].oci
      BY DEF AfterSeal, Finish
    <2>4. CASE SealSource(p) = NoImage
      BY <1>17, <1>0, <2>4 DEF SealImage, At, Raise, Ending, Excused, Stored, Running,
        TypeOK, Goto
    <2>5. CASE SealSource(p) # NoImage /\ p = q
      <3>1. /\ pc'[q] = AfterSeal(job[q])
            /\ IF job[q].oci THEN ref'[q] # NoImage ELSE pub'[q] # NoImage
            /\ pc[q] = "seal" /\ exc[q] = "none"
            /\ UNCHANGED <<job, exc, open>>
        BY <1>17, <1>0, <2>1, <2>2, <2>5 DEF SealImage, At, Store, Goto, TypeOK
      <3> QED BY <1>0, <2>3, <2>5, <3>1 DEF Ending, Excused, Stored, Running
    <2>6. CASE SealSource(p) # NoImage /\ p # q
      <3>1. /\ pc'[q] = pc[q] /\ ref'[q] = ref[q] /\ pub'[q] = pub[q]
            /\ UNCHANGED <<job, exc, open, mnt>>
        BY <1>17, <1>0, <2>2, <2>6 DEF SealImage, Store, Goto, Ref, TypeOK
      <3> QED BY <1>0, <3>1 DEF Ending, Excused, Stored, Running
    <2> QED BY <2>4, <2>5, <2>6
  <1>18. ASSUME NEW p \in Proc, StoreToArchive(p) PROVE Ending(q)'
    BY <1>18, <1>0 DEF StoreToArchive, Ending, Excused, Stored, Running, TypeOK, Goto,
      At
  <1>19. ASSUME NEW p \in Proc, CloseSealing(p) PROVE Ending(q)'
    BY <1>19, <1>0 DEF CloseSealing, Ending, Excused, Stored, Running, TypeOK, Goto,
      Closing, End, Manager, Leave, Continue, Finish, Cleanup
  <1>20. ASSUME NEW p \in Proc, CloseTemporary(p) PROVE Ending(q)'
    BY <1>20, <1>0 DEF CloseTemporary, Ending, Excused, Stored, Running, TypeOK, Goto,
      Closing, End, Manager, Leave, Cleanup, Ref
  <1>21. ASSUME NEW p \in Proc, CloseTmpdir(p) PROVE Ending(q)'
    <2>1. pc' = [pc EXCEPT ![p] = "exited"]
      BY <1>21 DEF CloseTmpdir, Goto
    <2>2. /\ q # p => /\ exc'[q] = exc[q] /\ mnt'[q] = mnt[q]
                      /\ pub'[q] = pub[q]
          /\ UNCHANGED <<ref, job>>
      BY <1>21, <1>0 DEF CloseTmpdir, Forget, storeVars, TypeOK
    <2> QED
      BY <1>0, <2>1, <2>2 DEF Ending, Excused, Stored, Running, TypeOK
  <1>22. ASSUME NEW p \in Proc, ToolFails(p) PROVE Ending(q)'
    BY <1>22, <1>0 DEF ToolFails, Ending, Excused, Stored, Running, TypeOK, Goto,
      Raise, storeVars, workVars
  <1>23. ASSUME NEW p \in Proc, Interrupt(p) PROVE Ending(q)'
    BY <1>23, <1>0 DEF Interrupt, Ending, Excused, Stored, Running, TypeOK, Goto,
      Closing, Leave, Raise, storeVars
  <1>24. ASSUME NEW p \in Proc, Kill(p) PROVE Ending(q)'
    BY <1>24, <1>0 DEF Kill, Ending, Excused, Stored, Running, TypeOK, Goto, Forget,
      storeVars
  <1>25. ASSUME NEW n \in Name, NEW t \in Tree, Rebuild(n, t) PROVE Ending(q)'
    BY <1>25, <1>0, BootcImageAssumption DEF Rebuild, Ref, Ending, Excused, Stored,
      Running, TypeOK, Goto, workVars
  <1>26. CASE UNCHANGED vars
    BY <1>26, <1>0 DEF vars, storeVars, workVars, Ending, Excused, Stored, Running,
      TypeOK, Goto
  <1> QED
    BY <1>1, <1>2, <1>3, <1>4, <1>5, <1>6, <1>7, <1>8, <1>9, <1>10, <1>11,
       <1>12, <1>13, <1>14, <1>15, <1>16, <1>17, <1>18, <1>19, <1>20, <1>21,
       <1>22, <1>23, <1>24, <1>25, <1>26
    DEF Next, Step

\* A process that was not killed ended by leaving main's outermost with-block.
LEMMA ExitIsClose ==
  ASSUME TypeInv, [Next]_vars, NEW p \in Proc, Running(p),
         pc'[p] = "exited"
  PROVE  CloseTmpdir(p)
  <1> USE DEF TypeInv, TypeOK, Running, Goto
  <1>1. ASSUME NEW r \in Proc, NEW j \in Jobs, Start(r, j) PROVE FALSE
    BY <1>1 DEF Start
  <1>2. ASSUME NEW r \in Proc,
               \/ CheckSource(r) \/ FindBuilder(r) \/ ClearOut(r)
               \/ MountImage(r) \/ CopyOut(r) \/ ExitNothingToSign(r)
               \/ ReadInitrd(r) \/ AppendKey(r) \/ CreateContainer(r)
               \/ ModifyInitrd(r) \/ CopyIn(r) \/ ReadKeys(r)
               \/ StoreToArchive(r)
        PROVE  FALSE
    BY <1>2 DEF CheckSource, FindBuilder, ClearOut, MountImage, CopyOut,
      ExitNothingToSign, ReadInitrd, AppendKey, CreateContainer, ModifyInitrd,
      CopyIn, ReadKeys, StoreToArchive, Raise, AfterCheck, storeVars
  <1>3. ASSUME NEW r \in Proc,
               CloseImage(r) \/ CommitContainer(r) \/ RemoveContainer(r)
        PROVE  FALSE
    BY <1>3 DEF CloseImage, CommitContainer, RemoveContainer, Continue, Raise,
      AfterImage, AfterContainer, Finish
  <1>4. ASSUME NEW r \in Proc,
               SealImage(r) \/ CloseSealing(r) \/ CloseTemporary(r)
        PROVE  FALSE
    BY <1>4 DEF SealImage, CloseSealing, CloseTemporary, Continue, Raise,
      AfterSeal, Finish
  <1>5. ASSUME NEW r \in Proc, ToolFails(r) \/ Interrupt(r) \/ Kill(r)
        PROVE  FALSE
    BY <1>5 DEF ToolFails, Interrupt, Kill, Raise
  <1>6. ASSUME NEW n \in Name, NEW t \in Tree, Rebuild(n, t) PROVE FALSE
    BY <1>6 DEF Rebuild
  <1>7. ASSUME UNCHANGED vars PROVE FALSE
    BY <1>7 DEF vars
  <1>8. ASSUME NEW r \in Proc, CloseTmpdir(r) PROVE r = p
    BY <1>8 DEF CloseTmpdir
  <1> QED
    BY <1>1, <1>2, <1>3, <1>4, <1>5, <1>6, <1>7, <1>8 DEF Next, Step

\* A command that ends with status 0 has stored its result, or is inject-signed
\* and found nothing to sign: no failure in between is swallowed, but one of the
\* test for the list of files to sign.
THEOREM SuccessIsResult == Spec => SuccessMeansResult
  <1>1. TypeInv /\ EndInv /\ [Next]_vars =>
          [\A p \in Proc :
             Succeeds(p) /\ job[p].cmd # "extract-for-signing" =>
               \/ pub[p] # NoImage
               \/ exc[p] = "exit0" /\ job[p].cmd = "inject-signed"
                    /\ (mnt[p].tree \in Unsignable \/ "misread" \in Fault)]_vars
    <2> SUFFICES ASSUME TypeInv, EndInv, [Next]_vars, NEW p \in Proc,
                        Succeeds(p), job[p].cmd # "extract-for-signing"
                 PROVE  \/ pub[p] # NoImage
                        \/ exc[p] = "exit0" /\ job[p].cmd = "inject-signed"
                             /\ (mnt[p].tree \in Unsignable
                                  \/ "misread" \in Fault)
      OBVIOUS
    <2>1. CloseTmpdir(p) /\ Running(p)
      BY ExitIsClose DEF Succeeds
    <2>2. exc[p] \in {"none", "exit0"} /\ Ending(p)
      BY <2>1 DEF CloseTmpdir, Succeeds, TypeInv, TypeOK, EndInv
    <2>3. exc[p] = "none" => pc[p] = "return"
      BY <2>1 DEF CloseTmpdir, Closing, End, Manager
    <2> QED BY <2>1, <2>2, <2>3 DEF Ending, Excused
  <1> QED BY InitType, StepType, InitEnd, StepEnd, <1>1, PTL
          DEF Spec, SuccessMeansResult
-----------------------------------------------------------------------------
(* SealWorkflow implements SealAtomic: for any processes, names and jobs,  *)
(* whatever fails or is killed when, the names users see only ever hold    *)
(* what an atomic command would have stored, provided that users keep a    *)
(* command's names to themselves while it runs, that no `cat' is cut short *)
(* and no `test' fails.  With it: what the commands leave behind, and in   *)
(* directories.                                                            *)

\* Users keep to names of their own: nothing in the code makes them.
OwnNames == "retag" \notin Fault

\* That, and `cat' and `test' in an image work, which the code does not look at.
Undisturbed == Fault \cap {"retag", "stream", "misread"} = {}

-----------------------------------------------------------------------------
(* The invariant.                                                          *)

\* Commands that run side by side keep to their own names.
Together ==
  \A p, q \in Proc : p # q /\ Running(p) /\ Running(q) => Apart(job[p], job[q])

\* The image the command makes its result from, and what it makes of it before
\* it is sealed.
Source(p) == ref[job[p].src]

Changed(p) ==
  IF job[p].cmd = "inject-signed"
    THEN [Source(p) EXCEPT !.seal = Broken, !.files = SignedFile]
    ELSE Rekeyed(Source(p), key[p])

\* What podman_bootc_inject_pubkey read is of the source.
Read(p) == /\ initrd[p] = Source(p).initrd
           /\ aboot[p] <=> Source(p).tree \in Aboot

\* An image in the middle of inject-signed, when the files of T are left.
Signed(img, T) ==
  [img EXCEPT !.seal = IF T = SignedFile THEN @ ELSE Broken,
              !.files = @ \cup (SignedFile \ T)]

\* What a command has in hands, while it has not stored its result, was made of
\* the image its source names now.
Made(p) ==
  /\ pc[p] \notin {"check", "unwinding"} =>
       /\ Source(p) # NoImage
       /\ job[p].key # NoKey => key[p] = job[p].key
  /\ pc[p] \in {"extract", "readinitrd"} => mnt[p] = Source(p)
  /\ pc[p] \in {"leaveimage", "append", "create"}
       /\ job[p].cmd \in {"prepare-reseal", "reseal"} => Read(p)
  /\ pc[p] = "modify" =>
       IF job[p].cmd = "inject-signed"
         THEN mnt[p] = Signed(Source(p), todo[p])
         ELSE mnt[p] = Source(p) /\ Read(p)
  /\ pc[p] = "leavemount" => mnt[p] = Changed(p)
  /\ anon[p] # NoImage => anon[p] = Changed(p)
  /\ ref[p] # NoImage => ref[p] \in Outcome(job[p], Source(p))

\* After a command stored its result nothing but its end is left.
Published(p) ==
  /\ pc[p] \in {"leavecontainer", "leavesealing", "return", "unwinding"}
  /\ pc[p] = "leavecontainer" => ~Untagged(job[p]) /\ ~job[p].oci
  /\ pc[p] = "leavesealing" => ~job[p].oci

Stage(p) ==
  Running(p) => IF pub[p] = NoImage THEN Made(p) ELSE Published(p)

\* What extract-for-signing has in its directory, which no other command
\* touches: nothing before it copies, then the files it is past.
Extracted(p) ==
  /\ pc[p] = "clear" => job[p].cmd = "extract-for-signing"
  /\ Running(p) /\ job[p].cmd = "extract-for-signing" =>
       /\ pc[p] # "archive"
       /\ pc[p] = "mount" => \A f \in SignedFile : dir[job[p].dir][f] = NoFile
       /\ pc[p] = "extract" =>
            /\ \A f \in todo[p] : dir[job[p].dir][f] = NoFile
            /\ \A f \in SignedFile \ todo[p] :
                 dir[job[p].dir][f] \in {mnt[p].tree, Torn}
            /\ mnt[p].tree \in Unsignable => todo[p] = SignedFile
       /\ pc[p] \in {"leaveimage", "return"} =>
            \A f \in SignedFile : dir[job[p].dir][f] \in {mnt[p].tree, Torn}
       /\ exc[p] = "exit0" => \A f \in SignedFile : dir[job[p].dir][f] = NoFile

DirInv == Together /\ \A p \in Proc : Extracted(p)

SourceInv == DirInv /\ \A p \in Proc : Stage(p)

\* A temporary image has an owner while its command runs.
Owned(p) ==
  /\ Running(p) =>
       /\ job[p].oci /\ pc[p] \notin {"check", "return", "unwinding"} =>
            "temp" \in open[p]
       /\ ref[p] # NoImage => job[p].oci
       /\ ref[p] # NoImage /\ excuse[p] = "none" => "temp" \in open[p]
       /\ anon[p] # NoImage => Untagged(job[p])
       /\ job[p].cmd = "inject-signed" /\ anon[p] # NoImage /\ excuse[p] = "none"
            /\ exc[p] = "none" =>
            pc[p] \in {"leavecontainer", "readkeys"} \/ "sealing" \in open[p]
  /\ pc[p] = "exited" /\ excuse[p] = "none" =>
       /\ ref[p] = NoImage
       /\ job[p].cmd = "inject-signed" /\ exc[p] = "none" => anon[p] = NoImage

OwnedInv == \A p \in Proc : Owned(p)

-----------------------------------------------------------------------------
(* Who changes what.                                                       *)

\* What a process alone changes.
Same(q) ==
  /\ pc'[q] = pc[q] /\ job'[q] = job[q] /\ exc'[q] = exc[q] /\ open'[q] = open[q]
  /\ mnt'[q] = mnt[q] /\ todo'[q] = todo[q] /\ initrd'[q] = initrd[q]
  /\ aboot'[q] = aboot[q]
  /\ key'[q] = key[q] /\ excuse'[q] = excuse[q] /\ pub'[q] = pub[q]
  /\ anon'[q] = anon[q] /\ ref'[q] = ref[q]

\* A step of one process: of its command, its start, or its death.
ActsOn(p) ==
  Step(p) \/ (\E j \in Jobs : Start(p, j)) \/ ToolFails(p) \/ Interrupt(p) \/ Kill(p)

\* An image is stored under the name a user gave, or one's own.
LEMMA StoreFrame ==
  ASSUME TypeInv, NEW p \in Proc, NEW img, Store(p, img)
  PROVE  /\ \A q \in Proc \ {p} : ref'[q] = ref[q] /\ pub'[q] = pub[q]
         /\ job[p].oci => /\ \A n \in Name : ref'[n] = ref[n]
                          /\ ref'[p] = img /\ pub'[p] = pub[p]
         /\ ~job[p].oci => /\ \A n \in Name \ {job[p].dst} : ref'[n] = ref[n]
                           /\ ref'[job[p].dst] = img /\ pub'[p] = img
                           /\ ref'[p] = ref[p]
<1>1. job[p].dst \in Name /\ job[p].oci \in BOOLEAN
  BY JobType DEF TypeInv, TypeOK
<1>2. Name \cap Proc = {}
  BY BootcImageAssumption
<1>3. ref' = [ref EXCEPT ![Target(p)] = img] /\ ref \in [Ref -> Image \cup {NoImage}]
  BY DEF Store, TypeInv, TypeOK
<1>4. pub' = [pub EXCEPT ![p] = IF job[p].oci THEN @ ELSE img] /\ DOMAIN pub = Proc
  BY DEF Store, TypeInv, TypeOK
<1>5. CASE job[p].oci
  BY <1>2, <1>3, <1>4, <1>5 DEF Target, Ref
<1>6. CASE ~job[p].oci
  BY <1>1, <1>2, <1>3, <1>4, <1>6 DEF Target, Ref
<1> QED
  BY <1>1, <1>5, <1>6

LEMMA OthersSame ==
  ASSUME TypeInv, NEW p \in Proc, ActsOn(p), NEW q \in Proc \ {p}
  PROVE  Same(q)
<1> USE DEF Same, TypeInv, TypeOK, Goto, Raise, Enter, Leave, Ref
<1>1. ASSUME NEW j \in Jobs, Start(p, j) PROVE Same(q)
  BY <1>1 DEF Start
<1>2. CASE CheckSource(p)
  BY <1>2 DEF CheckSource, storeVars
<1>3. CASE FindBuilder(p) \/ ClearOut(p) \/ AppendKey(p) \/ ReadInitrd(p)
  BY <1>3 DEF FindBuilder, ClearOut, AppendKey, ReadInitrd, storeVars, workVars
<1>4. CASE MountImage(p)
  BY <1>4 DEF MountImage, storeVars
<1>5. CASE CopyOut(p) \/ ExitNothingToSign(p)
  BY <1>5 DEF CopyOut, ExitNothingToSign, storeVars, workVars
<1>6. CASE CreateContainer(p)
  BY <1>6 DEF CreateContainer, storeVars
<1>7. CASE ModifyInitrd(p) \/ CopyIn(p)
  BY <1>7 DEF ModifyInitrd, CopyIn, storeVars
<1>8. CASE CloseImage(p) \/ RemoveContainer(p) \/ ReadKeys(p)
  BY <1>8 DEF CloseImage, RemoveContainer, ReadKeys, Continue, storeVars, workVars
<1>9. CASE CommitContainer(p)
  <2>1. \/ UNCHANGED <<ref, pub>>
        \/ ref'[q] = ref[q] /\ pub'[q] = pub[q]
    BY <1>9, StoreFrame DEF CommitContainer
  <2>2. anon'[q] = anon[q] /\ pc'[q] = pc[q] /\ exc'[q] = exc[q] /\ open'[q] = open[q]
    BY <1>9 DEF CommitContainer, Continue
  <2>3. UNCHANGED <<job, mnt, todo, initrd, aboot, key, excuse>>
    BY <1>9 DEF CommitContainer
  <2> QED
    BY <2>1, <2>2, <2>3
<1>10. CASE SealImage(p)
  <2>1. \/ UNCHANGED <<ref, pub>>
        \/ ref'[q] = ref[q] /\ pub'[q] = pub[q]
    BY <1>10, StoreFrame DEF SealImage
  <2>2. /\ pc'[q] = pc[q] /\ exc'[q] = exc[q]
        /\ UNCHANGED <<anon, job, open, mnt, todo, initrd, aboot, key, excuse>>
    BY <1>10 DEF SealImage
  <2> QED
    BY <2>1, <2>2
<1>11. CASE StoreToArchive(p) \/ CloseSealing(p)
  BY <1>11 DEF StoreToArchive, CloseSealing, Cleanup, Continue
<1>12. CASE CloseTemporary(p)
  BY <1>12 DEF CloseTemporary, Cleanup
<1>13. CASE CloseTmpdir(p) \/ Kill(p) \/ ToolFails(p)
  BY <1>13 DEF CloseTmpdir, Kill, ToolFails, Forget, storeVars, workVars
<1>14. CASE Interrupt(p)
  BY <1>14 DEF Interrupt, storeVars
<1> QED
  BY <1>1, <1>2, <1>3, <1>4, <1>5, <1>6, <1>7, <1>8, <1>9, <1>10, <1>11, <1>12,
    <1>13, <1>14 DEF ActsOn, Step

\* A step of the system is a step of one process, another build, or no step.
LEMMA WhoSteps ==
  ASSUME [Next]_vars
  PROVE  \/ \E p \in Proc : ActsOn(p)
         \/ \E n \in Name, t \in Tree : Rebuild(n, t)
         \/ UNCHANGED vars
BY DEF Next, ActsOn

\* A process keeps its command until it ends.
LEMMA JobKept ==
  ASSUME TypeInv, [Next]_vars, NEW p \in Proc, Running(p)
  PROVE  job'[p] = job[p]
<1> USE DEF TypeInv, TypeOK
<1>1. ASSUME NEW q \in Proc, ActsOn(q) PROVE job'[p] = job[p]
  <2>1. CASE q # p
    BY <1>1, <2>1, OthersSame DEF Same
  <2>2. CASE q = p
    BY <1>1, <2>2 DEF ActsOn, Start, Step, CheckSource, FindBuilder, ClearOut,
      MountImage, CopyOut, ExitNothingToSign, ReadInitrd, AppendKey,
      CreateContainer, ModifyInitrd, CopyIn, CloseImage, CommitContainer,
      RemoveContainer, ReadKeys, SealImage, StoreToArchive, CloseSealing,
      CloseTemporary, CloseTmpdir, ToolFails, Interrupt, Kill
  <2> QED
    BY <2>1, <2>2
<1>2. CASE \E n \in Name, t \in Tree : Rebuild(n, t)
  BY <1>2 DEF Rebuild
<1>3. CASE UNCHANGED vars
  BY <1>3 DEF vars
<1> QED
  BY <1>1, <1>2, <1>3, WhoSteps

\* Only Start makes a process run.
LEMMA StartRuns ==
  ASSUME TypeInv, [Next]_vars, NEW p \in Proc, ~Running(p), Running(p)'
  PROVE  \E j \in Jobs : Start(p, j)
<1> USE DEF TypeInv, TypeOK, Running
<1>1. ASSUME NEW q \in Proc, ActsOn(q) PROVE \E j \in Jobs : Start(p, j)
  <2>1. CASE q # p
    BY <1>1, <2>1, OthersSame DEF Same
  <2>2. CASE q = p
    BY <1>1, <2>2 DEF ActsOn, Step, At, Closing, CheckSource, FindBuilder,
      ClearOut, MountImage, CopyOut, ExitNothingToSign, ReadInitrd, AppendKey,
      CreateContainer, ModifyInitrd, CopyIn, CloseImage, CommitContainer,
      RemoveContainer, ReadKeys, SealImage, StoreToArchive, CloseSealing,
      CloseTemporary, CloseTmpdir, ToolFails, Interrupt, Kill
  <2> QED
    BY <2>1, <2>2
<1>2. CASE \E n \in Name, t \in Tree : Rebuild(n, t)
  BY <1>2 DEF Rebuild
<1>3. CASE UNCHANGED vars
  BY <1>3 DEF vars
<1> QED
  BY <1>1, <1>2, <1>3, WhoSteps

\* Users start only what keeps apart from what runs.
LEMMA StepTogether ==
  ASSUME TypeInv, OwnNames, Together, [Next]_vars
  PROVE  Together'
<1>1. SUFFICES ASSUME NEW p \in Proc, NEW q \in Proc, p # q, Running(p)', Running(q)'
               PROVE  Apart(job[p], job[q])'
  BY DEF Together
<1>2. CASE Running(p) /\ Running(q)
  BY <1>1, <1>2, JobKept DEF Together, Apart, Reads, Writes
<1>3. ASSUME NEW a \in Proc, NEW b \in Proc, a # b, NEW j \in Jobs, Start(a, j),
             Running(b)'
      PROVE  job'[a] = j /\ job'[b] = job[b] /\ Apart(j, job[b])
  <2>1. Same(b)
    BY <1>3, OthersSame DEF ActsOn
  <2>2. Running(b)
    BY <1>3, <2>1 DEF Running, Same
  <2> QED
    BY <1>3, <2>1, <2>2 DEF Start, MayStart, OwnNames, Same, TypeInv, TypeOK
<1>4. CASE ~Running(p)
  BY <1>1, <1>3, <1>4, StartRuns DEF Apart, Reads, Writes
<1>5. CASE ~Running(q)
  <2>1. Apart(job[q], job[p])'
    BY <1>1, <1>3, <1>5, StartRuns DEF Apart, Reads, Writes
  <2> QED
    BY <2>1 DEF Apart
<1> QED
  BY <1>2, <1>4, <1>5

\* A name changes when a command stores its result there, or by another build.
LEMMA NameStep ==
  ASSUME TypeInv, [Next]_vars, NEW n \in Name, ref'[n] # ref[n]
  PROVE  \/ \E t \in Tree : Rebuild(n, t)
         \/ \E p \in Proc :
              /\ CommitContainer(p) \/ SealImage(p)
              /\ ~job[p].oci /\ n = job[p].dst
              /\ job[p].cmd # "extract-for-signing"
              /\ pub'[p] = ref'[n] /\ ref'[n] # NoImage
<1> USE DEF TypeInv, TypeOK
<1>1. ASSUME NEW p \in Proc, ActsOn(p)
      PROVE  /\ CommitContainer(p) \/ SealImage(p)
             /\ ~job[p].oci /\ n = job[p].dst
             /\ job[p].cmd # "extract-for-signing"
             /\ pub'[p] = ref'[n] /\ ref'[n] # NoImage
  <2>1. CASE CommitContainer(p)
    <3>1. Store(p, mnt[p]) /\ exc[p] = "none"
      BY <1>1, <2>1 DEF CommitContainer, Commits
    <3>2. pc[p] = "leavemount"
      BY <2>1, <3>1 DEF CommitContainer, Closing, End, Manager
    <3>3. mnt[p] # NoImage /\ job[p].cmd # "extract-for-signing"
      BY <3>2 DEF Mounted, Flow
    <3>4. job[p].oci \in BOOLEAN
      BY JobType
    <3> QED
      BY <2>1, <3>1, <3>3, <3>4, StoreFrame
  <2>2. CASE SealImage(p)
    <3>1. SealSource(p) # NoImage /\ Store(p, Sealed(SealSource(p), key[p]))
      BY <1>1, <2>2 DEF SealImage
    <3>2. SealSource(p) \in Image \cup {NoImage} /\ key[p] \in Key
      BY <2>2, JobType DEF SealImage, At, KeyHeld, Flow, Untagged, SealSource, Ref
    <3>3. Sealed(SealSource(p), key[p]) # NoImage
      BY <3>1, <3>2, SealedType, BootcImageAssumption
    <3>4. job[p].cmd # "extract-for-signing"
      BY <2>2 DEF SealImage, At, Flow, Untagged
    <3>5. job[p].oci \in BOOLEAN
      BY JobType
    <3> QED
      BY <2>2, <3>1, <3>3, <3>4, <3>5, StoreFrame
  <2>3. CASE CloseTemporary(p) \/ \E j \in Jobs : Start(p, j)
    BY <1>1, <2>3, BootcImageAssumption DEF CloseTemporary, Start, Ref
  <2> QED
    BY <1>1, <2>1, <2>2, <2>3 DEF ActsOn, Step, CheckSource, FindBuilder, ClearOut,
      MountImage, CopyOut, ExitNothingToSign, ReadInitrd, AppendKey,
      CreateContainer, ModifyInitrd, CopyIn, CloseImage,
      RemoveContainer, ReadKeys, StoreToArchive, CloseSealing,
      CloseTmpdir, ToolFails, Interrupt, Kill, storeVars
<1>2. ASSUME NEW m \in Name, NEW t \in Tree, Rebuild(m, t)
      PROVE  m = n
  BY <1>2 DEF Rebuild, Ref
<1>3. CASE UNCHANGED vars
  BY <1>3 DEF vars, storeVars
<1> QED
  BY <1>1, <1>2, <1>3, WhoSteps

\* The name a command reads keeps its image until the command itself stores
\* its result.
LEMMA SourceStays ==
  ASSUME TypeInv, Undisturbed, Together, [Next]_vars, NEW q \in Proc, Running(q),
         pub'[q] = NoImage
  PROVE  ref'[job[q].src] = ref[job[q].src]
<1>1. job[q].src \in Name /\ job[q].src \in Reads(job[q])
  BY JobType DEF Reads, TypeInv, TypeOK
<1>2. SUFFICES ASSUME ref'[job[q].src] # ref[job[q].src] PROVE FALSE
  OBVIOUS
<1>3. ASSUME NEW t \in Tree, Rebuild(job[q].src, t) PROVE FALSE
  BY <1>1, <1>3 DEF Rebuild, Undisturbed
<1>4. ASSUME NEW p \in Proc, CommitContainer(p) \/ SealImage(p), ~job[p].oci,
             job[q].src = job[p].dst, job[p].cmd # "extract-for-signing",
             pub'[p] # NoImage
      PROVE  FALSE
  <2>1. p # q
    BY <1>4
  <2>2. Running(p)
    BY <1>4 DEF CommitContainer, SealImage, Closing, At, Running
  <2>3. Apart(job[q], job[p])
    BY <2>1, <2>2 DEF Together
  <2> QED
    BY <1>1, <1>4, <2>3 DEF Apart, Writes
<1> QED
  BY <1>1, <1>2, <1>3, <1>4, NameStep

-----------------------------------------------------------------------------
(* The stages of a command.                                                *)

\* Once its result is stored a command only closes what it opened.
LEMMA PublishedStep ==
  ASSUME TypeInv, EndInv, [Next]_vars, NEW q \in Proc, Running(q), Running(q)',
         pub[q] # NoImage, Published(q)
  PROVE  pub'[q] = pub[q] /\ Published(q)'
<1> USE DEF TypeInv, TypeOK
<1>1. /\ job'[q] = job[q]
      /\ exc[q] = "none" <=> pc[q] # "unwinding"
  BY JobKept DEF EndInv, Ending
<1>2. /\ Untagged(job[q])' = Untagged(job[q])
      /\ pc[q] \in {"leavecontainer", "leavesealing", "return", "unwinding"}
      /\ pc[q] = "leavecontainer" => ~Untagged(job[q]) /\ ~job[q].oci
      /\ pc[q] = "leavesealing" => ~job[q].oci
  BY <1>1 DEF Published, Untagged
<1>3. SUFFICES pub'[q] = pub[q]
               /\ \/ pc'[q] \in {pc[q], "return", "unwinding"}
  BY <1>1, <1>2 DEF Published
<1>4. ASSUME NEW p \in Proc \ {q}, ActsOn(p)
      PROVE  pub'[q] = pub[q] /\ pc'[q] = pc[q]
  BY <1>4, OthersSame DEF Same
<1>5. CASE \/ CheckSource(q) \/ FindBuilder(q) \/ ClearOut(q) \/ MountImage(q)
           \/ CopyOut(q) \/ ExitNothingToSign(q) \/ ReadInitrd(q) \/ AppendKey(q)
           \/ CreateContainer(q) \/ ModifyInitrd(q) \/ CopyIn(q) \/ ReadKeys(q)
           \/ SealImage(q) \/ StoreToArchive(q) \/ CloseTmpdir(q) \/ Kill(q)
           \/ \E j \in Jobs : Start(q, j)
  BY <1>2, <1>5 DEF CheckSource, FindBuilder, ClearOut, MountImage, CopyOut,
    ExitNothingToSign, ReadInitrd, AppendKey, CreateContainer, ModifyInitrd, CopyIn,
    ReadKeys, SealImage, StoreToArchive, At, CloseTmpdir, Kill, Goto, Running, Start
<1>6. CASE CloseImage(q)
  BY <1>1, <1>2, <1>6 DEF CloseImage, Closing, End, Manager, Continue, Goto, Raise,
    workVars
<1>7. CASE CommitContainer(q)
  BY <1>1, <1>2, <1>7 DEF CommitContainer, Commits, Closing, End, Manager
<1>8. CASE RemoveContainer(q)
  <2>1. exc[q] = "none" => AfterContainer(job[q]) = "return"
    BY <1>1, <1>2, <1>8, JobType DEF RemoveContainer, Closing, End, Manager,
      AfterContainer, Untagged, Finish, Command, Flow
  <2> QED
    BY <1>1, <1>8, <2>1 DEF RemoveContainer, Continue, Goto, Raise, workVars
<1>9. CASE CloseSealing(q)
  <2>1. exc[q] = "none" => Finish(job[q]) = "return"
    BY <1>1, <1>2, <1>9 DEF CloseSealing, Closing, End, Manager, Finish
  <2> QED
    BY <1>1, <1>9, <2>1 DEF CloseSealing, Continue, Goto
<1>10. CASE CloseTemporary(q)
  BY <1>10 DEF CloseTemporary
<1>11. CASE ToolFails(q) \/ Interrupt(q)
  BY <1>11 DEF ToolFails, Interrupt, Raise, Goto, workVars
<1>12. CASE \E n \in Name, t \in Tree : Rebuild(n, t)
  BY <1>12 DEF Rebuild, workVars
<1>13. CASE UNCHANGED vars
  BY <1>13 DEF vars, workVars
<1> QED
  BY <1>4, <1>5, <1>6, <1>7, <1>8, <1>9, <1>10, <1>11, <1>12, <1>13, WhoSteps
    DEF ActsOn, Step

\* Signing an image is the last change of its seal.
LEMMA SealedSigned ==
  ASSUME NEW img \in Image, NEW k \in Key
  PROVE  Sealed([img EXCEPT !.seal = Broken, !.files = SignedFile], k)
           = [img EXCEPT !.seal = k, !.files = SignedFile]
<1>1. PICK t, i, y, s, f :
        img = [tree |-> t, initrd |-> i, key |-> y, seal |-> s, files |-> f]
  BY DEF Image
<1> QED
  BY <1>1 DEF Sealed

\* What the images made from the source promise.
LEMMA ChangedOutcome ==
  ASSUME TypeInv, NEW p \in Proc, Source(p) # NoImage, key[p] \in Key \cup {NoKey},
         job[p].key # NoKey => key[p] = job[p].key,
         job[p].cmd # "extract-for-signing"
  PROVE  /\ ~Untagged(job[p]) => Changed(p) \in Outcome(job[p], Source(p))
         /\ Untagged(job[p]) /\ ~(job[p].cmd = "reseal" /\ job[p].key # NoKey)
              /\ key[p] # NoKey =>
              Sealed(Changed(p), key[p]) \in Outcome(job[p], Source(p))
         /\ job[p].cmd = "reseal" /\ job[p].key # NoKey =>
              Sealed(Source(p), key[p]) \in Outcome(job[p], Source(p))
<1>1. /\ job[p] \in Jobs /\ job[p].cmd \in Command
      /\ job[p].cmd = "prepare-reseal" => job[p].key # NoKey
      /\ Source(p) \in Image
  BY JobType DEF TypeInv, TypeOK, Source, Ref
<1>2. CASE job[p].cmd = "prepare-reseal"
  BY <1>1, <1>2 DEF Outcome, Changed, Untagged
<1>3. CASE job[p].cmd = "inject-signed" /\ job[p].key = NoKey
  BY <1>1, <1>3 DEF Outcome, Changed, Untagged
<1>4. CASE job[p].cmd = "inject-signed" /\ job[p].key # NoKey
  <2>1. Outcome(job[p], Source(p)) =
          {[Source(p) EXCEPT !.seal = job[p].key, !.files = SignedFile]}
    BY <1>4 DEF Outcome
  <2>2. Sealed(Changed(p), key[p]) =
          [Source(p) EXCEPT !.seal = job[p].key, !.files = SignedFile]
    BY <1>1, <1>4, SealedSigned DEF Changed
  <2> QED
    BY <1>4, <2>1, <2>2 DEF Untagged
<1>5. CASE job[p].cmd = "reseal" /\ job[p].key # NoKey
  BY <1>1, <1>5 DEF Outcome, Untagged
<1>6. CASE job[p].cmd = "reseal" /\ job[p].key = NoKey
  <2>1. Outcome(job[p], Source(p)) =
          {Sealed(Rekeyed(Source(p), k), k) : k \in Key}
    BY <1>6 DEF Outcome
  <2> QED
    BY <1>6, <2>1 DEF Changed, Untagged
<1> QED
  BY <1>1, <1>2, <1>3, <1>4, <1>5, <1>6 DEF Command

\* Images with the same parts are the same.
LEMMA ImageParts ==
  ASSUME NEW a \in Image, NEW b \in Image, a.tree = b.tree, a.initrd = b.initrd,
         a.key = b.key, a.seal = b.seal, a.files = b.files
  PROVE  a = b
BY DEF Image

\* Copying the next signed file in, from the image itself to the signed one.
LEMMA SignedNext ==
  ASSUME NEW img \in Image, NEW T \in SUBSET SignedFile, NEW f \in T
  PROVE  WithFile(Signed(img, T), f) = Signed(img, T \ {f})
<1>1. PICK s \in Key \cup {Broken} : s = IF T = SignedFile THEN img.seal ELSE Broken
  BY DEF Image
<1>2. PICK R \in SUBSET SignedFile : R = img.files \cup (SignedFile \ T)
  BY DEF Image
<1>3. PICK part : part = [img EXCEPT !.seal = s, !.files = R]
  OBVIOUS
<1>4. /\ part \in Image /\ part.files = R
      /\ part.tree = img.tree /\ part.initrd = img.initrd /\ part.key = img.key
  BY <1>3 DEF Image
<1>5. R \cup {f} \in SUBSET SignedFile
  OBVIOUS
<1>6. [part EXCEPT !.seal = Broken, !.files = R \cup {f}]
        = [img EXCEPT !.seal = Broken, !.files = R \cup {f}]
  <2>1. PICK a, b : /\ a = [part EXCEPT !.seal = Broken, !.files = R \cup {f}]
                    /\ b = [img EXCEPT !.seal = Broken, !.files = R \cup {f}]
    OBVIOUS
  <2>2. /\ a \in Image /\ a.tree = part.tree /\ a.initrd = part.initrd
        /\ a.key = part.key /\ a.seal = Broken /\ a.files = R \cup {f}
    BY <1>4, <1>5, <2>1 DEF Image
  <2>3. /\ b \in Image /\ b.tree = img.tree /\ b.initrd = img.initrd
        /\ b.key = img.key /\ b.seal = Broken /\ b.files = R \cup {f}
    BY <1>5, <2>1 DEF Image
  <2> QED
    BY <1>4, <2>1, <2>2, <2>3, ImageParts
<1>7. Signed(img, T) = part
  BY <1>1, <1>2, <1>3 DEF Signed
<1>8. WithFile(part, f) = [part EXCEPT !.seal = Broken, !.files = R \cup {f}]
  BY <1>4 DEF WithFile
<1>9. Signed(img, T \ {f}) = [img EXCEPT !.seal = Broken, !.files = R \cup {f}]
  <2>1. T \ {f} # SignedFile /\ R \cup {f} = img.files \cup (SignedFile \ (T \ {f}))
    BY <1>2
  <2> QED
    BY <2>1 DEF Signed
<1> QED
  BY <1>6, <1>7, <1>8, <1>9

LEMMA SignedEnds ==
  ASSUME NEW img \in Image
  PROVE  /\ Signed(img, SignedFile) = img
         /\ Signed(img, {}) = [img EXCEPT !.seal = Broken, !.files = SignedFile]
<1>1. img.files \subseteq SignedFile
  BY DEF Image
<1>2. Signed(img, SignedFile) = img
  <2>1. img.files \cup (SignedFile \ SignedFile) = img.files
    OBVIOUS
  <2>2. Signed(img, SignedFile) = [img EXCEPT !.seal = img.seal, !.files = img.files]
    BY <2>1 DEF Signed
  <2>3. PICK new : new = [img EXCEPT !.seal = img.seal, !.files = img.files]
    OBVIOUS
  <2>4. new = img
    BY <2>3 DEF Image
  <2> QED
    BY <2>2, <2>3, <2>4
<1>3. Signed(img, {}) = [img EXCEPT !.seal = Broken, !.files = SignedFile]
  <2>1. img.files \cup (SignedFile \ {}) = SignedFile /\ {} # SignedFile
    BY <1>1, BootcImageAssumption
  <2> QED
    BY <2>1 DEF Signed
<1> QED
  BY <1>2, <1>3

\* Up to its result a command works on the image its source names.
LEMMA MadeStep ==
  ASSUME TypeInv, ResultInv, EndInv, Undisturbed, Together, [Next]_vars,
         NEW q \in Proc, Running(q), Running(q)', Made(q),
         pub[q] = NoImage, pub'[q] = NoImage
  PROVE  Made(q)'
<1> USE DEF TypeInv, TypeOK, Goto, Raise
<1>1. /\ job'[q] = job[q] /\ job[q] \in Jobs
      /\ exc[q] = "none" <=> pc[q] # "unwinding"
  BY JobKept DEF EndInv, Ending
<1>2. Source(q)' = Source(q) /\ Source(q) \in Image \cup {NoImage}
  BY <1>1, SourceStays, JobType DEF Source, Ref
<1>3. key'[q] = key[q] => Changed(q)' = Changed(q)
  BY <1>1, <1>2 DEF Changed
<1>4. /\ pc[q] \notin {"check", "unwinding"} =>
           /\ Source(q) # NoImage
           /\ job[q].key # NoKey => key[q] = job[q].key
      /\ anon[q] # NoImage => anon[q] = Changed(q)
      /\ ref[q] # NoImage => ref[q] \in Outcome(job[q], Source(q))
  BY DEF Made
<1>5. Outcome(job[q], Source(q))' = Outcome(job[q], Source(q))
  BY <1>1, <1>2 DEF Outcome
\* A step that only moves on, drops a temporary image, or fails.
<1>6. ASSUME key'[q] = key[q], anon'[q] \in {anon[q], NoImage},
             ref'[q] \in {ref[q], NoImage},
             pc'[q] \notin {"extract", "readinitrd", "leaveimage", "append", "create",
                            "modify", "leavemount"},
             pc'[q] \in {"check", "unwinding"} \/ pc[q] \notin {"check", "unwinding"}
      PROVE  Made(q)'
  BY <1>1, <1>2, <1>3, <1>4, <1>5, <1>6 DEF Made
<1>7. ASSUME Same(q) PROVE Made(q)'
  <2>1. Read(q)' <=> Read(q)
    BY <1>2, <1>7 DEF Read, Same
  <2> QED
    BY <1>1, <1>2, <1>3, <1>5, <1>7, <2>1 DEF Made, Same
<1>8. ASSUME NEW p \in Proc, ActsOn(p), p # q PROVE Made(q)'
  BY <1>7, <1>8, OthersSame
<1>9. CASE (\E n \in Name, t \in Tree : Rebuild(n, t)) \/ UNCHANGED vars
  BY <1>7, <1>9, BootcImageAssumption DEF Rebuild, vars, storeVars, workVars, Same, Ref
<1>10. CASE CheckSource(q)
  <2>1. pc[q] = "check" /\ anon[q] = NoImage /\ ref[q] = NoImage
        /\ UNCHANGED <<ref, anon>>
    BY <1>10 DEF CheckSource, At, ResultInv, Result, Unstarted, storeVars
  <2>2. \/ pc'[q] = "unwinding"
        \/ /\ Source(q) # NoImage /\ pc'[q] = AfterCheck(job[q])
           /\ job[q].key # NoKey => key'[q] = job[q].key
    BY <1>10 DEF CheckSource, Source
  <2>3. /\ AfterCheck(job[q]) \in {"clear", "create", "seal", "builder"}
        /\ AfterCheck(job[q]) = "create" => job[q].cmd = "inject-signed"
    BY DEF AfterCheck
  <2> QED
    BY <1>1, <1>2, <2>1, <2>2, <2>3 DEF Made
<1>11. CASE FindBuilder(q) \/ ClearOut(q)
  BY <1>6, <1>11 DEF FindBuilder, ClearOut, At, storeVars, workVars
<1>12. CASE MountImage(q)
  <2>1. \/ pc'[q] = "unwinding"
        \/ mnt'[q] = Source(q) /\ pc'[q] \in {"extract", "readinitrd"}
    BY <1>12 DEF MountImage, Source
  <2>2. UNCHANGED <<ref, anon, key>> /\ pc[q] = "mount"
    BY <1>12 DEF MountImage, At, storeVars
  <2> QED
    BY <1>1, <1>2, <1>3, <1>4, <1>5, <2>1, <2>2 DEF Made
<1>13. CASE CopyOut(q)
  <2>1. pc'[q] \in {"extract", "leaveimage"} /\ pc[q] = "extract"
        /\ UNCHANGED <<ref, anon, key, mnt>>
    BY <1>13 DEF CopyOut, At
  <2>2. job[q].cmd = "extract-for-signing" /\ mnt[q] = Source(q)
    BY <2>1 DEF Flow, Made
  <2> QED
    BY <1>1, <1>2, <1>3, <1>4, <1>5, <2>1, <2>2 DEF Made
<1>14. CASE ExitNothingToSign(q) \/ ToolFails(q) \/ Interrupt(q)
  BY <1>6, <1>14 DEF ExitNothingToSign, ToolFails, Interrupt, storeVars, workVars
<1>15. CASE ReadInitrd(q)
  <2>1. pc'[q] = "leaveimage" /\ pc[q] = "readinitrd" /\ UNCHANGED <<ref, anon, key, mnt>>
        /\ initrd'[q] = mnt[q].initrd /\ aboot'[q] = (mnt[q].tree \in Aboot)
    BY <1>15 DEF ReadInitrd, At, Undisturbed, storeVars
  <2>2. mnt[q] = Source(q)
    BY <2>1 DEF Made
  <2>3. Read(q)'
    BY <1>2, <2>1, <2>2 DEF Read
  <2> QED
    BY <1>1, <1>2, <1>3, <1>4, <1>5, <2>1, <2>2, <2>3 DEF Made
<1>16. CASE AppendKey(q)
  <2>1. pc'[q] = "create" /\ pc[q] = "append" /\ UNCHANGED <<ref, anon, key, initrd, aboot>>
    BY <1>16 DEF AppendKey, At, storeVars, workVars
  <2>2. Read(q)' <=> Read(q)
    BY <1>2, <2>1 DEF Read
  <2> QED
    BY <1>1, <1>2, <1>3, <1>4, <1>5, <2>1, <2>2 DEF Made
<1>17. CASE CreateContainer(q)
  <2>1. pc[q] = "create" /\ UNCHANGED <<ref, anon, key, initrd, aboot>>
    BY <1>17 DEF CreateContainer, At, storeVars
  <2>2. \/ pc'[q] = "unwinding"
        \/ pc'[q] = "modify" /\ mnt'[q] = Source(q) /\ todo'[q] = SignedFile
    BY <1>17 DEF CreateContainer, Source
  <2>3. job[q].cmd \in Command \ {"extract-for-signing"}
    BY <1>1, <2>1, JobType DEF Flow
  <2>4. Signed(Source(q), SignedFile) = Source(q)
    BY <1>2, <1>4, <2>1, SignedEnds
  <2>5. job[q].cmd # "inject-signed" => Read(q)'
    BY <1>2, <2>1, <2>3 DEF Made, Command, Read
  <2> QED
    BY <1>1, <1>2, <1>3, <1>4, <1>5, <2>1, <2>2, <2>4, <2>5 DEF Made
<1>18. CASE ModifyInitrd(q)
  <2>1. /\ pc[q] = "modify" /\ pc'[q] = "leavemount" /\ UNCHANGED <<ref, anon, key>>
        /\ job[q].cmd # "inject-signed"
        /\ mnt'[q] = WithKey(mnt[q], initrd[q], key[q], aboot[q])
    BY <1>18 DEF ModifyInitrd, At, storeVars
  <2>2. mnt'[q] = Changed(q)
    <3>1. aboot[q] = (Source(q).tree \in Aboot)
      BY <2>1 DEF Made, Read
    <3> QED
      BY <2>1, <3>1 DEF Made, Changed, Read, Rekeyed
  <2> QED
    BY <1>1, <1>2, <1>3, <1>4, <1>5, <2>1, <2>2 DEF Made
<1>19. CASE CopyIn(q)
  <2>1. /\ pc[q] = "modify" /\ job[q].cmd = "inject-signed"
        /\ UNCHANGED <<ref, anon, key>>
    BY <1>19 DEF CopyIn, At, storeVars
  <2>2. CASE pc'[q] = "unwinding"
    BY <1>6, <2>1, <2>2
  <2>3. CASE pc'[q] # "unwinding"
    <3>1. PICK f \in todo[q] : /\ mnt'[q] = WithFile(mnt[q], f)
                               /\ todo'[q] = todo[q] \ {f}
                               /\ pc'[q] = IF todo[q] = {f} THEN "leavemount" ELSE "modify"
      BY <1>19, <2>3 DEF CopyIn
    <3>2. mnt[q] = Signed(Source(q), todo[q])
      BY <2>1 DEF Made
    <3>3. Source(q) \in Image /\ todo[q] \in SUBSET SignedFile /\ f \in todo[q]
      BY <1>2, <1>4, <2>1, <3>1
    <3>4. mnt'[q] = Signed(Source(q), todo'[q])
      BY <3>1, <3>2, <3>3, SignedNext
    <3>5. todo[q] = {f} => mnt'[q] = Changed(q)
      BY <2>1, <3>1, <3>3, <3>4, SignedEnds DEF Changed
    <3> QED
      BY <1>1, <1>2, <1>3, <1>4, <1>5, <2>1, <3>1, <3>4, <3>5 DEF Made
  <2> QED
    BY <2>2, <2>3
<1>20. CASE CloseImage(q)
  <2>1. UNCHANGED <<ref, anon, key, initrd, aboot>>
    BY <1>20 DEF CloseImage, storeVars, workVars
  <2>2. \/ pc'[q] = "unwinding"
        \/ pc[q] = "leaveimage" /\ pc'[q] = AfterImage(job[q])
    BY <1>1, <1>20 DEF CloseImage, Closing, End, Manager, Continue
  <2>3. AfterImage(job[q]) \in {"return", "append"}
    BY DEF AfterImage
  <2>4. Read(q)' <=> Read(q)
    BY <1>2, <2>1 DEF Read
  <2> QED
    BY <1>1, <1>2, <1>3, <1>4, <1>5, <2>1, <2>2, <2>3, <2>4 DEF Made
<1>21. CASE CommitContainer(q)
  <2>1. /\ key'[q] = key[q]
        /\ pc'[q] \in {"unwinding", "leavecontainer"}
        /\ pc'[q] = "leavecontainer" => pc[q] = "leavemount"
    BY <1>1, <1>21 DEF CommitContainer, Commits, Closing, End, Manager, Continue
  <2>2. CASE UNCHANGED <<ref, anon>>
    BY <1>6, <2>1, <2>2
  <2>3. CASE ~UNCHANGED <<ref, anon>>
    <3>1. pc[q] = "leavemount" /\ pc'[q] = "leavecontainer"
      BY <1>1, <1>21, <2>3 DEF CommitContainer, Commits, Closing, End, Manager, Continue
    <3>2. \/ /\ Untagged(job[q]) /\ anon'[q] = mnt[q] /\ UNCHANGED ref
          \/ /\ ~Untagged(job[q]) /\ Store(q, mnt[q]) /\ UNCHANGED anon
      BY <1>21, <2>3 DEF CommitContainer
    <3>3. mnt[q] = Changed(q) /\ mnt[q] # NoImage
      BY <3>1 DEF Made, Mounted
    <3>4. ~Untagged(job[q]) => Changed(q) \in Outcome(job[q], Source(q))
      BY <1>4, <3>1, ChangedOutcome DEF Flow
    <3>5. ~Untagged(job[q]) => ref'[q] = mnt[q]
      BY <3>2, <3>3, StoreFrame, JobType
    <3> QED
      BY <1>1, <1>2, <1>3, <1>4, <1>5, <2>1, <3>1, <3>2, <3>3, <3>4, <3>5 DEF Made
  <2> QED
    BY <2>2, <2>3
<1>22. CASE RemoveContainer(q)
  <2>1. AfterContainer(job[q]) \in {"return", "archive", "readkeys", "seal"}
    BY DEF AfterContainer, Finish
  <2>2. /\ UNCHANGED <<ref, anon, key>>
        /\ \/ pc'[q] = "unwinding"
           \/ pc[q] = "leavecontainer" /\ pc'[q] = AfterContainer(job[q])
    BY <1>1, <1>22 DEF RemoveContainer, Closing, End, Manager, Continue, storeVars, workVars
  <2> QED
    BY <1>6, <2>1, <2>2
<1>23. CASE ReadKeys(q)
  BY <1>6, <1>23 DEF ReadKeys, At, storeVars, workVars
<1>24. CASE SealImage(q)
  <2>1. /\ UNCHANGED <<anon, key>> /\ pc[q] = "seal"
        /\ \/ pc'[q] = "unwinding" /\ UNCHANGED ref
           \/ /\ pc'[q] = AfterSeal(job[q]) /\ SealSource(q) # NoImage
              /\ Store(q, Sealed(SealSource(q), key[q]))
    BY <1>24 DEF SealImage, At
  <2>2. AfterSeal(job[q]) \in {"leavesealing", "return", "archive"}
    BY DEF AfterSeal, Finish
  <2>3. CASE UNCHANGED ref
    BY <1>6, <2>1, <2>2, <2>3
  <2>4. CASE ~UNCHANGED ref
    <3>1. SealSource(q) = IF job[q].cmd = "reseal" /\ job[q].key # NoKey
                            THEN Source(q) ELSE Changed(q)
      BY <1>4, <2>1, <2>4 DEF SealSource, Source
    <3>2. Untagged(job[q]) /\ key[q] # NoKey /\ job[q].cmd # "extract-for-signing"
      BY <2>1 DEF Flow, KeyHeld, Untagged
    <3>3. Sealed(SealSource(q), key[q]) \in Outcome(job[q], Source(q))
      BY <1>4, <2>1, <3>1, <3>2, ChangedOutcome
    <3>4. Sealed(SealSource(q), key[q]) # NoImage
      <4>1. SealSource(q) \in Image
        BY <1>1, <2>1, <2>4, JobType DEF SealSource, Ref
      <4> QED
        BY <3>2, <4>1, SealedType, BootcImageAssumption
    <3>5. ref'[q] = Sealed(SealSource(q), key[q])
      BY <1>1, <2>1, <2>4, <3>4, StoreFrame, JobType
    <3> QED
      BY <1>1, <1>2, <1>3, <1>4, <1>5, <2>1, <2>2, <3>3, <3>5 DEF Made
  <2> QED
    BY <2>3, <2>4
<1>25. CASE StoreToArchive(q)
  <2>1. ref[q] # NoImage
    BY <1>25 DEF StoreToArchive, At, EndInv, Ending, Stored
  <2> QED
    BY <1>25, <2>1 DEF StoreToArchive
<1>26. CASE CloseSealing(q)
  <2>1. Finish(job[q]) \in {"return", "archive"}
    BY DEF Finish
  <2>2. /\ pc'[q] \in {pc[q], Finish(job[q])}
        /\ pc[q] = "unwinding" => pc'[q] = pc[q]
        /\ pc[q] # "unwinding" => pc'[q] = Finish(job[q]) /\ pc[q] = "leavesealing"
        /\ UNCHANGED <<ref, key>> /\ anon'[q] \in {anon[q], NoImage}
    BY <1>1, <1>26 DEF CloseSealing, Closing, End, Manager, Continue
  <2> QED
    BY <1>6, <2>1, <2>2
<1>27. CASE CloseTemporary(q)
  <2>1. pc[q] \in {"return", "unwinding"}
    BY <1>1, <1>27 DEF CloseTemporary, Closing, End, Manager
  <2>2. UNCHANGED <<pc, anon, key>> /\ ref'[q] \in {ref[q], NoImage}
    BY <1>27 DEF CloseTemporary, Ref
  <2> QED
    BY <1>6, <2>1, <2>2
<1>28. CASE CloseTmpdir(q) \/ Kill(q) \/ \E j \in Jobs : Start(q, j)
  BY <1>28 DEF CloseTmpdir, Kill, Start, Running
<1> QED
  BY <1>8, <1>9, <1>10, <1>11, <1>12, <1>13, <1>14, <1>15, <1>16, <1>17, <1>18,
    <1>19, <1>20, <1>21, <1>22, <1>23, <1>24, <1>25, <1>26, <1>27, <1>28, WhoSteps
    DEF ActsOn, Step

\* The step at which a command has its effect: what it stores is what an atomic
\* command would make of the source, where the atomic one would store it.
LEMMA PublishStep ==
  ASSUME TypeInv, ResultInv, EndInv, [Next]_vars,
         NEW q \in Proc, Running(q), Running(q)', Made(q),
         pub[q] = NoImage, pub'[q] # NoImage
  PROVE  /\ Published(q)'
         /\ Source(q) # NoImage /\ pub'[q] \in Outcome(job[q], Source(q))
         /\ IF job[q].oci
              THEN /\ archive' = [archive EXCEPT ![job[q].dst] = pub'[q]]
                   /\ \A n \in Name : ref'[n] = ref[n]
              ELSE /\ archive' = archive /\ ref'[job[q].dst] = pub'[q]
                   /\ \A n \in Name \ {job[q].dst} : ref'[n] = ref[n]
<1> USE DEF TypeInv, TypeOK, Goto, Raise
<1>1. /\ job'[q] = job[q] /\ job[q] \in Jobs /\ job[q].oci \in BOOLEAN
      /\ exc[q] = "none" <=> pc[q] # "unwinding"
  BY JobKept, JobType DEF EndInv, Ending
<1>2. /\ Source(q) \in Image \cup {NoImage}
      /\ Untagged(job[q])' = Untagged(job[q])
  BY <1>1, JobType DEF Source, Ref, Untagged
<1>3. /\ pc[q] \notin {"check", "unwinding"} =>
           /\ Source(q) # NoImage
           /\ job[q].key # NoKey => key[q] = job[q].key
      /\ anon[q] # NoImage => anon[q] = Changed(q)
      /\ ref[q] # NoImage => ref[q] \in Outcome(job[q], Source(q))
  BY DEF Made
<1>4. CASE CommitContainer(q)
  <2>1. /\ exc[q] = "none" /\ pc[q] = "leavemount" /\ pc'[q] = "leavecontainer"
        /\ ~Untagged(job[q]) /\ Store(q, mnt[q]) /\ archive' = archive
    BY <1>1, <1>4 DEF CommitContainer, Commits, Closing, End, Manager, Continue
  <2>2. mnt[q] = Changed(q) /\ Changed(q) \in Outcome(job[q], Source(q))
    BY <1>3, <2>1, ChangedOutcome DEF Made, Flow
  <2>3. ~job[q].oci
    BY <1>1, <2>1, StoreFrame
  <2> QED
    BY <1>1, <1>2, <1>3, <2>1, <2>2, <2>3, StoreFrame DEF Published
<1>5. CASE SealImage(q)
  <2>1. /\ pc[q] = "seal" /\ pc'[q] = AfterSeal(job[q]) /\ SealSource(q) # NoImage
        /\ Store(q, Sealed(SealSource(q), key[q])) /\ archive' = archive
    BY <1>5 DEF SealImage, At
  <2>2. SealSource(q) = IF job[q].cmd = "reseal" /\ job[q].key # NoKey
                          THEN Source(q) ELSE Changed(q)
    BY <1>3, <2>1 DEF SealSource, Source
  <2>3. Untagged(job[q]) /\ key[q] # NoKey /\ job[q].cmd # "extract-for-signing"
    BY <2>1 DEF Flow, KeyHeld, Untagged
  <2>4. Sealed(SealSource(q), key[q]) \in Outcome(job[q], Source(q))
    BY <1>3, <2>1, <2>2, <2>3, ChangedOutcome
  <2>5. ~job[q].oci
    BY <1>1, <2>1, StoreFrame
  <2>6. AfterSeal(job[q]) \in {"leavesealing", "return"}
    BY <2>5 DEF AfterSeal, Finish
  <2> QED
    BY <1>1, <1>2, <1>3, <2>1, <2>4, <2>5, <2>6, StoreFrame DEF Published
<1>6. CASE StoreToArchive(q)
  <2>1. /\ pc[q] = "archive" /\ pc'[q] = "return" /\ pub'[q] = ref[q]
        /\ ref' = ref /\ archive' = [archive EXCEPT ![job[q].dst] = ref[q]]
    BY <1>6 DEF StoreToArchive, At
  <2>2. job[q].oci
    BY <2>1 DEF EndInv, Ending
  <2> QED
    BY <1>1, <1>3, <2>1, <2>2 DEF Published
<1>7. ASSUME NEW p \in Proc, ActsOn(p), p # q PROVE FALSE
  BY <1>7, OthersSame DEF Same
<1>8. CASE \E n \in Name, t \in Tree : Rebuild(n, t)
  BY <1>8 DEF Rebuild, workVars
<1>9. CASE UNCHANGED vars
  BY <1>9 DEF vars, workVars
<1>10. CASE \/ CloseTmpdir(q) \/ Kill(q) \/ \E j \in Jobs : Start(q, j)
  BY <1>10 DEF CloseTmpdir, Kill, Start, Running
<1>11. CASE \/ CheckSource(q) \/ FindBuilder(q) \/ ClearOut(q) \/ MountImage(q)
            \/ CopyOut(q) \/ ExitNothingToSign(q) \/ ReadInitrd(q) \/ AppendKey(q)
            \/ CreateContainer(q) \/ ModifyInitrd(q) \/ CopyIn(q) \/ CloseImage(q)
            \/ RemoveContainer(q) \/ ReadKeys(q) \/ CloseSealing(q)
            \/ CloseTemporary(q) \/ ToolFails(q) \/ Interrupt(q)
  BY <1>11 DEF CheckSource, FindBuilder, ClearOut, MountImage, CopyOut,
    ExitNothingToSign, ReadInitrd, AppendKey, CreateContainer, ModifyInitrd, CopyIn,
    CloseImage, RemoveContainer, ReadKeys, CloseSealing, CloseTemporary, ToolFails,
    Interrupt, workVars
<1> QED
  BY <1>4, <1>5, <1>6, <1>7, <1>8, <1>9, <1>10, <1>11, WhoSteps DEF ActsOn, Step

\* A command begins with nothing in hands.
LEMMA StartStage ==
  ASSUME TypeInv, ResultInv, [Next]_vars, NEW q \in Proc, ~Running(q), Running(q)'
  PROVE  pc'[q] = "check" /\ pub[q] = NoImage /\ pub'[q] = NoImage /\ Made(q)'
<1>1. PICK j \in Jobs : Start(q, j)
  BY StartRuns
<1>2. pc'[q] = "check" /\ pub' = pub /\ anon'[q] = NoImage /\ ref'[q] = NoImage
  BY <1>1 DEF Start, Goto, TypeInv, TypeOK, Ref
<1>3. pub[q] = NoImage
  BY DEF ResultInv, Result, Unstarted, Running
<1> QED
  BY <1>2, <1>3 DEF Made

\* Every step keeps the stages.
LEMMA StepStage ==
  ASSUME TypeInv, ResultInv, EndInv, Undisturbed, SourceInv, [Next]_vars,
         NEW q \in Proc
  PROVE  Stage(q)'
<1>1. SUFFICES ASSUME Running(q)'
               PROVE  IF pub'[q] = NoImage THEN Made(q)' ELSE Published(q)'
  BY DEF Stage
<1>2. CASE ~Running(q)
  BY <1>1, <1>2, StartStage
<1>3. CASE Running(q) /\ pub[q] # NoImage
  BY <1>1, <1>3, PublishedStep DEF SourceInv, Stage
<1>4. CASE Running(q) /\ pub[q] = NoImage
  BY <1>1, <1>4, MadeStep, PublishStep DEF SourceInv, DirInv, Stage
<1> QED
  BY <1>2, <1>3, <1>4

-----------------------------------------------------------------------------
(* Directories.                                                            *)

\* A command that runs on a directory has it to itself.
LEMMA DirStays ==
  ASSUME TypeInv, DirInv, [Next]_vars, NEW q \in Proc, Running(q),
         job[q].cmd = "extract-for-signing",
         dir'[job[q].dir] # dir[job[q].dir]
  PROVE  ClearOut(q) \/ CopyOut(q)
<1> USE DEF TypeInv, TypeOK
<1>1. job[q].dir \in Dir
  BY JobType
<1>2. ASSUME NEW p \in Proc, ActsOn(p)
      PROVE  (ClearOut(p) \/ CopyOut(p)) /\ job[p].dir = job[q].dir
  <2>1. CASE ClearOut(p) \/ CopyOut(p)
    BY <1>1, <2>1 DEF ClearOut, CopyOut
  <2>2. CASE CommitContainer(p) \/ SealImage(p)
    BY <2>2 DEF CommitContainer, SealImage
  <2> QED
    BY <1>2, <2>1, <2>2 DEF ActsOn, Step, Start, CheckSource, FindBuilder,
      MountImage, ExitNothingToSign, ReadInitrd, AppendKey, CreateContainer,
      ModifyInitrd, CopyIn, CloseImage, RemoveContainer, ReadKeys, StoreToArchive,
      CloseSealing, CloseTemporary, CloseTmpdir, ToolFails, Interrupt, Kill,
      storeVars
<1>3. ASSUME NEW p \in Proc \ {q}, ClearOut(p) \/ CopyOut(p), job[p].dir = job[q].dir
      PROVE  FALSE
  <2>1. Running(p) /\ pc[p] \in {"clear", "extract"}
    BY <1>3 DEF ClearOut, CopyOut, At, Running
  <2>2. job[p].cmd = "extract-for-signing"
    BY <2>1 DEF Flow, DirInv, Extracted
  <2>3. Apart(job[p], job[q])
    BY <2>1 DEF DirInv, Together
  <2> QED
    BY <1>1, <1>3, <2>2, <2>3 DEF Apart, Writes
<1>4. ~\E n \in Name, t \in Tree : Rebuild(n, t)
  BY DEF Rebuild
<1>5. ~UNCHANGED vars
  BY DEF vars, storeVars
<1> QED
  BY <1>2, <1>3, <1>4, <1>5, WhoSteps

\* Every step keeps what was extracted.
LEMMA ExtractStep ==
  ASSUME TypeInv, EndInv, DirInv, [Next]_vars, NEW q \in Proc
  PROVE  Extracted(q)'
<1> USE DEF TypeInv, TypeOK, Goto, Raise
<1>1. /\ Extracted(q) /\ job[q].dir \in Dir
      /\ Running(q) => (exc[q] = "none" <=> pc[q] # "unwinding")
  BY JobType DEF DirInv, EndInv, Ending
<1>2. ASSUME ~Running(q), Running(q)' PROVE Extracted(q)'
  <2>1. PICK j \in Jobs : Start(q, j)
    BY <1>2, StartRuns
  <2>2. pc'[q] = "check" /\ exc'[q] = "none"
    BY <2>1 DEF Start
  <2> QED
    BY <2>2 DEF Extracted
<1>3. ASSUME ~Running(q)' PROVE Extracted(q)'
  BY <1>3 DEF Extracted, Running
<1>4. SUFFICES ASSUME Running(q), Running(q)', job'[q] = job[q] PROVE Extracted(q)'
  BY <1>2, <1>3, JobKept
\* A step that leaves the directory alone.
<1>5. ASSUME dir'[job[q].dir] = dir[job[q].dir],
             pc'[q] = pc[q] /\ mnt'[q] = mnt[q] /\ exc'[q] = exc[q] /\ todo'[q] = todo[q]
      PROVE  Extracted(q)'
  BY <1>1, <1>4, <1>5 DEF Extracted, Running
<1>6. ASSUME dir'[job[q].dir] = dir[job[q].dir], job[q].cmd # "extract-for-signing",
             pc'[q] # "clear"
      PROVE  Extracted(q)'
  BY <1>4, <1>6 DEF Extracted
<1>7. ASSUME exc'[q] # "exit0",
             pc'[q] \notin {"clear", "mount", "archive", "extract", "leaveimage",
                            "return"}
      PROVE  Extracted(q)'
  BY <1>4, <1>7 DEF Extracted
<1>8. ASSUME NEW p \in Proc, ActsOn(p), p # q PROVE Extracted(q)'
  <2>1. Same(q)
    BY <1>8, OthersSame
  <2>2. CASE job[q].cmd # "extract-for-signing"
    BY <1>1, <1>4, <2>1, <2>2 DEF Extracted, Same
  <2>3. CASE job[q].cmd = "extract-for-signing"
    <3>1. ASSUME ClearOut(q) \/ CopyOut(q) PROVE FALSE
      <4>1. CASE ClearOut(q)
        BY <2>1, <4>1 DEF Same, ClearOut, At
      <4>2. CASE CopyOut(q)
        <5>1. PICK f \in todo[q] : todo' = [todo EXCEPT ![q] = @ \ {f}]
          BY <4>2 DEF CopyOut
        <5> QED
          BY <2>1, <5>1 DEF Same
      <4> QED
        BY <3>1, <4>1, <4>2
    <3> QED
      BY <1>4, <1>5, <2>1, <2>3, <3>1, DirStays DEF Same
  <2> QED
    BY <2>2, <2>3
<1>9. CASE (\E n \in Name, t \in Tree : Rebuild(n, t)) \/ UNCHANGED vars
  BY <1>5, <1>9 DEF Rebuild, vars, storeVars, workVars
<1>10. CASE CheckSource(q)
  <2>1. dir' = dir /\ exc'[q] # "exit0"
    BY <1>10 DEF CheckSource, At, storeVars
  <2>2. pc'[q] = "unwinding" \/ pc'[q] = AfterCheck(job[q])
    BY <1>10 DEF CheckSource
  <2>3. /\ AfterCheck(job[q]) \in {"clear", "create", "seal", "builder"}
        /\ AfterCheck(job[q]) = "clear" => job[q].cmd = "extract-for-signing"
    BY DEF AfterCheck
  <2> QED
    BY <1>4, <2>1, <2>2, <2>3 DEF Extracted
<1>11. CASE AppendKey(q) \/ ReadKeys(q)
  BY <1>7, <1>11 DEF AppendKey, ReadKeys, At, storeVars, workVars
<1>25. CASE FindBuilder(q)
  BY <1>6, <1>25 DEF FindBuilder, At, Flow, storeVars, workVars
<1>26. CASE ClearOut(q)
  <2>1. /\ \A f \in SignedFile : dir'[job[q].dir][f] = NoFile
        /\ pc'[q] = "mount" /\ exc'[q] = "none"
    BY <1>1, <1>26 DEF ClearOut, At
  <2> QED
    BY <1>4, <2>1 DEF Extracted
<1>12. CASE MountImage(q)
  <2>1. /\ exc'[q] # "exit0" /\ dir' = dir /\ pc[q] = "mount"
        /\ \/ pc'[q] = "unwinding"
           \/ pc'[q] \in {"extract", "readinitrd"} /\ todo'[q] = SignedFile
    BY <1>12 DEF MountImage, At, storeVars
  <2> QED
    BY <1>1, <1>4, <2>1 DEF Extracted
<1>13. CASE CopyOut(q)
  <2>1. PICK f \in todo[q], t \in {mnt[q].tree, Torn} :
          /\ dir' = [dir EXCEPT ![job[q].dir][f] = t]
          /\ todo'[q] = todo[q] \ {f}
          /\ pc'[q] = IF todo[q] = {f} THEN "leaveimage" ELSE "extract"
    BY <1>13 DEF CopyOut
  <2>2. /\ f \in SignedFile /\ exc'[q] = "none" /\ pc[q] = "extract"
        /\ Running(q) /\ mnt'[q] = mnt[q] /\ mnt[q].tree \notin Unsignable
    BY <1>4, <1>13, <2>1 DEF CopyOut, At
  <2>3. /\ dir'[job[q].dir][f] = t
        /\ \A g \in SignedFile \ {f} : dir'[job[q].dir][g] = dir[job[q].dir][g]
    BY <1>1, <2>1, <2>2
  <2>4. job[q].cmd = "extract-for-signing"
    BY <2>2 DEF Flow
  <2>5. /\ \A g \in todo[q] : dir[job[q].dir][g] = NoFile
        /\ \A g \in SignedFile \ todo[q] :
             dir[job[q].dir][g] \in {mnt[q].tree, Torn}
    BY <1>1, <2>2, <2>4 DEF Extracted
  <2>6. /\ \A g \in todo[q] \ {f} : dir'[job[q].dir][g] = NoFile
        /\ \A g \in SignedFile \ (todo[q] \ {f}) :
             dir'[job[q].dir][g] \in {mnt[q].tree, Torn}
    BY <2>1, <2>2, <2>3, <2>5
  <2> QED
    BY <1>4, <2>1, <2>2, <2>6 DEF Extracted
<1>14. CASE ExitNothingToSign(q)
  <2>1. /\ UNCHANGED <<dir, mnt, todo>> /\ pc'[q] = "unwinding"
        /\ pc[q] = "extract" \/ job[q].cmd = "inject-signed"
        /\ mnt[q].tree \in Unsignable \/ todo[q] = SignedFile
    BY <1>14 DEF ExitNothingToSign, At, storeVars, workVars
  <2> QED
    BY <1>1, <1>4, <2>1 DEF Extracted
<1>15. CASE ToolFails(q) \/ Interrupt(q)
  BY <1>7, <1>15 DEF ToolFails, Interrupt
<1>16. CASE ReadInitrd(q)
  BY <1>6, <1>16 DEF ReadInitrd, At, Flow, storeVars
<1>17. CASE CreateContainer(q) \/ ModifyInitrd(q) \/ CopyIn(q)
  <2>1. exc'[q] # "exit0" /\ pc'[q] \in {"unwinding", "modify", "leavemount"}
    BY <1>17 DEF CreateContainer, ModifyInitrd, CopyIn, At
  <2> QED
    BY <1>7, <2>1
<1>18. CASE CloseImage(q)
  <2>1. /\ UNCHANGED <<dir, mnt, todo>>
        /\ \/ pc'[q] = pc[q] /\ exc'[q] = exc[q]
           \/ pc'[q] = "unwinding" /\ exc'[q] = "error"
           \/ exc'[q] = "none" /\ pc[q] = "leaveimage" /\ pc'[q] = AfterImage(job[q])
    BY <1>1, <1>4, <1>18 DEF CloseImage, Closing, End, Manager, Continue, storeVars, workVars
  <2>2. AfterImage(job[q]) \in {"return", "append"}
    BY DEF AfterImage
  <2> QED
    BY <1>1, <1>4, <1>5, <1>7, <2>1, <2>2 DEF Extracted
<1>19. CASE CommitContainer(q)
  <2>1. /\ UNCHANGED <<dir, mnt, todo>>
        /\ \/ pc'[q] = pc[q] /\ exc'[q] = exc[q]
           \/ pc'[q] \in {"unwinding", "leavecontainer"} /\ exc'[q] # "exit0"
    BY <1>1, <1>4, <1>19 DEF CommitContainer, Commits, Continue
  <2> QED
    BY <1>5, <1>7, <2>1
<1>20. CASE RemoveContainer(q) \/ CloseSealing(q)
  <2>1. /\ UNCHANGED <<dir, mnt, todo>>
        /\ \/ pc'[q] = pc[q] /\ exc'[q] = exc[q]
           \/ pc'[q] = "unwinding" /\ exc'[q] = "error"
           \/ /\ pc[q] \in {"leavecontainer", "leavesealing"}
              /\ pc'[q] \in {AfterContainer(job[q]), Finish(job[q])}
    BY <1>1, <1>4, <1>20 DEF RemoveContainer, CloseSealing, Closing, End, Manager,
      Continue, storeVars, workVars
  <2>2. /\ AfterContainer(job[q]) # "clear" /\ Finish(job[q]) # "clear"
        /\ pc[q] \in {"leavecontainer", "leavesealing"} =>
             job[q].cmd # "extract-for-signing"
    BY DEF AfterContainer, Finish, Flow, Untagged
  <2> QED
    BY <1>5, <1>6, <1>7, <2>1, <2>2
<1>21. CASE SealImage(q)
  <2>1. /\ dir' = dir /\ pc[q] = "seal"
        /\ pc'[q] \in {"unwinding", AfterSeal(job[q])}
    BY <1>21 DEF SealImage, At
  <2>2. AfterSeal(job[q]) # "clear" /\ job[q].cmd # "extract-for-signing"
    BY <2>1 DEF AfterSeal, Finish, Flow, Untagged
  <2> QED
    BY <1>6, <2>1, <2>2
<1>22. CASE StoreToArchive(q)
  <2>1. dir' = dir /\ pc[q] = "archive" /\ pc'[q] = "return"
    BY <1>22 DEF StoreToArchive, At
  <2>2. job[q].cmd # "extract-for-signing"
    BY <1>1, <1>4, <2>1 DEF Extracted
  <2> QED
    BY <1>6, <2>1, <2>2
<1>23. CASE CloseTemporary(q)
  BY <1>5, <1>23 DEF CloseTemporary
<1>24. CASE CloseTmpdir(q) \/ Kill(q) \/ \E j \in Jobs : Start(q, j)
  BY <1>4, <1>24 DEF CloseTmpdir, Kill, Start, Running
<1> QED
  BY <1>8, <1>9, <1>10, <1>11, <1>12, <1>13, <1>14, <1>15, <1>16, <1>17, <1>18,
    <1>19, <1>20, <1>21, <1>22, <1>23, <1>24, <1>25, <1>26,
    WhoSteps DEF ActsOn, Step

-----------------------------------------------------------------------------
(* The invariant holds.                                                    *)

\* At first nothing runs.
LEMMA InitSource == Init => SourceInv
BY DEF Init, SourceInv, DirInv, Together, Stage, Extracted, Running

\* Every step keeps what is known of directories.
LEMMA StepDir ==
  ASSUME OwnNames, TypeInv, EndInv, DirInv, [Next]_vars
  PROVE  DirInv'
<1>1. Together'
  BY StepTogether DEF DirInv
<1>2. \A q \in Proc : Extracted(q)'
  BY ExtractStep
<1> QED
  BY <1>1, <1>2 DEF DirInv

\* Every step keeps the invariant.
LEMMA StepSource ==
  ASSUME Undisturbed, TypeInv, ResultInv, EndInv, SourceInv, [Next]_vars
  PROVE  SourceInv'
<1>1. OwnNames
  BY DEF Undisturbed, OwnNames
<1>2. DirInv'
  BY <1>1, StepDir DEF SourceInv
<1>3. \A q \in Proc : Stage(q)'
  BY StepStage
<1> QED
  BY <1>2, <1>3 DEF SourceInv

\* All that is known of a reachable state.
SealInv == TypeInv /\ ResultInv /\ EndInv /\ SourceInv

\* Every command works on the image its source names until it has stored its
\* result, and on its own directory, as long as users keep their names apart.
THEOREM SourcesHold == ASSUME Undisturbed PROVE Spec => []SealInv
<1>1. Init => SealInv
  BY InitType, InitResult, InitEnd, InitSource DEF SealInv
<1>2. SealInv /\ [Next]_vars => SealInv'
  BY StepType, StepResult, StepEnd, StepSource DEF SealInv
<1> QED
  BY <1>1, <1>2, PTL DEF Spec

\* Where extract-for-signing ends with status 0, out holds the listed files of
\* the image it mounted and nothing of an earlier extraction, or nothing at all
\* when it said that there is nothing to sign.  Whatever fails, and whatever
\* `cat' and `test' report: only no other command may use the directory.
THEOREM ExtractsAreFresh == ASSUME OwnNames PROVE Spec => ExtractIsFresh
<1>1. Init => DirInv
  BY InitSource DEF SourceInv
<1>2. TypeInv /\ EndInv /\ DirInv /\ [Next]_vars => DirInv'
  BY StepDir
<1>3. TypeInv /\ EndInv /\ DirInv /\ [Next]_vars =>
        [\A p \in Proc :
           Succeeds(p) /\ job[p].cmd = "extract-for-signing" =>
           \A f \in SignedFile :
             dir'[job[p].dir][f] \in
               IF exc'[p] = "exit0" THEN {NoFile} ELSE {mnt[p].tree, Torn}]_vars
  <2> SUFFICES ASSUME TypeInv, EndInv, DirInv, [Next]_vars, NEW p \in Proc,
                      Succeeds(p), job[p].cmd = "extract-for-signing",
                      NEW f \in SignedFile
               PROVE  dir'[job[p].dir][f] \in
                        IF exc'[p] = "exit0" THEN {NoFile}
                        ELSE {mnt[p].tree, Torn}
    OBVIOUS
  <2>1. CloseTmpdir(p) /\ Running(p)
    BY ExitIsClose DEF Succeeds
  <2>2. exc[p] \in {"none", "exit0"} /\ exc'[p] = exc[p] /\ dir' = dir
    BY <2>1 DEF CloseTmpdir, Succeeds, TypeInv, TypeOK, storeVars
  <2>3. exc[p] = "none" => pc[p] = "return"
    BY <2>1 DEF CloseTmpdir, Closing, End, Manager
  <2>4. Extracted(p)
    BY DEF DirInv
  <2> QED
    BY <2>1, <2>2, <2>3, <2>4 DEF Extracted
<1> QED
  BY <1>1, <1>2, <1>3, InitType, StepType, InitEnd, StepEnd, PTL
  DEF Spec, ExtractIsFresh

-----------------------------------------------------------------------------
(* What becomes visible.                                                   *)

\* The step at which a command stores its result.
Publishes(p) == /\ Running(p) /\ Running(p)'
                /\ pub[p] = NoImage /\ pub'[p] # NoImage

\* Names and archives change only by a command that stores its one result and
\* by another build.
LEMMA NamesStay ==
  ASSUME SealInv, [Next]_vars, NEW n \in Name, ref'[n] # ref[n]
  PROVE  \/ \E t \in Tree : Rebuild(n, t)
         \/ \E p \in Proc : Publishes(p) /\ ~job[p].oci /\ n = job[p].dst
<1> USE DEF SealInv, TypeInv, TypeOK
<1>1. ASSUME NEW p \in Proc, CommitContainer(p) \/ SealImage(p), ~job[p].oci,
             n = job[p].dst, pub'[p] = ref'[n], ref'[n] # NoImage
      PROVE  Publishes(p)
  <2>1. exc[p] = "none" => pc[p] \in {"leavemount", "seal"}
    BY <1>1 DEF CommitContainer, SealImage, Closing, At, End, Manager
  <2>2. Running(p) /\ exc[p] = "none"
    <3>1. CASE CommitContainer(p)
      <4>1. Commits(p) \/ UNCHANGED ref
        BY <3>1 DEF CommitContainer
      <4> QED
        BY <3>1, <4>1 DEF CommitContainer, Closing, Commits
    <3>2. CASE SealImage(p)
      BY <3>2 DEF SealImage, At, Running
    <3> QED
      BY <1>1, <3>1, <3>2
  <2>3. pub[p] = NoImage
    BY <2>1, <2>2 DEF SourceInv, Stage, Published
  <2>4. Running(p)'
    <3>1. CASE CommitContainer(p)
      BY <2>1, <2>2, <3>1 DEF CommitContainer, Continue, Goto, Raise, Running
    <3>2. CASE SealImage(p)
      BY <2>2, <3>2 DEF SealImage, Goto, Raise, Running, AfterSeal, Finish
    <3> QED
      BY <1>1, <3>1, <3>2
  <2> QED
    BY <1>1, <2>2, <2>3, <2>4 DEF Publishes
<1> QED
  BY <1>1, NameStep

LEMMA ArchiveStays ==
  ASSUME SealInv, [Next]_vars, archive' # archive
  PROVE  \E p \in Proc : Publishes(p)
<1> USE DEF SealInv, TypeInv, TypeOK
<1>1. ASSUME NEW p \in Proc, ActsOn(p) PROVE StoreToArchive(p)
  BY <1>1 DEF ActsOn, Step, Start, CheckSource, FindBuilder, ClearOut, MountImage,
    CopyOut, ExitNothingToSign, ReadInitrd, AppendKey, CreateContainer, ModifyInitrd,
    CopyIn, CloseImage, CommitContainer, RemoveContainer, ReadKeys, SealImage,
    CloseSealing, CloseTemporary, CloseTmpdir, ToolFails, Interrupt, Kill, storeVars
<1>2. ASSUME NEW p \in Proc, StoreToArchive(p) PROVE Publishes(p)
  <2>1. /\ pc[p] = "archive" /\ pc'[p] = "return" /\ pub'[p] = ref[p]
        /\ Running(p) /\ Running(p)'
    BY <1>2 DEF StoreToArchive, At, Goto, Running
  <2>2. ref[p] # NoImage
    BY <2>1 DEF EndInv, Ending, Stored
  <2>3. pub[p] = NoImage
    BY <2>1 DEF SourceInv, Stage, Published
  <2> QED
    BY <2>1, <2>2, <2>3 DEF Publishes
<1>3. ~\E n \in Name, t \in Tree : Rebuild(n, t)
  BY DEF Rebuild
<1>4. ~UNCHANGED vars
  BY DEF vars, storeVars
<1> QED
  BY <1>1, <1>2, <1>3, <1>4, WhoSteps

-----------------------------------------------------------------------------
(* The refinement.                                                         *)

LEMMA RefinesInit == Init => Atomic!Init
<1> SUFFICES ASSUME Init PROVE Atomic!Init
  OBVIOUS
<1>1. \A p \in Proc : ~Running(p) /\ pub[p] = NoImage
  BY DEF Init, Running
<1>2. \A n \in Name : ref[n] \in {NoImage} \cup {Fresh(t) : t \in Tree}
  BY DEF Init, Ref
<1>3. [n \in Name |-> ref[n]] \in [Name -> {NoImage} \cup {Atomic!Fresh(t) : t \in Tree}]
  BY <1>2 DEF Fresh, Atomic!Fresh
<1>4. /\ [p \in Proc |-> IF Running(p) THEN job[p] ELSE NoJob] = [p \in Proc |-> NoJob]
      /\ [p \in Proc |-> pub[p] # NoImage /\ Running(p)] = [p \in Proc |-> FALSE]
  BY <1>1
<1>5. archive = [n \in Name |-> NoImage]
  BY DEF Init
<1> QED
  BY <1>3, <1>4, <1>5 DEF Atomic!Init

\* What of a process the names users see do not show.
SameTask(q) == /\ Running(q)' <=> Running(q)
               /\ Running(q) => job'[q] = job[q]
               /\ (pub'[q] # NoImage /\ Running(q)') <=> (pub[q] # NoImage /\ Running(q))

\* Steps inside of a command.
LEMMA AtomicStutter ==
  ASSUME \A n \in Name : ref'[n] = ref[n], archive' = archive,
         \A q \in Proc : SameTask(q)
  PROVE  UNCHANGED Atomic!atomicVars
<1>1. [n \in Name |-> ref[n]]' = [n \in Name |-> ref[n]]
  OBVIOUS
<1>2. [q \in Proc |-> IF Running(q) THEN job[q] ELSE NoJob]'
        = [q \in Proc |-> IF Running(q) THEN job[q] ELSE NoJob]
  BY DEF SameTask
<1>3. [q \in Proc |-> pub[q] # NoImage /\ Running(q)]'
        = [q \in Proc |-> pub[q] # NoImage /\ Running(q)]
  BY DEF SameTask
<1> QED
  BY <1>1, <1>2, <1>3 DEF Atomic!atomicVars

\* A step in which nobody's result is stored and nothing else is built.
LEMMA AtomicQuiet ==
  ASSUME SealInv, [Next]_vars, ~\E p \in Proc : Publishes(p),
         ~\E n \in Name, t \in Tree : Rebuild(n, t)
  PROVE  (\A n \in Name : ref'[n] = ref[n]) /\ archive' = archive
BY NamesStay, ArchiveStays

\* The process whose step it is not.
LEMMA OthersTask ==
  ASSUME TypeInv, NEW p \in Proc, ActsOn(p), NEW q \in Proc \ {p}
  PROVE  SameTask(q)
BY OthersSame DEF Same, SameTask, Running

\* A command stores its result.
LEMMA AtomicPublish ==
  ASSUME SealInv, [Next]_vars, NEW p \in Proc, Publishes(p)
  PROVE  Atomic!Publish(p)
<1> USE DEF SealInv
<1>1. ActsOn(p)
  <2>1. ASSUME NEW q \in Proc, ActsOn(q), q # p PROVE FALSE
    BY <2>1, OthersSame DEF Same, Publishes
  <2>2. ~\E n \in Name, t \in Tree : Rebuild(n, t)
    BY DEF Rebuild, Publishes, workVars
  <2>3. ~UNCHANGED vars
    BY DEF vars, workVars, Publishes
  <2> QED
    BY <2>1, <2>2, <2>3, WhoSteps
<1>2. \A q \in Proc \ {p} : SameTask(q)
  BY <1>1, OthersTask
<1>3. /\ job[p] \in Jobs /\ job[p] # NoJob
      /\ job[p].src \in Name /\ job[p].dst \in Name
  BY JobType, BootcImageAssumption DEF TypeInv, TypeOK
<1>4. Made(p) /\ Running(p) /\ Running(p)' /\ job'[p] = job[p]
  BY JobKept DEF Publishes, SourceInv, Stage
<1>5. /\ Source(p) # NoImage /\ pub'[p] \in Outcome(job[p], Source(p))
      /\ IF job[p].oci
           THEN /\ archive' = [archive EXCEPT ![job[p].dst] = pub'[p]]
                /\ \A n \in Name : ref'[n] = ref[n]
           ELSE /\ archive' = archive /\ ref'[job[p].dst] = pub'[p]
                /\ \A n \in Name \ {job[p].dst} : ref'[n] = ref[n]
  BY <1>4, PublishStep DEF Publishes
<1>6. [q \in Proc |-> IF Running(q) THEN job[q] ELSE NoJob]'
        = [q \in Proc |-> IF Running(q) THEN job[q] ELSE NoJob]
  BY <1>2, <1>4 DEF SameTask
<1>7. [q \in Proc |-> pub[q] # NoImage /\ Running(q)]'
        = [[q \in Proc |-> pub[q] # NoImage /\ Running(q)] EXCEPT ![p] = TRUE]
  <2>1. \A q \in Proc \ {p} :
          (pub'[q] # NoImage /\ Running(q)') = (pub[q] # NoImage /\ Running(q))
    BY <1>2 DEF SameTask
  <2>2. (pub'[p] # NoImage /\ Running(p)') = TRUE
    BY DEF Publishes
  <2> QED
    BY <2>1, <2>2
<1>8. Atomic!Outcome(job[p], Source(p)) = Outcome(job[p], Source(p))
  BY DEF Outcome, Atomic!Outcome, Rekeyed, Atomic!Rekeyed, WithKey,
    Atomic!WithKey, Sealed, Atomic!Sealed
<1>9. /\ [q \in Proc |-> IF Running(q) THEN job[q] ELSE NoJob][p] = job[p]
      /\ ~[q \in Proc |-> pub[q] # NoImage /\ Running(q)][p]
      /\ [n \in Name |-> ref[n]][job[p].src] = Source(p)
  BY <1>3, <1>4 DEF Source, Publishes
<1>10. /\ job[p].oci =>
            /\ archive' = [archive EXCEPT ![job[p].dst] = pub'[p]]
            /\ [n \in Name |-> ref[n]]' = [n \in Name |-> ref[n]]
       /\ ~job[p].oci =>
            /\ archive' = archive
            /\ [n \in Name |-> ref[n]]'
                 = [[n \in Name |-> ref[n]] EXCEPT ![job[p].dst] = pub'[p]]
  BY <1>3, <1>5
<1>11. \E img \in Atomic!Outcome(job[p], Source(p)) :
         IF job[p].oci
           THEN /\ archive' = [archive EXCEPT ![job[p].dst] = img]
                /\ [n \in Name |-> ref[n]]' = [n \in Name |-> ref[n]]
           ELSE /\ [n \in Name |-> ref[n]]'
                     = [[n \in Name |-> ref[n]] EXCEPT ![job[p].dst] = img]
                /\ archive' = archive
  BY <1>5, <1>8, <1>10
<1>12. ~[q \in Proc |-> pub[q] # NoImage /\ Running(q)][p]
  BY <1>9
<1> QED
  BY <1>3, <1>5, <1>6, <1>7, <1>9, <1>11, <1>12, Zenon DEF Atomic!Publish

\* A process takes up a command, or is done with it.
LEMMA AtomicStartEnd ==
  ASSUME SealInv, [Next]_vars, NEW p \in Proc, ActsOn(p),
         \A n \in Name : ref'[n] = ref[n], archive' = archive,
         Running(p)' # Running(p)
  PROVE  Atomic!End(p) \/ \E j \in Jobs : Atomic!Begin(p, j)
<1> USE DEF SealInv
<1>1. \A q \in Proc \ {p} : SameTask(q)
  BY OthersTask
<1>2. [n \in Name |-> ref[n]]' = [n \in Name |-> ref[n]]
  OBVIOUS
<1>3. ASSUME ~Running(p), Running(p)'
      PROVE  \E j \in Jobs : Atomic!Begin(p, j)
  <2>1. PICK j \in Jobs : Start(p, j)
    BY <1>3, StartRuns
  <2>2. job'[p] = j /\ pub'[p] = NoImage
    BY <1>3, <2>1, StartStage DEF Start, TypeInv, TypeOK
  <2>3. [q \in Proc |-> IF Running(q) THEN job[q] ELSE NoJob]'
          = [[q \in Proc |-> IF Running(q) THEN job[q] ELSE NoJob] EXCEPT ![p] = j]
    BY <1>1, <1>3, <2>2 DEF SameTask
  <2>4. [q \in Proc |-> pub[q] # NoImage /\ Running(q)]'
          = [q \in Proc |-> pub[q] # NoImage /\ Running(q)]
    BY <1>1, <1>3, <2>2 DEF SameTask
  <2>5. [q \in Proc |-> IF Running(q) THEN job[q] ELSE NoJob][p] = NoJob
    BY <1>3
  <2> QED
    BY <1>2, <2>3, <2>4, <2>5 DEF Atomic!Begin
<1>4. ASSUME Running(p), ~Running(p)'
      PROVE  Atomic!End(p)
  <2>1. job[p] # NoJob
    BY BootcImageAssumption DEF TypeInv, TypeOK
  <2>2. [q \in Proc |-> IF Running(q) THEN job[q] ELSE NoJob]'
          = [[q \in Proc |-> IF Running(q) THEN job[q] ELSE NoJob] EXCEPT ![p] = NoJob]
    BY <1>1, <1>4 DEF SameTask
  <2>3. [q \in Proc |-> pub[q] # NoImage /\ Running(q)]'
          = [[q \in Proc |-> pub[q] # NoImage /\ Running(q)] EXCEPT ![p] = FALSE]
    <3>1. \A q \in Proc \ {p} :
            (pub'[q] # NoImage /\ Running(q)') = (pub[q] # NoImage /\ Running(q))
      BY <1>1 DEF SameTask
    <3>2. (pub'[p] # NoImage /\ Running(p)') = FALSE
      BY <1>4
    <3> QED
      BY <3>1, <3>2
  <2>4. [q \in Proc |-> IF Running(q) THEN job[q] ELSE NoJob][p] # NoJob
    BY <1>4, <2>1
  <2> QED
    BY <1>2, <2>2, <2>3, <2>4 DEF Atomic!End
<1> QED
  BY <1>3, <1>4 DEF Running

\* Another build.
LEMMA AtomicBuild ==
  ASSUME TypeInv, NEW n \in Name, NEW t \in Tree, Rebuild(n, t)
  PROVE  Atomic!Build(n, t)
<1>1. UNCHANGED <<archive, pc, job, pub>> /\ ref' = [ref EXCEPT ![n] = Fresh(t)]
  BY DEF Rebuild, workVars
<1>2. [m \in Name |-> ref[m]]' = [[m \in Name |-> ref[m]] EXCEPT ![n] = Fresh(t)]
  BY <1>1 DEF TypeInv, TypeOK, Ref
<1>3. /\ [q \in Proc |-> IF Running(q) THEN job[q] ELSE NoJob]'
           = [q \in Proc |-> IF Running(q) THEN job[q] ELSE NoJob]
      /\ [q \in Proc |-> pub[q] # NoImage /\ Running(q)]'
           = [q \in Proc |-> pub[q] # NoImage /\ Running(q)]
  BY <1>1 DEF Running
<1> QED
  BY <1>1, <1>2, <1>3 DEF Atomic!Build, Fresh, Atomic!Fresh

\* Every step is one of the atomic commands, or none.
LEMMA RefinesStep ==
  ASSUME SealInv, [Next]_vars
  PROVE  [Atomic!Next]_(Atomic!atomicVars)
<1> USE DEF SealInv
<1>1. CASE \E p \in Proc : Publishes(p)
  BY <1>1, AtomicPublish DEF Atomic!Next
<1>2. CASE \E n \in Name, t \in Tree : Rebuild(n, t)
  BY <1>2, AtomicBuild DEF Atomic!Next
<1>3. CASE /\ ~\E p \in Proc : Publishes(p)
           /\ ~\E n \in Name, t \in Tree : Rebuild(n, t)
  <2>1. (\A n \in Name : ref'[n] = ref[n]) /\ archive' = archive
    BY <1>3, AtomicQuiet
  <2>2. ASSUME NEW p \in Proc, ActsOn(p), Running(p)' # Running(p)
        PROVE  Atomic!Next
    BY <2>1, <2>2, AtomicStartEnd DEF Atomic!Next
  <2>3. ASSUME NEW p \in Proc, ActsOn(p), Running(p)' = Running(p)
        PROVE  UNCHANGED Atomic!atomicVars
    <3>1. \A q \in Proc \ {p} : SameTask(q)
      BY <2>3, OthersTask
    <3>2. Running(p) => job'[p] = job[p]
      BY JobKept
    <3>3. Running(p) /\ pub[p] # NoImage => pub'[p] = pub[p]
      BY <2>3, PublishedStep DEF SourceInv, Stage
    <3>4. Running(p) /\ pub[p] = NoImage => pub'[p] = NoImage
      BY <1>3, <2>3 DEF Publishes
    <3>5. SameTask(p)
      BY <2>3, <3>2, <3>3, <3>4 DEF SameTask
    <3> QED
      BY <2>1, <3>1, <3>5, AtomicStutter
  <2>4. CASE UNCHANGED vars
    <3>1. \A q \in Proc : SameTask(q)
      BY <2>4 DEF vars, workVars, SameTask, Running
    <3> QED
      BY <2>1, <3>1, AtomicStutter
  <2> QED
    BY <1>3, <2>2, <2>3, <2>4, WhoSteps
<1> QED
  BY <1>1, <1>2, <1>3

\* Seen through the names users give, every command is the atomic one: it stores
\* one image made of the image its source names, at once, or nothing.
THEOREM CommandsAreAtomic == ASSUME Undisturbed PROVE Spec => RefinesAtomic
BY RefinesInit, RefinesStep, SourcesHold, PTL DEF Spec, RefinesAtomic, Atomic!Spec

-----------------------------------------------------------------------------
(* Temporary images.                                                       *)

\* A command that reaches its outermost with-block has left the others.
LEMMA TmpdirIsLast ==
  ASSUME TypeInv, NEW p \in Proc, CloseTmpdir(p)
  PROVE  open[p] \subseteq {"tmpdir"}
<1>1. Depth["tmpdir"] = 0
  BY DEF Depth, Manager
<1>2. \A m \in Manager \ {"tmpdir"} : ~(Depth[m] <= 0)
  BY DEF Depth, Manager
<1> QED
  BY <1>1, <1>2 DEF CloseTmpdir, Closing, TypeInv, TypeOK

\* Every step keeps the owners, if `podman image rm' does not fail unnoticed.
LEMMA OwnedStep ==
  ASSUME "rm" \notin Fault, TypeInv, EndInv, OwnedInv, [Next]_vars, NEW q \in Proc
  PROVE  Owned(q)'
<1> USE DEF TypeInv, TypeOK, Goto, Raise, Enter, Leave
<1>1. /\ Owned(q) /\ job[q] \in Jobs /\ job[q].oci \in BOOLEAN
      /\ Running(q) => (exc[q] = "none" <=> pc[q] # "unwinding")
  BY JobType DEF OwnedInv, EndInv, Ending
<1>2. ASSUME Same(q) PROVE Owned(q)'
  BY <1>1, <1>2 DEF Owned, Same, Running, Untagged
<1>3. ASSUME NEW p \in Proc, ActsOn(p), p # q PROVE Owned(q)'
  BY <1>2, <1>3, OthersSame
<1>4. CASE (\E n \in Name, t \in Tree : Rebuild(n, t)) \/ UNCHANGED vars
  BY <1>2, <1>4, BootcImageAssumption DEF Rebuild, vars, storeVars, workVars, Same, Ref
<1>5. CASE \E j \in Jobs : Start(q, j)
  BY <1>5 DEF Start, Owned, Running, Ref
<1>6. CASE Kill(q)
  BY <1>6 DEF Kill, Owned, Running
<1>7. CASE CloseTmpdir(q)
  <2>1. /\ pc'[q] = "exited" /\ UNCHANGED <<ref, anon, job, excuse>>
        /\ exc'[q] = "none" => exc[q] = "none"
        /\ exc[q] = "none" => pc[q] = "return"
        /\ Running(q) /\ open[q] \subseteq {"tmpdir"}
    BY <1>7, TmpdirIsLast DEF CloseTmpdir, Closing, End, Manager, storeVars
  <2> QED
    BY <1>1, <2>1 DEF Owned, Running
\* A step that keeps or drops what it has, and its owners with it.
<1>8. ASSUME Running(q), Running(q)', job' = job,
             anon'[q] = anon[q], ref'[q] = ref[q], excuse'[q] = excuse[q],
             "temp" \in open[q] => "temp" \in open'[q],
             exc'[q] = "none" => exc[q] = "none" /\ open[q] \subseteq open'[q],
             pc'[q] \in {"return", "unwinding"} \/ pc[q] \notin {"check", "return", "unwinding"},
             exc'[q] = "none" => pc[q] \notin {"leavecontainer", "readkeys"}
      PROVE  Owned(q)'
  BY <1>1, <1>8 DEF Owned, Running, Untagged
<1>9. CASE CheckSource(q)
  <2>1. /\ pc[q] = "check" /\ UNCHANGED <<ref, anon, excuse>>
        /\ \/ pc'[q] = "unwinding" /\ open' = open /\ exc'[q] = "error"
           \/ open'[q] = open[q] \cup NameManagers(job[q])
    BY <1>9 DEF CheckSource, At, storeVars
  <2>2. job[q].oci => "temp" \in NameManagers(job[q])
    BY DEF NameManagers
  <2>3. "sealing" \in open[q] => "sealing" \in open'[q]
    BY <2>1
  <2>4. Running(q) /\ Running(q)' /\ job' = job
    BY <1>9, <2>1 DEF CheckSource, At, Running, AfterCheck
  <2> QED
    BY <1>1, <2>1, <2>2, <2>3, <2>4 DEF Owned, Untagged, Running
<1>10. CASE \/ FindBuilder(q) \/ ClearOut(q) \/ CopyOut(q) \/ ReadInitrd(q)
            \/ AppendKey(q) \/ ModifyInitrd(q)
  <2>1. /\ UNCHANGED <<ref, anon, excuse, open, job, exc>> /\ exc[q] = "none"
        /\ pc[q] \in {"builder", "clear", "extract", "readinitrd", "append", "modify"}
        /\ Running(q) /\ Running(q)'
    BY <1>10 DEF FindBuilder, ClearOut, CopyOut, ReadInitrd, AppendKey, ModifyInitrd,
      At, Running, storeVars, workVars
  <2> QED
    BY <1>8, <2>1
<1>11. CASE MountImage(q) \/ CreateContainer(q) \/ CopyIn(q)
  <2>1. /\ UNCHANGED <<ref, anon, excuse, job>> /\ exc[q] = "none"
        /\ pc[q] \in {"mount", "create", "modify"}
        /\ open[q] \subseteq open'[q]
        /\ Running(q) /\ Running(q)'
    BY <1>11 DEF MountImage, CreateContainer, CopyIn, At, Running, storeVars
  <2> QED
    BY <1>8, <2>1
<1>12. CASE ExitNothingToSign(q) \/ ToolFails(q)
  <2>1. /\ UNCHANGED <<ref, anon, excuse, open, job>> /\ exc'[q] # "none"
        /\ pc'[q] = "unwinding" /\ Running(q) /\ Running(q)'
    BY <1>12 DEF ExitNothingToSign, ToolFails, At, Running, storeVars, workVars
  <2> QED
    BY <1>8, <2>1
<1>13. CASE Interrupt(q)
  <2>1. /\ UNCHANGED <<ref, anon, job>> /\ exc'[q] = "error"
        /\ pc'[q] = "unwinding"
        /\ "temp" \in open[q] => "temp" \in open'[q] \/ excuse'[q] = "interrupted"
        /\ excuse'[q] \in {excuse[q], "interrupted"}
    BY <1>13 DEF Interrupt, storeVars
  <2>2. Running(q) /\ Running(q)'
    BY <1>13, <2>1 DEF Interrupt, Closing, Running
  <2> QED
    BY <1>1, <2>1, <2>2 DEF Owned, Untagged, Running
<1>14. CASE CloseImage(q)
  <2>1. /\ UNCHANGED <<ref, anon, job, excuse>>
        /\ "temp" \in open[q] => "temp" \in open'[q]
        /\ "sealing" \in open[q] => "sealing" \in open'[q]
        /\ \/ pc'[q] = "unwinding" /\ exc'[q] # "none"
           \/ pc[q] = "leaveimage" /\ exc'[q] = "none"
    BY <1>1, <1>14 DEF CloseImage, Closing, End, Manager, Continue, storeVars, workVars,
      Running
  <2>2. Running(q) /\ Running(q)'
    BY <1>14, <2>1 DEF Running, Closing, CloseImage, Continue, AfterImage
  <2> QED
    BY <1>1, <2>1, <2>2 DEF Owned, Untagged, Running
<1>15. CASE CommitContainer(q)
  <2>a. /\ UNCHANGED <<job, excuse>> /\ Running(q)
        /\ exc[q] = "none" => pc[q] = "leavemount"
        /\ "temp" \in open[q] => "temp" \in open'[q]
        /\ "sealing" \in open[q] => "sealing" \in open'[q]
    BY <1>15 DEF CommitContainer, Closing, End, Manager
  <2>1. \/ UNCHANGED <<ref, anon>> /\ pc'[q] = "unwinding" /\ exc'[q] # "none"
        \/ /\ pc[q] = "leavemount" /\ pc'[q] = "leavecontainer"
           /\ \/ Untagged(job[q]) /\ UNCHANGED ref
              \/ ~Untagged(job[q]) /\ Store(q, mnt[q]) /\ UNCHANGED anon
    BY <1>1, <1>15, <2>a DEF CommitContainer, Commits, Continue
  <2>2. Store(q, mnt[q]) => ref'[q] = ref[q] \/ job[q].oci
    BY <1>1, StoreFrame
  <2> QED
    BY <1>1, <2>a, <2>1, <2>2 DEF Owned, Untagged, Running
<1>16. CASE RemoveContainer(q)
  <2>1. /\ UNCHANGED <<ref, anon, job, excuse>> /\ Running(q)
        /\ "temp" \in open[q] => "temp" \in open'[q]
        /\ "sealing" \in open[q] => "sealing" \in open'[q]
        /\ \/ pc'[q] = "unwinding" /\ exc'[q] # "none"
           \/ pc[q] = "leavecontainer" /\ exc'[q] = "none" /\ exc[q] = "none"
              /\ pc'[q] = AfterContainer(job[q])
    BY <1>1, <1>16 DEF RemoveContainer, Closing, End, Manager, Continue, storeVars,
      workVars, Running
  <2>2. /\ AfterContainer(job[q]) \in {"return", "archive", "readkeys", "seal"}
        /\ job[q].cmd = "inject-signed" /\ Untagged(job[q]) =>
             AfterContainer(job[q]) = "readkeys"
    BY DEF AfterContainer, Finish, Untagged
  <2>3. job'[q] = job[q] /\ Untagged(job'[q]) = Untagged(job[q])
    BY <2>1
  <2> QED
    BY <1>1, <2>1, <2>2, <2>3 DEF Owned, Running
<1>17. CASE ReadKeys(q)
  <2>1. /\ UNCHANGED <<ref, anon, job, excuse>> /\ pc[q] = "readkeys" /\ pc'[q] = "seal"
        /\ open'[q] = open[q] \cup {"sealing"}
    BY <1>17 DEF ReadKeys, At, storeVars, workVars
  <2> QED
    BY <1>1, <2>1 DEF Owned, Untagged, Running
<1>18. CASE SealImage(q)
  <2>1. /\ UNCHANGED <<anon, job, excuse, open>> /\ pc[q] = "seal" /\ exc[q] = "none"
        /\ \/ pc'[q] = "unwinding" /\ UNCHANGED ref /\ exc'[q] # "none"
           \/ pc'[q] = AfterSeal(job[q]) /\ exc' = exc
              /\ Store(q, Sealed(SealSource(q), key[q]))
    BY <1>18 DEF SealImage, At
  <2>2. AfterSeal(job[q]) \in {"leavesealing", "return", "archive"}
    BY DEF AfterSeal, Finish
  <2>3. UNCHANGED ref \/ ref'[q] = ref[q] \/ job[q].oci
    BY <1>1, <2>1, StoreFrame
  <2> QED
    BY <1>1, <2>1, <2>2, <2>3 DEF Owned, Untagged, Running
<1>19. CASE StoreToArchive(q)
  <2>1. /\ UNCHANGED <<ref, anon, job, excuse, open, exc>> /\ pc[q] = "archive"
        /\ pc'[q] = "return" /\ Running(q) /\ Running(q)'
    BY <1>19 DEF StoreToArchive, At, Running
  <2> QED
    BY <1>1, <2>1 DEF Owned, Untagged, Running
<1>20. CASE CloseSealing(q)
  <2>1. /\ UNCHANGED <<ref, job, exc>> /\ Running(q)
        /\ "temp" \in open[q] => "temp" \in open'[q]
        /\ anon'[q] \in {anon[q], NoImage}
        /\ excuse'[q] \in {excuse[q], "warned"}
        /\ anon'[q] = NoImage \/ excuse'[q] = "warned"
        /\ \/ pc'[q] = "unwinding" /\ pc[q] = "unwinding" /\ exc'[q] # "none"
           \/ pc[q] = "leavesealing" /\ pc'[q] = Finish(job[q])
    BY <1>1, <1>20 DEF CloseSealing, Cleanup, Closing, End, Manager, Continue, Running
  <2>2. Finish(job[q]) \in {"return", "archive"}
    BY DEF Finish
  <2> QED
    BY <1>1, <2>1, <2>2 DEF Owned, Untagged, Running
<1>21. CASE CloseTemporary(q)
  <2>1. /\ UNCHANGED <<anon, job, exc, pc>> /\ Running(q)
        /\ "sealing" \in open[q] => "sealing" \in open'[q]
        /\ ref'[q] \in {ref[q], NoImage}
        /\ excuse'[q] \in {excuse[q], "warned"}
        /\ ref'[q] = NoImage \/ excuse'[q] = "warned"
        /\ pc[q] \in {"return", "unwinding"}
    BY <1>1, <1>21 DEF CloseTemporary, Cleanup, Closing, End, Manager, Running, Ref
  <2> QED
    BY <1>1, <2>1 DEF Owned, Untagged, Running
<1> QED
  BY <1>3, <1>4, <1>5, <1>6, <1>7, <1>9, <1>10, <1>11, <1>12, <1>13, <1>14, <1>15,
    <1>16, <1>17, <1>18, <1>19, <1>20, <1>21, WhoSteps DEF ActsOn, Step

\* The image stored under a random name, and the one inject-signed commits to
\* seal, go with the command that made them, however it ends.
THEOREM TemporariesGo ==
  ASSUME "rm" \notin Fault PROVE Spec => []TemporariesRemoved
<1>1. Init => OwnedInv
  BY DEF Init, OwnedInv, Owned, Running
<1>2. TypeInv /\ EndInv /\ OwnedInv /\ [Next]_vars => OwnedInv'
  BY OwnedStep DEF OwnedInv
<1>3. OwnedInv => TemporariesRemoved
  BY DEF OwnedInv, Owned, TemporariesRemoved
<1> QED
  BY <1>1, <1>2, <1>3, InitType, StepType, InitEnd, StepEnd, PTL DEF Spec
=============================================================================
