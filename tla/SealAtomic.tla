----------------------------- MODULE SealAtomic -----------------------------
(***************************************************************************)
(* What the signing and sealing commands promise, whatever happens inside: *)
(* each command stores one image, in one step, made from the image its     *)
(* source names and nothing else; or it stores nothing and does not        *)
(* report success, unless there was nothing to sign.                       *)
(***************************************************************************)
EXTENDS BootcImage

VARIABLES
  store,    \* the image each name refers to
  archive,  \* the image in each archive file
  task,     \* the command each process runs
  done      \* it has stored its result

atomicVars == <<store, archive, task, done>>

Init ==
  /\ store \in [Name -> {NoImage} \cup {Fresh(t) : t \in Tree}]
  /\ archive = [n \in Name |-> NoImage]
  /\ task = [p \in Proc |-> NoJob]
  /\ done = [p \in Proc |-> FALSE]

Begin(p, j) ==
  /\ task[p] = NoJob
  /\ task' = [task EXCEPT ![p] = j]
  /\ UNCHANGED <<store, archive, done>>

\* The one step at which a command has its effect.
Publish(p) ==
  LET j == task[p] IN
  /\ j # NoJob
  /\ ~done[p]
  /\ store[j.src] # NoImage
  /\ \E img \in Outcome(j, store[j.src]) :
       IF j.oci
         THEN archive' = [archive EXCEPT ![j.dst] = img] /\ UNCHANGED store
         ELSE store' = [store EXCEPT ![j.dst] = img] /\ UNCHANGED archive
  /\ done' = [done EXCEPT ![p] = TRUE]
  /\ UNCHANGED task

End(p) ==
  /\ task[p] # NoJob
  /\ task' = [task EXCEPT ![p] = NoJob]
  /\ done' = [done EXCEPT ![p] = FALSE]
  /\ UNCHANGED <<store, archive>>

Build(n, t) ==
  /\ store' = [store EXCEPT ![n] = Fresh(t)]
  /\ UNCHANGED <<archive, task, done>>

Next ==
  \/ \E p \in Proc : Publish(p) \/ End(p) \/ \E j \in Jobs : Begin(p, j)
  \/ \E n \in Name, t \in Tree : Build(n, t)

Spec == Init /\ [][Next]_atomicVars
=============================================================================
