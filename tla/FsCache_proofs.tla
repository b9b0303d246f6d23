--------------------------- MODULE FsCache_proofs ---------------------------
(***************************************************************************)
(* Proofs about FsCache: for any number of processes, names and objects,   *)
(* kills at any step and system calls that fail, an object.info stands     *)
(* only for whole and counted data, who reads a committed object reads it  *)
(* whole, and cache.size departs from what is there only where a removal,  *)
(* an update or an unlink fails, or eviction gives back too much.          *)
(***************************************************************************)
EXTENDS FsCache, FiniteSetTheorems, WellFoundedInduction, TLAPS

-----------------------------------------------------------------------------
(* The invariant.                                                          *)

\* The types of what the proofs are about.
CacheType ==
  /\ loc \in [Obj -> Place]
  /\ files \in [Obj -> SUBSET {"lock", "info"}]
  /\ data \in [Obj -> {"none", "part", "whole"}]
  /\ bytes \in [Obj -> Space \cup {0}]
  /\ readers \in [Obj -> SUBSET Proc]
  /\ writer \in [Obj -> Proc \cup {NoProc}]
  /\ pc \in [Proc -> Label]
  /\ want \in [Proc -> Name \cup {NoName}]
  /\ own \in [Proc -> Obj \cup {NoObj}]
  /\ acct \in [Obj -> Space \cup {0}]
  /\ DOMAIN list = Proc

\* Inside store, until the lock is closed.
StoreLabel ==
  {"fill", "account", "list", "visit", "retry", "commit", "rename",
   "undoinfo", "undosize", "discard", "unlock"} \cup Removing

\* What store holds the write lock of, and load a read lock.
Held ==
  \A p \in Proc :
    /\ pc[p] \in StoreLabel =>
         own[p] \in Obj /\ writer[own[p]] = p /\ want[p] \in Name
    /\ pc[p] = "reading" =>
         own[p] \in Obj /\ p \in readers[own[p]] /\ want[p] \in Name

\* A read lock belongs to a reader, and excludes a writer.
Readers ==
  \A o \in Obj :
    /\ \A p \in readers[o] : pc[p] = "reading" /\ own[p] = o
    /\ writer[o] # NoProc => readers[o] = {}

\* What _remove_lru removes is locked, not committed, and another object than
\* the one that is stored.
Evicting ==
  \A p \in Proc : pc[p] \in Removing =>
    /\ Entry(p).obj \in Obj \ {own[p]}
    /\ writer[Entry(p).obj] = p /\ "info" \notin files[Entry(p).obj]

\* store commits what is whole and counted, and not before.
Commits(p) ==
  /\ pc[p] \in {"fill", "account", "list", "visit", "retry", "commit",
                "undosize"} \cup Removing => "info" \notin files[own[p]]
  /\ pc[p] \in {"account", "list", "visit", "retry", "commit", "rename"}
               \cup Removing => data[own[p]] = "whole"
  /\ pc[p] \in {"commit", "rename", "undoinfo", "undosize"} =>
       acct[own[p]] = bytes[own[p]]

Committing == \A p \in Proc : Commits(p)

\* An object.info, wherever its directory is, stands for whole and counted data.
InfoStands ==
  \A o \in Obj : "info" \in files[o] => data[o] = "whole" /\ acct[o] = bytes[o]

\* What is read has an object.lock.
ReadIsLocked == \A p \in Proc : pc[p] = "reading" => "lock" \in files[own[p]]

LockInv == CacheType /\ Held /\ Readers /\ Evicting /\ Committing

CacheInv == LockInv /\ InfoStands /\ ReadIsLocked /\ ReaderSeesWhole

-----------------------------------------------------------------------------
(* The locks.                                                              *)

\* At first there is nothing.
LEMMA InitCache == Init => CacheInv
<1> SUFFICES ASSUME Init PROVE CacheInv
  OBVIOUS
<1>1. CacheType
  BY DEF Init, CacheType, Place, Label
<1>2. Held /\ Readers /\ Evicting /\ Committing
  BY DEF Init, Held, Readers, Evicting, Committing, Commits, StoreLabel, Removing
<1>3. InfoStands /\ ReadIsLocked /\ ReaderSeesWhole
  BY DEF Init, InfoStands, ReadIsLocked, ReaderSeesWhole
<1> QED
  BY <1>1, <1>2, <1>3 DEF CacheInv, LockInv

\* The steps that change nothing but a process's own place, or cache.info, and the
\* locks of a process that has left store.
LEMMA EnterLocks ==
  ASSUME LockInv, NEW p \in Proc,
         Enter(p) \/ Exit(p) \/ \E m \in Maximum : SetInfo(p, m)
  PROVE  LockInv'
<1>1. /\ UNCHANGED <<loc, files, data, bytes, readers, want, own, list, acct>>
      /\ \/ Goto(p, "idle") \/ Goto(p, "out") \/ UNCHANGED pc
      /\ writer' = writer \/ (pc[p] = "idle" /\ writer' = NoLocks(p, writer))
      /\ pc[p] \in {"out", "idle"}
  BY DEF Enter, Exit, SetInfo, listVars, objVars
<1> USE DEF LockInv, CacheType
<1>2. pc' \in [Proc -> Label] /\ pc'[p] \in {"out", "idle"}
      /\ \A q \in Proc \ {p} : pc'[q] = pc[q]
  BY <1>1 DEF Goto, Label
<1>3. writer' \in [Obj -> Proc \cup {NoProc}]
      /\ \A o \in Obj : writer'[o] = writer[o] \/ (writer[o] = p /\ writer'[o] = NoProc)
  BY <1>1 DEF NoLocks
<1>4. CacheType'
  BY <1>1, <1>2, <1>3
<1>5. Held'
  BY <1>1, <1>2, <1>3 DEF Held, StoreLabel, Removing
<1>6. Readers'
  BY <1>1, <1>2, <1>3 DEF Readers
<1>7. Evicting'
  BY <1>1, <1>2, <1>3 DEF Evicting, Entry, Removing
<1>8. Committing'
  BY <1>1, <1>2 DEF Committing, Commits, Removing
<1> QED
  BY <1>4, <1>5, <1>6, <1>7, <1>8

\* A new object was nobody's.
LEMMA BeginStoreLocks ==
  ASSUME LockInv, NEW p \in Proc, NEW n \in Name, NEW b \in Space,
         BeginStore(p, n, b)
  PROVE  LockInv'
<1>1. PICK o \in Unused :
       /\ loc' = [loc EXCEPT ![o] = IF compatible THEN "uuid" ELSE "stage"]
       /\ files' = [files EXCEPT ![o] = {"lock"}]
       /\ data' = [data EXCEPT ![o] = "part"]
       /\ bytes' = [bytes EXCEPT ![o] = b]
       /\ writer' = [writer EXCEPT ![o] = p]
       /\ own' = [own EXCEPT ![p] = o]
  BY DEF BeginStore
<1>2. /\ pc[p] = "idle" /\ Goto(p, "fill") /\ want' = [want EXCEPT ![p] = n]
      /\ UNCHANGED <<readers, list, acct>>
  BY DEF BeginStore, listVars
<1>3. o \in Obj /\ writer[o] = NoProc /\ \A q \in Proc : own[q] # o
  BY DEF Unused
<1>4. readers[o] = {}
  BY <1>3 DEF LockInv, CacheType, Readers
<1>5. pc' \in [Proc -> Label] /\ pc'[p] = "fill"
  BY <1>2 DEF LockInv, CacheType, Goto, Label
<1>6. CacheType'
  BY <1>1, <1>2, <1>3, <1>5 DEF LockInv, CacheType, Place
<1> USE DEF LockInv, CacheType, Goto
<1>7. Held'
  BY <1>1, <1>2, <1>3 DEF Held, StoreLabel
<1>8. Readers'
  BY <1>1, <1>2, <1>3, <1>4 DEF Readers
<1>9. Evicting'
  BY <1>1, <1>2, <1>3, <1>5, CacheAssumption DEF Evicting, Entry, Removing
<1>10. Committing'
  BY <1>1, <1>2, <1>3, <1>5 DEF Committing, Commits, Removing, Held, StoreLabel
<1> QED
  BY <1>6, <1>7, <1>8, <1>9, <1>10

\* Two processes never hold the lock of one object.
LEMMA LocksApart ==
  ASSUME LockInv, NEW p \in Proc, NEW o \in Obj, writer[o] = p,
         NEW q \in Proc \ {p}
  PROVE  /\ pc[q] \in StoreLabel => own[q] # o
         /\ pc[q] \in Removing => Entry(q).obj # o
         /\ p \notin readers[o] /\ q \notin readers[o]
BY CacheAssumption DEF LockInv, Held, Evicting, Readers, CacheType

\* The caller fills the object of its own process.
LEMMA FillLocks ==
  ASSUME LockInv, NEW p \in Proc, Fill(p)
  PROVE  LockInv'
<1>1. /\ pc[p] = "fill"
      /\ UNCHANGED <<loc, files, bytes, readers, writer, want, own, list, acct>>
      /\ \/ data' = [data EXCEPT ![own[p]] = "whole"]
         \/ data' = data
      /\ \/ Goto(p, "discard")
         \/ Goto(p, "account") /\ data' = [data EXCEPT ![own[p]] = "whole"]
  BY DEF Fill, listVars
<1> USE DEF LockInv, CacheType, Goto
<1>2. own[p] \in Obj /\ "info" \notin files[own[p]]
  BY <1>1 DEF Held, Committing, Commits, StoreLabel
<1>3. pc'[p] \in {"discard", "account"} /\ pc' \in [Proc -> Label]
  BY <1>1 DEF Label
<1>4. CacheType'
  BY <1>1, <1>3
<1>5. Held' /\ Readers' /\ Evicting'
  BY <1>1, <1>3 DEF Held, Readers, Evicting, Entry, StoreLabel, Removing
<1>6. \A q \in Proc \ {p} :
        pc'[q] = pc[q] /\ (pc[q] \in StoreLabel => data'[own[q]] = data[own[q]])
  <2> SUFFICES ASSUME NEW q \in Proc \ {p}
               PROVE  /\ pc'[q] = pc[q]
                      /\ pc[q] \in StoreLabel => data'[own[q]] = data[own[q]]
    OBVIOUS
  <2>1. pc'[q] = pc[q]
    BY <1>1
  <2>2. writer[own[p]] = p
    BY <1>1 DEF Held, StoreLabel
  <2>3. pc[q] \in StoreLabel => own[q] # own[p]
    BY <1>2, <2>2, LocksApart
  <2> QED
    BY <1>1, <2>1, <2>3 DEF Held
<1>7. \A q \in Proc \ {p} : Commits(q)'
  BY <1>1, <1>2, <1>6 DEF Committing, Commits, Removing, StoreLabel
<1>8. Commits(p)'
  BY <1>1, <1>2, <1>3 DEF Committing, Commits, Removing
<1>9. Committing'
  BY <1>7, <1>8 DEF Committing
<1> QED
  BY <1>4, <1>5, <1>9

\* The update of cache.size counts the object of its own process.
LEMMA AccountLocks ==
  ASSUME LockInv, NEW p \in Proc, TryAccount(p) \/ RetryAccount(p)
  PROVE  LockInv'
<1>1. /\ pc[p] \in {"account", "retry"}
      /\ UNCHANGED <<loc, files, data, bytes, readers, writer, want, own, list>>
      /\ \/ acct' = acct /\ (Goto(p, "discard") \/ Goto(p, "list"))
         \/ /\ acct' = [acct EXCEPT ![own[p]] = bytes[own[p]]]
            /\ Goto(p, "commit")
  BY DEF TryAccount, RetryAccount, Account, objVars, listVars
<1> USE DEF LockInv, CacheType, Goto
<1>2. own[p] \in Obj /\ "info" \notin files[own[p]] /\ data[own[p]] = "whole"
  BY <1>1 DEF Held, Committing, Commits, StoreLabel
<1>3. pc'[p] \in {"discard", "list", "commit"} /\ pc' \in [Proc -> Label]
  BY <1>1 DEF Label
<1>4. CacheType'
  BY <1>1, <1>2, <1>3
<1>5. Held' /\ Readers' /\ Evicting'
  BY <1>1, <1>3 DEF Held, Readers, Evicting, Entry, StoreLabel, Removing
<1>6. \A q \in Proc \ {p} :
        pc'[q] = pc[q] /\ (pc[q] \in StoreLabel => acct'[own[q]] = acct[own[q]])
  <2> SUFFICES ASSUME NEW q \in Proc \ {p}
               PROVE  /\ pc'[q] = pc[q]
                      /\ pc[q] \in StoreLabel => acct'[own[q]] = acct[own[q]]
    OBVIOUS
  <2>1. pc'[q] = pc[q]
    BY <1>1
  <2>2. writer[own[p]] = p
    BY <1>1 DEF Held, StoreLabel
  <2>3. pc[q] \in StoreLabel => own[q] # own[p]
    BY <1>2, <2>2, LocksApart
  <2> QED
    BY <1>1, <2>1, <2>3 DEF Held
<1>7. \A q \in Proc \ {p} : Commits(q)'
  BY <1>1, <1>2, <1>6 DEF Committing, Commits, Removing, StoreLabel
<1>8. Commits(p)'
  BY <1>1, <1>2, <1>3 DEF Committing, Commits, Removing
<1>9. Committing'
  BY <1>7, <1>8 DEF Committing
<1> QED
  BY <1>4, <1>5, <1>9

\* Looking through the list changes no object.
LEMMA VisitLocks ==
  ASSUME LockInv, NEW p \in Proc,
         ListObjects(p) \/ VisitSkip(p) \/ VisitFails(p) \/ VisitEnd(p)
  PROVE  LockInv'
<1>1. /\ pc[p] \in {"list", "visit"}
      /\ UNCHANGED <<objVars, want, own, acct>>
      /\ \E l \in {"visit", "discard", "retry"} : Goto(p, l) \/ UNCHANGED pc
  BY DEF ListObjects, VisitSkip, VisitFails, VisitEnd
<1>2. DOMAIN list' = DOMAIN list /\ \A q \in Proc \ {p} : list'[q] = list[q]
  BY DEF ListObjects, VisitSkip, VisitFails, VisitEnd, EndList, LockInv, CacheType
<1> USE DEF LockInv, CacheType, Goto
<1>3. pc'[p] \in {"list", "visit", "discard", "retry"} /\ pc' \in [Proc -> Label]
  BY <1>1 DEF Label
<1>4. pc'[p] # "list" \/ pc[p] = "list"
  BY <1>1
<1>5. \A q \in Proc \ {p} : pc'[q] = pc[q]
  BY <1>1
<1>6. CacheType'
  BY <1>1, <1>2, <1>3 DEF objVars
<1>7. Held' /\ Readers'
  BY <1>1, <1>3, <1>5 DEF Held, Readers, StoreLabel, Removing, objVars
<1>8. Evicting'
  BY <1>1, <1>2, <1>3, <1>5 DEF Evicting, Entry, Removing, objVars
<1>9. Committing'
  BY <1>1, <1>3, <1>5 DEF Committing, Commits, Removing, objVars
<1> QED
  BY <1>6, <1>7, <1>8, <1>9

\* What _remove_lru locks is nobody's, and not the object that is stored.
LEMMA VisitRemoveLocks ==
  ASSUME LockInv, NEW p \in Proc, VisitRemove(p)
  PROVE  LockInv'
<1>1. PICK o \in Found(p) :
        /\ ~Locked(o) /\ ~UsedSince(p, o)
        /\ writer' = [writer EXCEPT ![o] = p]
        /\ files' = [files EXCEPT ![o] = @ \ {"info"}]
  BY DEF VisitRemove, Uncommit
<1>2. /\ pc[p] = "visit" /\ Goto(p, "rmdata")
      /\ UNCHANGED <<loc, data, bytes, readers, want, own, list, acct>>
  BY DEF VisitRemove
<1>3. o \in Obj /\ o = Entry(p).obj /\ readers[o] = {} /\ writer[o] = NoProc
  BY <1>1 DEF Found, At, Locked, UsedSince
<1> USE DEF LockInv, CacheType, Goto
<1>4. own[p] \in Obj /\ writer[own[p]] = p /\ o # own[p]
  BY <1>2, <1>3, CacheAssumption DEF Held, StoreLabel, Removing
<1>5. pc'[p] = "rmdata" /\ pc' \in [Proc -> Label]
  BY <1>2 DEF Label
<1>6. CacheType'
  BY <1>1, <1>2, <1>3, <1>5
<1>7. Held'
  BY <1>1, <1>2, <1>3, <1>4, <1>5, CacheAssumption DEF Held, StoreLabel, Removing
<1>8. Readers'
  BY <1>1, <1>2, <1>3, <1>5 DEF Readers
<1>9. Evicting'
  BY <1>1, <1>2, <1>3, <1>4, <1>5, CacheAssumption DEF Evicting, Entry, Removing
<1>10. Committing'
  BY <1>1, <1>2, <1>3, <1>4, <1>5 DEF Committing, Commits, Removing
<1> QED
  BY <1>6, <1>7, <1>8, <1>9, <1>10

\* rmtree of the data of an object that p evicts.
LEMMA RemoveDataLocks ==
  ASSUME LockInv, NEW p \in Proc, RemoveData(p)
  PROVE  LockInv'
<1> DEFINE v == Entry(p).obj
<1>1. /\ pc[p] = "rmdata" /\ Goto(p, "rmlock")
      /\ data' = [data EXCEPT ![v] = "part"]
      /\ UNCHANGED <<loc, files, bytes, readers, writer, want, own, list, acct>>
  BY DEF RemoveData, listVars
<1>2. v \in Obj /\ writer[v] = p /\ v # own[p]
  BY <1>1 DEF LockInv, Evicting, Removing
<1>3. \A q \in Proc : pc[q] \in StoreLabel => own[q] # v
  BY <1>2, LocksApart
<1> HIDE DEF v
<1> USE DEF LockInv, CacheType, Goto
<1>4. pc'[p] = "rmlock" /\ pc' \in [Proc -> Label]
  BY <1>1 DEF Label
<1>5. CacheType'
  BY <1>1, <1>2, <1>4
<1>6. Held' /\ Readers' /\ Evicting'
  BY <1>1, <1>4 DEF Held, Readers, Evicting, Entry, StoreLabel, Removing
<1>7. Committing'
  BY <1>1, <1>2, <1>3, <1>4 DEF Committing, Commits, Removing, StoreLabel
<1> QED
  BY <1>5, <1>6, <1>7

\* Clearing an object that p holds the lock of, and does not store.
LEMMA RemoveLockLocks ==
  ASSUME LockInv, NEW p \in Proc, RemoveLock(p)
  PROVE  LockInv'
<1> DEFINE v == Entry(p).obj
<1>1. /\ pc[p] = "rmlock" /\ Goto(p, "rmdir")
      /\ UNCHANGED <<loc, readers, writer, want, own, list, acct>>
  BY DEF RemoveLock, listVars
<1>2. /\ files' = [files EXCEPT ![v] = {}]
      /\ data' = [data EXCEPT ![v] = "none"]
      /\ bytes' = [bytes EXCEPT ![v] = 0]
  BY DEF RemoveLock, Clear
<1>3. v \in Obj /\ writer[v] = p /\ v # own[p]
  BY <1>1 DEF LockInv, Evicting, Removing
<1>4. \A q \in Proc : pc[q] \in StoreLabel => own[q] # v
  BY <1>3, LocksApart
<1> HIDE DEF v
<1> USE DEF LockInv, CacheType, Goto
<1>5. pc'[p] = "rmdir" /\ pc' \in [Proc -> Label]
  BY <1>1 DEF Label
<1>6. CacheType'
  BY <1>1, <1>2, <1>3, <1>5
<1>7. Held' /\ Readers'
  BY <1>1, <1>5 DEF Held, Readers, StoreLabel, Removing
<1>8. Evicting'
  BY <1>1, <1>2, <1>3, <1>5 DEF Evicting, Entry, Removing
<1>9. Committing'
  BY <1>1, <1>2, <1>3, <1>4, <1>5 DEF Committing, Commits, Removing, StoreLabel
<1> QED
  BY <1>6, <1>7, <1>8, <1>9

\* What is taken out of cache.size, or lost, is the count of one object.
LEMMA CountDropped ==
  ASSUME NEW p, NEW o, NEW n, GiveBack(p, o, n) \/ Lose(o)
  PROVE  acct' = [acct EXCEPT ![o] = 0]
BY DEF GiveBack, Lose

\* What is given up is the count of what p removes, if anything.
LEMMA AbandonDrops ==
  ASSUME NEW p, Abandon(p)
  PROVE  \/ UNCHANGED acct
         \/ /\ pc[p] \in Removing \ {"rmdata"}
            /\ acct' = [acct EXCEPT ![Entry(p).obj] = 0]
BY DEF Abandon, Lose

\* rmdir moves directories.
LEMMA RemoveDirLocks ==
  ASSUME LockInv, NEW p \in Proc, RemoveDir(p)
  PROVE  LockInv'
<1> DEFINE d == IF Entry(p).path = "uuid" THEN {Entry(p).obj} ELSE At(Entry(p).path)
<1>1. /\ pc[p] = "rmdir" /\ Goto(p, "deaccount")
      /\ loc' = [x \in Obj |-> IF x \in d THEN "gone" ELSE loc[x]]
      /\ UNCHANGED <<files, data, bytes, readers, writer, want, own, list, acct>>
  BY DEF RemoveDir, listVars
<1> HIDE DEF d
<1> USE DEF LockInv, CacheType, Goto
<1>2. pc'[p] = "deaccount" /\ pc' \in [Proc -> Label]
  BY <1>1 DEF Label
<1>3. CacheType'
  <2>1. loc' \in [Obj -> Place]
    BY <1>1 DEF Place
  <2> QED
    BY <1>1, <1>2, <2>1
<1>4. Held' /\ Readers' /\ Evicting'
  BY <1>1, <1>2 DEF Held, Readers, Evicting, Entry, StoreLabel, Removing
<1>5. Committing'
  BY <1>1, <1>2 DEF Committing, Commits, Removing
<1> QED
  BY <1>3, <1>4, <1>5

\* A removal that fails releases the lock of what it removed.
LEMMA RemoveFailsLocks ==
  ASSUME LockInv, NEW p \in Proc, RemoveFails(p)
  PROVE  LockInv'
<1> DEFINE v == Entry(p).obj
<1>1. /\ pc[p] \in Removing /\ Goto(p, "discard")
      /\ writer' = [writer EXCEPT ![v] = NoProc]
      /\ list' = [list EXCEPT ![p] = <<>>]
      /\ UNCHANGED <<loc, files, data, bytes, readers, want, own>>
      /\ acct' = acct \/ acct' = [acct EXCEPT ![v] = 0]
  BY AbandonDrops DEF RemoveFails, EndList
<1>2. v \in Obj /\ writer[v] = p /\ v # own[p] /\ "info" \notin files[v]
  BY <1>1 DEF LockInv, Evicting
<1>3. \A q \in Proc \ {p} : /\ pc[q] \in StoreLabel => own[q] # v
                            /\ pc[q] \in Removing => Entry(q).obj # v
  BY <1>2, LocksApart
<1> HIDE DEF v
<1> USE DEF LockInv, CacheType, Goto
<1>4. pc'[p] = "discard" /\ pc' \in [Proc -> Label]
  BY <1>1 DEF Label
<1>5. own[p] \in Obj /\ writer[own[p]] = p
  BY <1>1 DEF Held, StoreLabel, Removing
<1>6. CacheType'
  BY <1>1, <1>2, <1>4
<1>7. Held'
  BY <1>1, <1>2, <1>3, <1>4, <1>5 DEF Held, StoreLabel, Removing
<1>8. Readers'
  BY <1>1, <1>2, <1>4 DEF Readers, Removing
<1>9. Evicting'
  BY <1>1, <1>2, <1>3, <1>4 DEF Evicting, Entry, Removing
<1>10. Committing'
  <2>1. \A q \in Proc : pc[q] \in StoreLabel => acct'[own[q]] = acct[own[q]]
    BY <1>1, <1>2, <1>3 DEF Held
  <2> QED
    BY <1>1, <1>4, <2>1 DEF Committing, Commits, Removing, StoreLabel
<1> QED
  BY <1>6, <1>7, <1>8, <1>9, <1>10

\* The lock of what was removed is released; the list goes on or ends.
LEMMA DeaccountLocks ==
  ASSUME LockInv, NEW p \in Proc, Deaccount(p)
  PROVE  LockInv'
<1> DEFINE v == Entry(p).obj
<1>1. /\ pc[p] = "deaccount" /\ Goto(p, "visit")
      /\ acct' = [acct EXCEPT ![v] = 0]
      /\ writer' = [writer EXCEPT ![v] = NoProc]
      /\ UNCHANGED <<loc, files, data, bytes, readers, want, own>>
  BY CountDropped DEF Deaccount
<1>2. DOMAIN list' = DOMAIN list /\ \A q \in Proc \ {p} : list'[q] = list[q]
  BY DEF Deaccount, LockInv, CacheType
<1>3. v \in Obj /\ writer[v] = p /\ v # own[p] /\ "info" \notin files[v]
  BY <1>1 DEF LockInv, Evicting, Removing
<1>4. \A q \in Proc \ {p} : /\ pc[q] \in StoreLabel => own[q] # v
                            /\ pc[q] \in Removing => Entry(q).obj # v
  BY <1>3, LocksApart
<1> HIDE DEF v
<1> USE DEF LockInv, CacheType, Goto
<1>5. pc'[p] = "visit" /\ pc' \in [Proc -> Label]
  BY <1>1 DEF Label
<1>6. own[p] \in Obj /\ writer[own[p]] = p
  BY <1>1 DEF Held, StoreLabel, Removing
<1>7. CacheType'
  BY <1>1, <1>2, <1>3, <1>5
<1>8. Held'
  BY <1>1, <1>3, <1>4, <1>5, <1>6 DEF Held, StoreLabel, Removing
<1>9. Readers'
  BY <1>1, <1>3, <1>5 DEF Readers
<1>10. Evicting'
  BY <1>1, <1>2, <1>3, <1>4, <1>5 DEF Evicting, Entry, Removing
<1>11. Committing'
  <2>1. \A q \in Proc : pc[q] \in StoreLabel => acct'[own[q]] = acct[own[q]]
    BY <1>1, <1>3, <1>4 DEF Held
  <2> QED
    BY <1>1, <1>5, <2>1 DEF Committing, Commits, Removing, StoreLabel
<1> QED
  BY <1>7, <1>8, <1>9, <1>10, <1>11

\* object.info is written or unlinked in the object of its own process.
LEMMA InfoLocks ==
  ASSUME LockInv, NEW p \in Proc, CommitInfo(p) \/ UndoInfo(p)
  PROVE  LockInv'
<1>1. /\ UNCHANGED <<loc, data, bytes, readers, writer, own, list, acct>>
      /\ UNCHANGED want
      /\ \/ /\ pc[p] = "commit" /\ Goto(p, "rename")
            /\ files' = [files EXCEPT ![own[p]] = @ \cup {"info"}]
         \/ /\ pc[p] = "undoinfo" /\ Goto(p, "undosize")
            /\ files' = [files EXCEPT ![own[p]] = @ \ {"info"}]
  BY DEF CommitInfo, UndoInfo, Uncommit, listVars
<1> USE DEF LockInv, CacheType, Goto
<1>2. own[p] \in Obj /\ writer[own[p]] = p
  BY <1>1 DEF Held, StoreLabel
<1>3. pc'[p] \in {"rename", "undosize"} /\ pc' \in [Proc -> Label]
  BY <1>1 DEF Label
<1>4. \A q \in Proc \ {p} : /\ pc'[q] = pc[q]
                            /\ pc[q] \in StoreLabel => own[q] # own[p]
                            /\ pc[q] \in Removing => Entry(q).obj # own[p]
  BY <1>1, <1>2, LocksApart
<1>5. CacheType'
  BY <1>1, <1>2, <1>3
<1>6. Held'
  BY <1>1, <1>3 DEF Held, StoreLabel, Removing
<1>7. Readers'
  BY <1>1, <1>3 DEF Readers
<1>8. Evicting'
  <2>1. \A q \in Proc : pc'[q] \in Removing =>
          q # p /\ pc[q] \in Removing /\ Entry(q)' = Entry(q)
    BY <1>1, <1>3 DEF Removing, Entry
  <2>2. \A q \in Proc \ {p} : pc[q] \in Removing =>
          files'[Entry(q).obj] = files[Entry(q).obj]
    BY <1>1, <1>2, <1>4 DEF Evicting
  <2>3. SUFFICES ASSUME NEW q \in Proc, pc'[q] \in Removing
                 PROVE  /\ Entry(q)'.obj \in Obj \ {own'[q]}
                        /\ writer'[Entry(q)'.obj] = q
                        /\ "info" \notin files'[Entry(q)'.obj]
    BY DEF Evicting
  <2>4. q # p /\ pc[q] \in Removing /\ Entry(q)' = Entry(q)
    BY <2>1, <2>3
  <2> QED
    BY <1>1, <2>2, <2>4 DEF Evicting
<1>9. \A q \in Proc \ {p} : Commits(q)'
  <2>1. \A q \in Proc \ {p} :
          pc[q] \in StoreLabel => files'[own[q]] = files[own[q]]
    BY <1>1, <1>2, <1>4 DEF Held
  <2> QED
    BY <1>1, <1>4, <2>1 DEF Committing, Commits, Removing, StoreLabel
<1>10. Commits(p)'
  BY <1>1, <1>2, <1>3 DEF Committing, Commits, Removing
<1> QED
  BY <1>5, <1>6, <1>7, <1>8, <1>9, <1>10 DEF Committing

\* What Rename does to the directories.
LEMMA RenameMoves ==
  ASSUME NEW p \in Proc, Rename(p)
  PROVE  \/ /\ \A o \in At(want[p]) : Empty(o)
            /\ loc' = [o \in Obj |-> IF o = own[p] THEN want[p]
                                     ELSE IF loc[o] = want[p] THEN "gone"
                                     ELSE loc[o]]
            /\ Goto(p, "unlock")
         \/ UNCHANGED loc /\ Goto(p, "undoinfo")
<1>1. CASE \A o \in At(want[p]) : Empty(o)
  <2>1. /\ loc' = [o \in Obj |-> CASE o = own[p] -> want[p]
                                   [] o # own[p] /\ loc[o] = want[p] -> "gone"
                                   [] OTHER -> loc[o]]
        /\ Goto(p, "unlock")
    BY <1>1 DEF Rename
  <2> QED
    BY <1>1, <2>1
<1>2. CASE ~ \A o \in At(want[p]) : Empty(o)
  BY <1>2 DEF Rename
<1> QED
  BY <1>1, <1>2

\* Nothing of the object changes but its place.
LEMMA RenameLocks ==
  ASSUME LockInv, NEW p \in Proc, CommitFails(p) \/ Rename(p)
  PROVE  LockInv'
<1>1. /\ pc[p] \in {"commit", "rename"}
      /\ UNCHANGED <<files, data, bytes, readers, writer, want, own, list, acct>>
  BY DEF CommitFails, Rename, objVars, listVars
<1> USE DEF LockInv, CacheType, Goto
<1>2. want[p] \in Name
  BY <1>1 DEF Held, StoreLabel
<1>3. /\ loc' \in [Obj -> Place]
      /\ Goto(p, "unlock") \/ Goto(p, "undoinfo")
  BY <1>2, RenameMoves DEF CommitFails, objVars, Place
<1>4. pc'[p] \in {"unlock", "undoinfo"} /\ pc' \in [Proc -> Label]
  BY <1>3 DEF Label
<1>5. CacheType'
  BY <1>1, <1>3, <1>4
<1>6. Held'
  BY <1>1, <1>3, <1>4 DEF Held, StoreLabel, Removing
<1>7. Readers'
  BY <1>1, <1>3, <1>4 DEF Readers
<1>8. Evicting'
  BY <1>1, <1>3, <1>4 DEF Evicting, Entry, Removing
<1>9. Committing'
  BY <1>1, <1>3, <1>4 DEF Committing, Commits, Removing
<1> QED
  BY <1>5, <1>6, <1>7, <1>8, <1>9

\* What is not committed is not counted any more.
LEMMA UndoSizeLocks ==
  ASSUME LockInv, NEW p \in Proc, UndoSize(p) \/ UndoFails(p)
  PROVE  LockInv'
<1>1. /\ pc[p] \in {"undoinfo", "undosize"}
      /\ UNCHANGED <<loc, files, data, bytes, readers, writer, want, own, list>>
      /\ acct' = acct \/ acct' = [acct EXCEPT ![own[p]] = 0]
      /\ Goto(p, "discard") \/ Goto(p, "unlock")
  BY CountDropped DEF UndoSize, UndoFails, Leave, objVars, listVars
<1> USE DEF LockInv, CacheType, Goto
<1>2. own[p] \in Obj /\ writer[own[p]] = p
  BY <1>1 DEF Held, StoreLabel
<1>3. pc'[p] \in {"discard", "unlock"} /\ pc' \in [Proc -> Label]
  BY <1>1 DEF Label
<1>4. CacheType'
  BY <1>1, <1>2, <1>3
<1>5. Held' /\ Readers' /\ Evicting'
  BY <1>1, <1>3 DEF Held, Readers, Evicting, Entry, StoreLabel, Removing
<1>6. \A q \in Proc \ {p} : pc[q] \in StoreLabel => acct'[own[q]] = acct[own[q]]
  BY <1>1, <1>2, LocksApart DEF Held
<1>7. Committing'
  BY <1>1, <1>3, <1>6 DEF Committing, Commits, Removing, StoreLabel
<1> QED
  BY <1>4, <1>5, <1>7

\* The directory that p still holds the lock of is removed.
LEMMA DiscardLocks ==
  ASSUME LockInv, NEW p \in Proc, Discard(p)
  PROVE  LockInv'
<1>1. /\ pc[p] = "discard" /\ Goto(p, "unlock")
      /\ UNCHANGED <<readers, writer, want, own, list>>
      /\ acct' = [acct EXCEPT ![own[p]] = 0]
      /\ loc' = [loc EXCEPT ![own[p]] = "gone"]
  BY DEF Discard, Lose, listVars
<1>2. /\ files' = [files EXCEPT ![own[p]] = {}]
      /\ data' = [data EXCEPT ![own[p]] = "none"]
      /\ bytes' = [bytes EXCEPT ![own[p]] = 0]
  BY DEF Discard, Clear
<1> USE DEF LockInv, CacheType, Goto
<1>3. own[p] \in Obj /\ writer[own[p]] = p
  BY <1>1 DEF Held, StoreLabel
<1>4. pc'[p] = "unlock" /\ pc' \in [Proc -> Label]
  BY <1>1 DEF Label
<1>5. CacheType'
  BY <1>1, <1>2, <1>3, <1>4 DEF Place
<1>6. Held'
  BY <1>1, <1>4 DEF Held, StoreLabel, Removing
<1>7. Readers'
  BY <1>1, <1>4 DEF Readers
<1>8. Evicting'
  BY <1>1, <1>2, <1>3, <1>4 DEF Evicting, Entry, Removing
<1>9. \A q \in Proc \ {p} : pc[q] \in StoreLabel =>
        /\ files'[own[q]] = files[own[q]] /\ data'[own[q]] = data[own[q]]
        /\ bytes'[own[q]] = bytes[own[q]] /\ acct'[own[q]] = acct[own[q]]
  BY <1>1, <1>2, <1>3, LocksApart DEF Held
<1>10. Committing'
  BY <1>1, <1>4, <1>9 DEF Committing, Commits, Removing, StoreLabel
<1> QED
  BY <1>5, <1>6, <1>7, <1>8, <1>10

\* What could not be removed is left with its lock.
LEMMA DiscardFailsLocks ==
  ASSUME LockInv, NEW p \in Proc, DiscardFails(p)
  PROVE  LockInv'
<1>1. /\ pc[p] = "discard" /\ Goto(p, "idle")
      /\ UNCHANGED <<loc, bytes, readers, writer, list>>
      /\ own' = [own EXCEPT ![p] = NoObj]
      /\ want' = [want EXCEPT ![p] = NoName]
      /\ \/ UNCHANGED <<files, data, acct>>
         \/ /\ files' = [files EXCEPT ![own[p]] = @ \ {"info"}]
            /\ data' = [data EXCEPT ![own[p]] = "part"]
            /\ acct' = [acct EXCEPT ![own[p]] = 0]
  BY DEF DiscardFails, Left, Uncommit, Lose, listVars
<1> USE DEF LockInv, CacheType, Goto
<1>2. own[p] \in Obj /\ writer[own[p]] = p
  BY <1>1 DEF Held, StoreLabel
<1>3. pc'[p] = "idle" /\ pc' \in [Proc -> Label]
  BY <1>1 DEF Label
<1>4. CacheType'
  BY <1>1, <1>2, <1>3
<1>5. \A q \in Proc \ {p} :
        /\ pc'[q] = pc[q] /\ own'[q] = own[q] /\ want'[q] = want[q]
        /\ pc[q] \in StoreLabel => own[q] # own[p]
        /\ pc[q] \in Removing => Entry(q).obj # own[p]
  BY <1>1, <1>2, LocksApart
<1>6. Held'
  BY <1>1, <1>3, <1>5 DEF Held, StoreLabel, Removing
<1>7. Readers'
  BY <1>1, <1>3, <1>5 DEF Readers
<1>8. Evicting'
  <2>1. \A q \in Proc : pc'[q] \in Removing =>
          q # p /\ pc[q] \in Removing /\ Entry(q)' = Entry(q)
    BY <1>1, <1>3 DEF Removing, Entry
  <2>2. \A q \in Proc \ {p} : pc[q] \in Removing =>
          files'[Entry(q).obj] = files[Entry(q).obj]
    BY <1>1, <1>2, <1>5 DEF Evicting
  <2>3. SUFFICES ASSUME NEW q \in Proc, pc'[q] \in Removing
                 PROVE  /\ Entry(q)'.obj \in Obj \ {own'[q]}
                        /\ writer'[Entry(q)'.obj] = q
                        /\ "info" \notin files'[Entry(q)'.obj]
    BY DEF Evicting
  <2>4. q # p /\ pc[q] \in Removing /\ Entry(q)' = Entry(q)
    BY <2>1, <2>3
  <2> QED
    BY <1>1, <1>5, <2>2, <2>4 DEF Evicting
<1>9. \A q \in Proc \ {p} : pc[q] \in StoreLabel =>
        /\ files'[own[q]] = files[own[q]] /\ data'[own[q]] = data[own[q]]
        /\ acct'[own[q]] = acct[own[q]]
  BY <1>1, <1>2, <1>5 DEF Held
<1>10. Committing'
  BY <1>1, <1>3, <1>5, <1>9 DEF Committing, Commits, Removing, StoreLabel
<1> QED
  BY <1>4, <1>6, <1>7, <1>8, <1>10

\* The lock is closed.
LEMMA UnlockLocks ==
  ASSUME LockInv, NEW p \in Proc, Unlock(p)
  PROVE  LockInv'
<1>1. /\ pc[p] = "unlock" /\ Goto(p, "idle")
      /\ UNCHANGED <<loc, files, data, bytes, readers, list, acct>>
      /\ writer' = [writer EXCEPT ![own[p]] = NoProc]
      /\ own' = [own EXCEPT ![p] = NoObj]
      /\ want' = [want EXCEPT ![p] = NoName]
  BY DEF Unlock, Left, listVars
<1> USE DEF LockInv, CacheType, Goto
<1>2. own[p] \in Obj /\ writer[own[p]] = p
  BY <1>1 DEF Held, StoreLabel
<1>3. pc'[p] = "idle" /\ pc' \in [Proc -> Label]
  BY <1>1 DEF Label
<1>4. CacheType'
  BY <1>1, <1>2, <1>3
<1>5. \A q \in Proc \ {p} :
        /\ pc'[q] = pc[q] /\ own'[q] = own[q] /\ want'[q] = want[q]
        /\ pc[q] \in StoreLabel => own[q] # own[p]
        /\ pc[q] \in Removing => Entry(q).obj # own[p]
  BY <1>1, <1>2, LocksApart
<1>6. Held'
  BY <1>1, <1>2, <1>3, <1>5 DEF Held, StoreLabel, Removing
<1>7. Readers'
  BY <1>1, <1>2, <1>3 DEF Readers
<1>8. Evicting'
  BY <1>1, <1>2, <1>3, <1>5 DEF Evicting, Entry, Removing
<1>9. Committing'
  BY <1>1, <1>3, <1>5 DEF Committing, Commits, Removing
<1> QED
  BY <1>4, <1>6, <1>7, <1>8, <1>9

\* A reader takes a lock nobody writes under.
LEMMA LoadLocks ==
  ASSUME LockInv, NEW p \in Proc, NEW n \in Name, Load(p, n)
  PROVE  LockInv'
<1>1. PICK o \in At(n) :
        /\ "lock" \in files[o] /\ writer[o] = NoProc
        /\ readers' = [readers EXCEPT ![o] = @ \cup {p}]
        /\ own' = [own EXCEPT ![p] = o]
  BY DEF Load
<1>2. /\ pc[p] = "idle" /\ Goto(p, "reading") /\ want' = [want EXCEPT ![p] = n]
      /\ UNCHANGED <<loc, files, data, bytes, writer, list, acct>>
  BY DEF Load
<1> USE DEF LockInv, CacheType, Goto
<1>3. o \in Obj /\ p \notin readers[o]
  BY <1>1, <1>2 DEF At, Readers
<1>4. pc'[p] = "reading" /\ pc' \in [Proc -> Label]
  BY <1>2 DEF Label
<1>5. CacheType'
  BY <1>1, <1>2, <1>3, <1>4
<1>6. Held'
  BY <1>1, <1>2, <1>3, <1>4 DEF Held, StoreLabel, Removing
<1>7. Readers'
  <2>1. \A x \in Obj : \A q \in readers[x] : q # p
    BY <1>2 DEF Readers
  <2>2. \A x \in Obj : \A q \in readers'[x] : pc'[q] = "reading" /\ own'[q] = x
    BY <1>1, <1>2, <1>3, <1>4, <2>1 DEF Readers
  <2>3. \A x \in Obj : writer'[x] # NoProc => readers'[x] = {}
    BY <1>1, <1>2, <1>3 DEF Readers
  <2> QED
    BY <2>2, <2>3 DEF Readers
<1>8. Evicting'
  BY <1>1, <1>2, <1>4 DEF Evicting, Entry, Removing
<1>9. Committing'
  BY <1>1, <1>2, <1>4 DEF Committing, Commits, Removing
<1> QED
  BY <1>5, <1>6, <1>7, <1>8, <1>9

\* A reader closes its own lock.
LEMMA EndLoadLocks ==
  ASSUME LockInv, NEW p \in Proc, EndLoad(p)
  PROVE  LockInv'
<1>1. /\ pc[p] = "reading" /\ Goto(p, "idle")
      /\ readers' = [readers EXCEPT ![own[p]] = @ \ {p}]
      /\ own' = [own EXCEPT ![p] = NoObj]
      /\ want' = [want EXCEPT ![p] = NoName]
      /\ UNCHANGED <<loc, files, data, bytes, writer, list, acct>>
  BY DEF EndLoad, listVars
<1> USE DEF LockInv, CacheType, Goto
<1>2. own[p] \in Obj
  BY <1>1 DEF Held
<1>3. pc'[p] = "idle" /\ pc' \in [Proc -> Label]
  BY <1>1 DEF Label
<1>4. CacheType'
  BY <1>1, <1>2, <1>3
<1>5. Held'
  BY <1>1, <1>2, <1>3 DEF Held, StoreLabel, Removing
<1>6. Readers'
  BY <1>1, <1>2, <1>3 DEF Readers
<1>7. Evicting'
  BY <1>1, <1>3 DEF Evicting, Entry, Removing
<1>8. Committing'
  BY <1>1, <1>3 DEF Committing, Commits, Removing
<1> QED
  BY <1>4, <1>5, <1>6, <1>7, <1>8

\* The locks of who is killed go, and nobody else's.
LEMMA KillLocks ==
  ASSUME LockInv, NEW p \in Proc, Kill(p)
  PROVE  LockInv'
<1> DEFINE v == Entry(p).obj
<1>1. /\ Goto(p, "out")
      /\ readers' = [o \in Obj |-> readers[o] \ {p}]
      /\ writer' = [o \in Obj |-> IF writer[o] = p THEN NoProc ELSE writer[o]]
      /\ own' = [own EXCEPT ![p] = NoObj]
      /\ want' = [want EXCEPT ![p] = NoName]
      /\ list' = [list EXCEPT ![p] = <<>>]
      /\ UNCHANGED <<loc, files, data, bytes>>
  BY DEF Kill, NoLocks, EndList
<1>2. \/ pc[p] \in Removing /\ acct' = [acct EXCEPT ![v] = 0]
      \/ UNCHANGED acct
  BY AbandonDrops DEF Kill
<1>3. pc[p] \in Removing => v \in Obj /\ writer[v] = p
  BY DEF LockInv, Evicting
<1> HIDE DEF v
<1> USE DEF LockInv, CacheType, Goto
<1>4. pc'[p] = "out" /\ pc' \in [Proc -> Label]
  BY <1>1 DEF Label
<1>5. CacheType'
  <2>1. acct' \in [Obj -> Space \cup {0}]
    BY <1>2, <1>3
  <2> QED
    BY <1>1, <1>4, <2>1
<1>6. \A q \in Proc \ {p} :
        pc'[q] = pc[q] /\ own'[q] = own[q] /\ want'[q] = want[q] /\ list'[q] = list[q]
  BY <1>1
<1>7. Held'
  BY <1>1, <1>4, <1>6 DEF Held, StoreLabel, Removing
<1>8. Readers'
  BY <1>1, <1>4, <1>6 DEF Readers
<1>9. Evicting'
  BY <1>1, <1>4, <1>6 DEF Evicting, Entry, Removing
<1>10. \A q \in Proc \ {p} : pc[q] \in StoreLabel => acct'[own[q]] = acct[own[q]]
  BY <1>2, <1>3, LocksApart DEF Held
<1>11. Committing'
  BY <1>1, <1>4, <1>6, <1>10 DEF Committing, Commits, Removing, StoreLabel
<1> QED
  BY <1>5, <1>7, <1>8, <1>9, <1>11

\* No step disturbs what the locks protect.
LEMMA StepLocks ==
  ASSUME LockInv, [Next]_vars
  PROVE  LockInv'
<1>1. CASE UNCHANGED vars
  BY <1>1 DEF vars, objVars, listVars, LockInv, CacheType, Held, Readers,
    Evicting, Committing, Commits, Entry
<1>2. ASSUME NEW p \in Proc, Step(p)
      PROVE  LockInv'
  BY <1>2, FillLocks, AccountLocks, VisitLocks, VisitRemoveLocks, RemoveDataLocks,
    RemoveLockLocks, RemoveDirLocks, RemoveFailsLocks, DeaccountLocks, InfoLocks,
    RenameLocks, UndoSizeLocks, DiscardLocks, DiscardFailsLocks, UnlockLocks,
    EndLoadLocks DEF Step
<1>3. CASE Next
  BY <1>2, <1>3, KillLocks, EnterLocks, LoadLocks, BeginStoreLocks DEF Next
<1> QED
  BY <1>1, <1>3

-----------------------------------------------------------------------------
(* What an object.info stands for.                                         *)

\* The data and the count of an object stay, unless it is not committed after
\* the step; or it is committed by this step.
LEMMA InfoFrame ==
  ASSUME LockInv, [Next]_vars, NEW o \in Obj, "info" \in files'[o]
  PROVE  \/ /\ "info" \in files[o]
            /\ data'[o] = data[o] /\ bytes'[o] = bytes[o] /\ acct'[o] = acct[o]
         \/ \E p \in Proc : CommitInfo(p) /\ o = own[p]
<1> DEFINE Kept == /\ "info" \in files[o] /\ data'[o] = data[o]
                   /\ bytes'[o] = bytes[o] /\ acct'[o] = acct[o]
<1> USE DEF LockInv, CacheType
<1>1. ASSUME UNCHANGED <<files, data, bytes, acct>>
      PROVE  Kept
  BY <1>1
<1>2. ASSUME NEW p \in Proc, Kill(p)
      PROVE  Kept
  <2>1. \/ UNCHANGED acct
        \/ pc[p] \in Removing /\ acct' = [acct EXCEPT ![Entry(p).obj] = 0]
    BY <1>2, AbandonDrops DEF Kill
  <2> QED
    BY <1>2, <2>1 DEF Kill, Evicting
<1>3. ASSUME NEW p \in Proc,
             Enter(p) \/ Exit(p) \/ (\E m \in Maximum : SetInfo(p, m))
               \/ (\E n \in Name : Load(p, n))
      PROVE  Kept
  BY <1>1, <1>3 DEF Enter, Exit, SetInfo, Load, objVars
<1>4. ASSUME NEW p \in Proc, NEW n \in Name, NEW b \in Space, BeginStore(p, n, b)
      PROVE  Kept
  <2>1. PICK x \in Unused : /\ files' = [files EXCEPT ![x] = {"lock"}]
                            /\ data' = [data EXCEPT ![x] = "part"]
                            /\ bytes' = [bytes EXCEPT ![x] = b]
    BY <1>4 DEF BeginStore
  <2>2. UNCHANGED acct
    BY <1>4 DEF BeginStore
  <2> QED
    BY <2>1, <2>2
<1>5. ASSUME NEW p \in Proc,
             ListObjects(p) \/ VisitSkip(p) \/ VisitFails(p) \/ VisitEnd(p)
               \/ CommitFails(p) \/ Rename(p) \/ Unlock(p) \/ EndLoad(p)
      PROVE  Kept
  BY <1>1, <1>5 DEF ListObjects, VisitSkip, VisitFails, VisitEnd, CommitFails,
    Rename, Unlock, EndLoad, objVars
<1>6. ASSUME NEW p \in Proc,
             Fill(p) \/ TryAccount(p) \/ RetryAccount(p) \/ UndoSize(p)
      PROVE  Kept
  <2>1. own[p] \in Obj /\ "info" \notin files[own[p]]
    BY <1>6 DEF Fill, TryAccount, RetryAccount, UndoSize, Held, Committing, Commits,
      StoreLabel
  <2>2. /\ UNCHANGED <<files, bytes>>
        /\ data' \in {data, [data EXCEPT ![own[p]] = "whole"]}
    BY <1>6 DEF Fill, TryAccount, RetryAccount, UndoSize, objVars
  <2>3. \/ UNCHANGED acct
        \/ \E b \in Space \cup {0} : acct' = [acct EXCEPT ![own[p]] = b]
    BY <1>6, <2>1, CountDropped DEF Fill, TryAccount, RetryAccount, UndoSize,
      Account
  <2> QED
    BY <2>1, <2>2, <2>3
<1>7. ASSUME NEW p \in Proc, VisitRemove(p) \/ UndoInfo(p)
      PROVE  Kept
  <2>1. \E x \in Obj : files' = [files EXCEPT ![x] = @ \ {"info"}]
    BY <1>7 DEF VisitRemove, UndoInfo, Uncommit, Found, At, Held, StoreLabel
  <2>2. UNCHANGED <<data, bytes, acct>>
    BY <1>7 DEF VisitRemove, UndoInfo
  <2> QED
    BY <2>1, <2>2
<1>8. ASSUME NEW p \in Proc,
             RemoveData(p) \/ RemoveDir(p) \/ RemoveFails(p) \/ Deaccount(p)
      PROVE  Kept
  <2>1. "info" \notin files[Entry(p).obj]
    BY <1>8 DEF RemoveData, RemoveDir, RemoveFails, Deaccount, Removing, Evicting
  <2>2. /\ UNCHANGED <<files, bytes>>
        /\ data' \in {data, [data EXCEPT ![Entry(p).obj] = "part"]}
        /\ acct' \in {acct, [acct EXCEPT ![Entry(p).obj] = 0]}
    BY <1>8, CountDropped, AbandonDrops
      DEF RemoveData, RemoveDir, RemoveFails, Deaccount
  <2> QED
    BY <2>1, <2>2
<1>9. ASSUME NEW x \in Obj, Clear(x),
             UNCHANGED acct \/ acct' = [acct EXCEPT ![x] = 0]
      PROVE  Kept
  BY <1>9 DEF Clear
<1>10. ASSUME NEW p \in Proc, RemoveLock(p)
       PROVE  Kept
  BY <1>9, <1>10 DEF RemoveLock, Evicting, Removing
<1>11. ASSUME NEW p \in Proc, Discard(p)
       PROVE  Kept
  BY <1>9, <1>11, CountDropped DEF Discard, Held, StoreLabel
<1>12. ASSUME NEW p \in Proc, CommitInfo(p)
       PROVE  Kept \/ o = own[p]
  BY <1>12 DEF CommitInfo, Held, StoreLabel
<1>16. ASSUME NEW p \in Proc, UndoFails(p)
       PROVE  Kept
  <2>1. /\ UNCHANGED <<files, data, bytes>>
        /\ \/ UNCHANGED acct
           \/ "info" \notin files[own[p]] /\ acct' = [acct EXCEPT ![own[p]] = 0]
    BY <1>16, CountDropped DEF UndoFails, objVars
  <2> QED
    BY <2>1
<1>17. ASSUME NEW p \in Proc, DiscardFails(p)
       PROVE  Kept
  <2>1. UNCHANGED bytes /\ own[p] \in Obj
    BY <1>17 DEF DiscardFails, Held, StoreLabel
  <2>2. \/ UNCHANGED <<files, data, acct>>
        \/ /\ files' = [files EXCEPT ![own[p]] = @ \ {"info"}]
           /\ data' = [data EXCEPT ![own[p]] = "part"]
           /\ acct' = [acct EXCEPT ![own[p]] = 0]
    BY <1>17 DEF DiscardFails, Uncommit, Lose
  <2> QED
    BY <2>1, <2>2
<1>13. CASE UNCHANGED vars
  BY <1>1, <1>13 DEF vars, objVars
<1>14. ASSUME NEW p \in Proc, Step(p)
       PROVE  Kept \/ \E q \in Proc : CommitInfo(q) /\ o = own[q]
  BY <1>5, <1>6, <1>7, <1>8, <1>10, <1>11, <1>12, <1>14, <1>16, <1>17 DEF Step
<1>15. CASE Next
  BY <1>2, <1>3, <1>4, <1>14, <1>15 DEF Next
<1> QED
  BY <1>13, <1>15

\* object.info is written only for what is whole and counted.
LEMMA StepInfo ==
  ASSUME LockInv, InfoStands, [Next]_vars
  PROVE  InfoStands'
<1>1. SUFFICES ASSUME NEW o \in Obj, "info" \in files'[o]
               PROVE  data'[o] = "whole" /\ acct'[o] = bytes'[o]
  BY DEF InfoStands
<1>2. CASE /\ "info" \in files[o] /\ data'[o] = data[o]
           /\ bytes'[o] = bytes[o] /\ acct'[o] = acct[o]
  BY <1>2 DEF InfoStands
<1>3. ASSUME NEW p \in Proc, CommitInfo(p), o = own[p]
      PROVE  data'[o] = "whole" /\ acct'[o] = bytes'[o]
  BY <1>3 DEF CommitInfo, LockInv, Committing, Commits
<1> QED
  BY <1>1, <1>2, <1>3, InfoFrame

-----------------------------------------------------------------------------
(* What a reader sees.                                                     *)

\* What somebody reads nobody writes to or unlinks the lock of, and only an empty
\* directory is moved.
LEMMA ReadIsKept ==
  ASSUME LockInv, [Next]_vars, NEW o \in Obj, readers[o] # {}
  PROVE  /\ data'[o] = data[o]
         /\ loc'[o] = loc[o] \/ Empty(o)
         /\ "lock" \in files[o] => "lock" \in files'[o]
<1> DEFINE Kept == /\ data'[o] = data[o]
                   /\ loc'[o] = loc[o] \/ Empty(o)
                   /\ "lock" \in files[o] => "lock" \in files'[o]
<1> USE DEF LockInv, CacheType
<1>1. ASSUME UNCHANGED <<loc, data>>,
             \/ UNCHANGED files
             \/ \E x : files' = [files EXCEPT ![x] = @ \ {"info"}]
             \/ \E x : files' = [files EXCEPT ![x] = @ \cup {"info"}]
      PROVE  Kept
  BY <1>1
<1>2. writer[o] = NoProc
  BY DEF Readers
<1>3. ASSUME NEW p \in Proc
      PROVE  /\ pc[p] \in StoreLabel => own[p] \in Obj \ {o}
             /\ pc[p] \in Removing => Entry(p).obj \in Obj \ {o}
  BY <1>2, CacheAssumption DEF Held, Evicting
<1>4. ASSUME NEW p \in Proc, Kill(p)
      PROVE  Kept
  BY <1>4 DEF Kill
<1>5. ASSUME NEW p \in Proc,
             Enter(p) \/ Exit(p) \/ (\E m \in Maximum : SetInfo(p, m))
               \/ (\E n \in Name : Load(p, n))
      PROVE  Kept
  BY <1>1, <1>5 DEF Enter, Exit, SetInfo, Load, objVars
<1>6. ASSUME NEW p \in Proc, NEW n \in Name, NEW b \in Space, BeginStore(p, n, b)
      PROVE  Kept
  <2>1. PICK x \in Unused :
          /\ loc' = [loc EXCEPT ![x] = IF compatible THEN "uuid" ELSE "stage"]
          /\ files' = [files EXCEPT ![x] = {"lock"}]
          /\ data' = [data EXCEPT ![x] = "part"]
    BY <1>6 DEF BeginStore
  <2>2. x # o
    <3>1. PICK q \in readers[o] : q \in Proc /\ own[q] = o
      BY DEF Readers
    <3> QED
      BY <3>1 DEF Unused
  <2> QED
    BY <2>1, <2>2
<1>7. ASSUME NEW p \in Proc,
             ListObjects(p) \/ VisitSkip(p) \/ VisitFails(p) \/ VisitEnd(p)
               \/ CommitFails(p) \/ Unlock(p) \/ EndLoad(p) \/ TryAccount(p)
               \/ RetryAccount(p) \/ UndoSize(p) \/ UndoFails(p) \/ Deaccount(p)
               \/ RemoveFails(p)
      PROVE  Kept
  BY <1>1, <1>7 DEF ListObjects, VisitSkip, VisitFails, VisitEnd, CommitFails,
    Unlock, EndLoad, TryAccount, RetryAccount, UndoSize, UndoFails, Deaccount,
    RemoveFails, objVars
<1>8. ASSUME NEW p \in Proc, VisitRemove(p) \/ CommitInfo(p) \/ UndoInfo(p)
      PROVE  Kept
  BY <1>1, <1>8 DEF VisitRemove, CommitInfo, UndoInfo, Uncommit
<1>9. ASSUME NEW p \in Proc, Fill(p) \/ DiscardFails(p)
      PROVE  Kept
  <2>1. /\ UNCHANGED loc
        /\ \/ UNCHANGED data
           \/ \E d : data' = [data EXCEPT ![own[p]] = d]
        /\ UNCHANGED files \/ files' = [files EXCEPT ![own[p]] = @ \ {"info"}]
    BY <1>9 DEF Fill, DiscardFails, Uncommit
  <2>2. own[p] # o
    BY <1>3, <1>9 DEF Fill, DiscardFails, StoreLabel
  <2> QED
    BY <2>1, <2>2
<1>10. ASSUME NEW p \in Proc, Rename(p)
       PROVE  Kept
  <2>1. own[p] # o /\ UNCHANGED <<data, files>>
    BY <1>3, <1>10 DEF Rename, StoreLabel
  <2> QED
    BY <1>10, <2>1, RenameMoves DEF At
<1>11. ASSUME NEW p \in Proc, RemoveData(p)
       PROVE  Kept
  BY <1>3, <1>11 DEF RemoveData, Removing
<1>12. ASSUME NEW p \in Proc, RemoveDir(p)
       PROVE  Kept
  <2>1. Entry(p).obj # o /\ UNCHANGED <<data, files>>
    BY <1>3, <1>12 DEF RemoveDir, Removing
  <2>2. loc'[o] = loc[o] \/ Empty(o)
    BY <1>12, <2>1 DEF RemoveDir
  <2> QED
    BY <2>1, <2>2
<1>13. ASSUME NEW x \in Obj \ {o}, Clear(x),
              loc' \in {loc, [loc EXCEPT ![x] = "gone"]}
       PROVE  Kept
  BY <1>13 DEF Clear
<1>14. ASSUME NEW p \in Proc, RemoveLock(p)
       PROVE  Kept
  BY <1>3, <1>13, <1>14 DEF RemoveLock, Removing
<1>15. ASSUME NEW p \in Proc, Discard(p)
       PROVE  Kept
  BY <1>3, <1>13, <1>15 DEF Discard, StoreLabel
<1>16. CASE UNCHANGED vars
  BY <1>1, <1>16 DEF vars, objVars
<1>17. ASSUME NEW p \in Proc, Step(p)
       PROVE  Kept
  BY <1>7, <1>8, <1>9, <1>10, <1>11, <1>12, <1>14, <1>15, <1>17 DEF Step
<1>18. CASE Next
  BY <1>4, <1>5, <1>6, <1>17, <1>18 DEF Next
<1> QED
  BY <1>16, <1>18

\* Where a reader comes from.
LEMMA ReaderStep ==
  ASSUME LockInv, [Next]_vars, NEW p \in Proc, pc'[p] = "reading"
  PROVE  \/ pc[p] = "reading" /\ own'[p] = own[p] /\ want'[p] = want[p]
         \/ \E n \in Name : Load(p, n)
<1> DEFINE Reads == pc[p] = "reading" /\ own'[p] = own[p] /\ want'[p] = want[p]
<1> USE DEF LockInv, CacheType, Goto
<1>1. ASSUME NEW q \in Proc, Step(q) \/ Kill(q) \/ Enter(q) \/ Exit(q)
                               \/ \E m \in Maximum : SetInfo(q, m)
      PROVE  Reads
  <2>1. \/ \E l \in Label \ {"reading"} : Goto(q, l)
        \/ UNCHANGED <<pc, own, want>>
    <3>1. ASSUME Account(q, "list") \/ Account(q, "discard")
          PROVE  \E l \in Label \ {"reading"} : Goto(q, l)
      BY <3>1 DEF Account, Label
    <3>2. CASE Rename(q)
      BY <3>2, RenameMoves DEF Label
    <3>3. CASE VisitSkip(q) \/ \E m \in Maximum : SetInfo(q, m)
      BY <3>3 DEF VisitSkip, SetInfo
    <3>4. CASE TryAccount(q) \/ RetryAccount(q)
      BY <3>1, <3>4 DEF TryAccount, RetryAccount, Label
    <3>5. CASE Fill(q) \/ VisitFails(q) \/ RemoveDir(q) \/ RemoveFails(q)
                 \/ CommitFails(q) \/ UndoSize(q) \/ UndoFails(q) \/ DiscardFails(q)
      BY <3>5 DEF Fill, VisitFails, RemoveDir, RemoveFails, CommitFails, UndoSize,
        UndoFails, Leave, DiscardFails, Left, Label
    <3>6. CASE ListObjects(q) \/ VisitRemove(q) \/ VisitEnd(q) \/ RemoveData(q)
                 \/ RemoveLock(q) \/ Deaccount(q) \/ CommitInfo(q) \/ UndoInfo(q)
                 \/ Discard(q) \/ Unlock(q) \/ EndLoad(q) \/ Kill(q) \/ Enter(q)
                 \/ Exit(q)
      BY <3>6 DEF ListObjects, VisitRemove, VisitEnd, RemoveData, RemoveLock,
        Deaccount, CommitInfo, UndoInfo, Discard, Unlock, Left, EndLoad, Kill, Enter,
        Exit, Label
    <3> QED
      BY <1>1, <3>2, <3>3, <3>4, <3>5, <3>6 DEF Step
  <2>2. \/ UNCHANGED <<own, want>>
        \/ /\ own' = [own EXCEPT ![q] = NoObj]
           /\ want' = [want EXCEPT ![q] = NoName]
    BY <1>1 DEF Step, Fill, TryAccount, RetryAccount, Account, ListObjects,
      VisitRemove, VisitSkip, VisitFails, VisitEnd, RemoveData, RemoveLock,
      RemoveDir, RemoveFails, Deaccount, CommitInfo, CommitFails, Rename, UndoInfo,
      UndoSize, UndoFails, Discard, DiscardFails, Unlock, Left, EndLoad, Kill, Enter,
      Exit, SetInfo
  <2> QED
    BY <2>1, <2>2
<1>2. ASSUME NEW q \in Proc, NEW n \in Name, NEW b \in Space, BeginStore(q, n, b)
      PROVE  Reads
  BY <1>2 DEF BeginStore
<1>3. ASSUME NEW q \in Proc, NEW n \in Name, Load(q, n), p # q
      PROVE  Reads
  BY <1>3 DEF Load
<1>4. CASE UNCHANGED vars
  BY <1>4 DEF vars
<1>5. CASE Next
  BY <1>1, <1>2, <1>3, <1>5 DEF Next
<1> QED
  BY <1>4, <1>5

\* What is read keeps its object.lock.
LEMMA StepRead ==
  ASSUME LockInv, LockInv', ReadIsLocked, [Next]_vars
  PROVE  ReadIsLocked'
<1>1. SUFFICES ASSUME NEW p \in Proc, pc'[p] = "reading"
               PROVE  "lock" \in files'[own'[p]]
  BY DEF ReadIsLocked
<1>2. CASE pc[p] = "reading" /\ own'[p] = own[p] /\ want'[p] = want[p]
  <2>1. own[p] \in Obj /\ readers[own[p]] # {}
    BY <1>2 DEF LockInv, Held
  <2> QED
    BY <1>2, <2>1, ReadIsKept DEF ReadIsLocked
<1>3. ASSUME NEW n \in Name, Load(p, n)
      PROVE  "lock" \in files'[own'[p]]
  BY <1>3 DEF Load, LockInv, CacheType
<1> QED
  BY <1>1, <1>2, <1>3, ReaderStep

\* A reader keeps its place; what is committed after the step is whole.
LEMMA StepReader ==
  ASSUME LockInv, LockInv', InfoStands', ReadIsLocked, ReaderSeesWhole, [Next]_vars
  PROVE  ReaderSeesWhole'
<1>1. SUFFICES ASSUME NEW p \in Proc, pc'[p] = "reading"
               PROVE  /\ writer'[own'[p]] = NoProc /\ loc'[own'[p]] = want'[p]
                      /\ "info" \in files'[own'[p]] => data'[own'[p]] = "whole"
  BY DEF ReaderSeesWhole
<1>2. own'[p] \in Obj /\ writer'[own'[p]] = NoProc
  BY <1>1 DEF LockInv, Held, Readers
<1>3. "info" \in files'[own'[p]] => data'[own'[p]] = "whole"
  BY <1>2 DEF InfoStands
<1>4. CASE pc[p] = "reading" /\ own'[p] = own[p] /\ want'[p] = want[p]
  <2>1. own[p] \in Obj /\ readers[own[p]] # {}
    BY <1>4 DEF LockInv, Held
  <2>2. loc'[own[p]] = loc[own[p]] \/ Empty(own[p])
    BY <2>1, ReadIsKept
  <2>3. ~Empty(own[p])
    BY <1>4 DEF ReadIsLocked, Empty
  <2> QED
    BY <1>2, <1>3, <1>4, <2>2, <2>3 DEF ReaderSeesWhole
<1>5. ASSUME NEW n \in Name, Load(p, n)
      PROVE  loc'[own'[p]] = want'[p]
  <2>1. PICK o \in At(n) : own' = [own EXCEPT ![p] = o]
    BY <1>5 DEF Load
  <2>2. UNCHANGED loc /\ want' = [want EXCEPT ![p] = n]
    BY <1>5 DEF Load
  <2>3. o \in Obj /\ loc[o] = n
    BY DEF At
  <2> QED
    BY <2>1, <2>2, <2>3 DEF LockInv, CacheType
<1> QED
  BY <1>1, <1>2, <1>3, <1>4, <1>5, ReaderStep

-----------------------------------------------------------------------------
(* The other types.                                                        *)

\* A set of numbers has a least one.
LEMMA LeastIs ==
  ASSUME NEW S, S \subseteq Nat, S # {}
  PROVE  \E n \in S : \A m \in S : n <= m
<1>1. \E n \in S : \A m \in S : ~ (<<m, n>> \in OpToRel(<, Nat))
  BY WFMin, NatLessThanWellFounded, Zenon
<1>2. PICK n \in S : \A m \in S : ~ (<<m, n>> \in OpToRel(<, Nat))
  BY <1>1
<1>3. \A m \in S : ~(m < n)
  BY <1>2 DEF OpToRel
<1> QED
  BY <1>3

\* Of a set of positions there is an n-th one.
LEMMA PositionIs ==
  ASSUME NEW len \in Nat, NEW at \in SUBSET (1..len), NEW n \in 1..Cardinality(at)
  PROVE  \E i \in at : Cardinality({j \in at : j <= i}) = n
<1> DEFINE Upto(k) == {j \in at : j <= k}
<1>1. IsFiniteSet(at) /\ Cardinality(at) \in Nat
  <2>1. IsFiniteSet(1..len)
    BY FS_Interval
  <2> QED
    BY <2>1, FS_Subset, FS_CardinalityType
<1>2. \A k \in Nat : IsFiniteSet(Upto(k)) /\ Cardinality(Upto(k)) \in Nat
  <2>1. ASSUME NEW k \in Nat
        PROVE  IsFiniteSet(Upto(k)) /\ Cardinality(Upto(k)) \in Nat
    <3>1. Upto(k) \subseteq at
      OBVIOUS
    <3> QED
      BY <1>1, <3>1, FS_Subset, FS_CardinalityType
  <2> QED
    BY <2>1
<1>0. \A j \in at : j \in Nat /\ 1 <= j /\ j <= len
  OBVIOUS
<1>3. Upto(0) = {} /\ Upto(len) = at
  <2>1. \A j \in at : ~(j <= 0) /\ j <= len
    BY <1>0
  <2>2. {j \in at : j <= 0} = {}
    BY <2>1, Zenon
  <2>3. {j \in at : j <= len} = at
    BY <2>1, Zenon
  <2> QED
    BY <2>2, <2>3
<1>4. Cardinality(Upto(0)) = 0
  BY <1>3, FS_EmptySet, Zenon
<1>5. Cardinality(Upto(len)) = Cardinality(at)
  BY <1>3, Zenon
<1>6. \A k \in Nat : k + 1 \in at => Upto(k + 1) = Upto(k) \cup {k + 1} /\ k + 1 \notin Upto(k)
  <2> SUFFICES ASSUME NEW k \in Nat, k + 1 \in at
               PROVE  Upto(k + 1) = Upto(k) \cup {k + 1} /\ k + 1 \notin Upto(k)
    OBVIOUS
  <2>1. \A j \in at : j <= k + 1 <=> j <= k \/ j = k + 1
    BY <1>0
  <2>2. ~(k + 1 <= k)
    OBVIOUS
  <2>3. \A j : j \in Upto(k + 1) <=> j \in Upto(k) \cup {k + 1}
    BY <2>1, Zenon
  <2> QED
    BY <2>2, <2>3, Zenon
<1>7. \A k \in Nat : k + 1 \notin at => Upto(k + 1) = Upto(k)
  <2> SUFFICES ASSUME NEW k \in Nat, k + 1 \notin at
               PROVE  Upto(k + 1) = Upto(k)
    OBVIOUS
  <2>1. \A j \in at : j <= k + 1 <=> j <= k
    BY <1>0
  <2>2. \A j : j \in Upto(k + 1) <=> j \in Upto(k)
    BY <2>1, Zenon
  <2> QED
    BY <2>2, Zenon
<1> HIDE DEF Upto
<1> DEFINE K == {k \in Nat : n <= Cardinality(Upto(k))}
<1>8. PICK k \in K : \A m \in K : k <= m
  <2>1. len \in K
    BY <1>1, <1>5
  <2> QED
    BY <2>1, LeastIs
<1>9. k \in Nat /\ k # 0 /\ k - 1 \in Nat /\ k - 1 \notin K
  BY <1>1, <1>4, <1>8
<1>10. PICK l \in Nat : k = l + 1
  BY <1>9
<1>11. Cardinality(Upto(l)) < n /\ n <= Cardinality(Upto(l + 1))
  BY <1>1, <1>2, <1>8, <1>9, <1>10
<1>12. l + 1 \in at
  <2>1. SUFFICES ASSUME l + 1 \notin at PROVE FALSE
    OBVIOUS
  <2>2. Cardinality(Upto(l + 1)) = Cardinality(Upto(l))
    BY <1>7, <2>1, Zenon
  <2> QED
    BY <1>1, <1>2, <1>11, <2>2
<1>13. Cardinality(Upto(l + 1)) = Cardinality(Upto(l)) + 1
  <2>1. Cardinality(Upto(l) \cup {l + 1}) = Cardinality(Upto(l)) + 1
    BY <1>2, <1>6, <1>12, FS_AddElement
  <2> QED
    BY <1>6, <1>12, <2>1, Zenon
<1>14. Cardinality(Upto(l + 1)) = n
  BY <1>1, <1>2, <1>11, <1>13
<1> QED
  BY <1>12, <1>14 DEF Upto

\* The elements of a sequence that are kept are elements of it.
LEMMA OnlyType ==
  ASSUME NEW T, NEW s \in Seq(T), NEW S
  PROVE  Only(s, S) \in Seq(T)
<1> DEFINE at == {i \in DOMAIN s : s[i] \in S}
           nth(n) == CHOOSE i \in at : Cardinality({j \in at : j <= i}) = n
<1>1. Len(s) \in Nat /\ at \in SUBSET (1..Len(s)) /\ \A i \in at : s[i] \in T
  OBVIOUS
<1>2. Cardinality(at) \in Nat
  <2>1. IsFiniteSet(1..Len(s))
    BY <1>1, FS_Interval
  <2> QED
    BY <1>1, <2>1, FS_Subset, FS_CardinalityType
<1>3. Only(s, S) = [n \in 1..Cardinality(at) |-> s[nth(n)]]
  BY DEF Only
<1> HIDE DEF at
<1>4. \A n \in 1..Cardinality(at) : nth(n) \in at
  <2>1. ASSUME NEW n \in 1..Cardinality(at)
        PROVE  \E i \in at : Cardinality({j \in at : j <= i}) = n
    BY <1>1, PositionIs
  <2> QED
    BY <2>1
<1> HIDE DEF nth
<1>5. \A n \in 1..Cardinality(at) : s[nth(n)] \in T
  BY <1>1, <1>4
<1> QED
  BY <1>2, <1>3, <1>5

\* A maximum that some user has set.
Permitted(n) == n # 0 => \E m \in Maximum : m = Unlimited \/ n <= m

\* The types the locks say nothing about.
SizeType ==
  /\ lru \in Seq(Obj)
  /\ size \in Nat /\ Permitted(size)
  /\ maximum \in Maximum
  /\ compatible \in BOOLEAN
  /\ max \in [Proc -> Maximum \cup {0}]
  /\ list \in [Proc -> Seq([path : Place, obj : Obj])]
  /\ touched \in [Proc -> SUBSET Obj]
  /\ space \in [Proc -> Nat] /\ freed \in [Proc -> Nat]
  /\ exc \in [Proc -> BOOLEAN]
  /\ kills \in 0..MaxKills

\* What _update_cache_size makes of the size, if it does not refuse.
LEMMA ResizeIs ==
  ASSUME NEW p \in Proc, size \in Nat, max[p] \in Maximum \cup {0}, NEW d \in Int,
         Resize(p, d) # TooBig
  PROVE  \/ size + d < 0 /\ Resize(p, d) = 0
         \/ /\ size + d >= 0 /\ Resize(p, d) = size + d
            /\ max[p] = Unlimited \/ size + d <= max[p]
<1> DEFINE c == [diff |-> d, max |-> max[p]]
<1>1. /\ Resize(p, d) = SizeAfter(size, c) /\ c.diff = d /\ c.max = max[p]
  BY DEF Resize
<1> HIDE DEF c
<1>2. CASE size + d < 0
  <2>1. size + c.diff < 0
    BY <1>1, <1>2
  <2>2. ~(size + c.diff >= 0)
    BY <1>1, <1>2
  <2>3. SizeAfter(size, c) = 0
    BY <2>1, <2>2, Zenon DEF SizeAfter
  <2> QED
    BY <1>1, <1>2, <2>3
<1>3. CASE size + d >= 0
  <2>1. ~(size + c.diff < 0) /\ size + c.diff >= 0
    BY <1>1, <1>3
  <2>2. CASE c.max = Unlimited \/ size + c.diff <= c.max
    <3>1. SizeAfter(size, c) = size + c.diff
      BY <2>1, <2>2, Zenon DEF SizeAfter
    <3> QED
      BY <1>1, <1>3, <2>2, <3>1
  <2>3. CASE ~(c.max = Unlimited \/ size + c.diff <= c.max)
    <3>1. SizeAfter(size, c) = TooBig
      BY <2>1, <2>3, Zenon DEF SizeAfter
    <3> QED
      BY <1>1, <3>1
  <2> QED
    BY <2>2, <2>3
<1> QED
  BY <1>2, <1>3

\* The size stays within a maximum.
LEMMA ResizePermitted ==
  ASSUME SizeType, NEW p \in Proc, NEW d \in Int, Resize(p, d) # TooBig
  PROVE  Resize(p, d) \in Nat /\ Permitted(Resize(p, d))
<1>1. size \in Nat /\ max[p] \in Maximum \cup {0}
  BY DEF SizeType
<1>2. CASE size + d < 0 /\ Resize(p, d) = 0
  BY <1>2 DEF Permitted
<1>3. CASE /\ size + d >= 0 /\ Resize(p, d) = size + d
           /\ max[p] = Unlimited \/ size + d <= max[p]
  <2>1. max[p] \in Maximum \/ size + d = 0
    BY <1>1, <1>3 DEF Unlimited
  <2>2. Permitted(size + d)
    BY <1>3, <2>1 DEF Permitted
  <2> QED
    BY <1>1, <1>3, <2>2
<1> QED
  BY <1>1, <1>2, <1>3, ResizeIs

\* What an update of cache.size leaves.
LEMMA GiveBackType ==
  ASSUME SizeType, NEW p \in Proc, NEW o \in Obj, NEW n \in Nat, GiveBack(p, o, n)
  PROVE  size' \in Nat /\ Permitted(size)'
<1>1. -n \in Int
  OBVIOUS
<1>2. CASE Resize(p, -n) # TooBig
  <2>1. size' = Resize(p, -n)
    BY <1>2 DEF GiveBack
  <2> QED
    BY <1>1, <1>2, <2>1, ResizePermitted DEF Permitted
<1>3. CASE Resize(p, -n) = TooBig
  BY <1>3 DEF GiveBack, SizeType, Permitted
<1> QED
  BY <1>2, <1>3

\* Sizes are numbers.
LEMMA SizesAreNumbers ==
  ASSUME LockInv, NEW o \in Obj
  PROVE  bytes[o] \in Nat /\ acct[o] \in Nat /\ SpaceOf(o) \in Nat
<1>1. Space \subseteq Nat /\ Overhead \in Nat
  BY CacheAssumption
<1>2. bytes[o] \in Space \cup {0} /\ acct[o] \in Space \cup {0}
  BY DEF LockInv, CacheType
<1>3. bytes[o] \in Nat /\ acct[o] \in Nat
  BY <1>1, <1>2
<1>4. SpaceOf(o) = Overhead + IF data[o] = "whole" THEN bytes[o] ELSE 0
  BY DEF SpaceOf
<1> QED
  BY <1>1, <1>3, <1>4

\* A step of process p that does not end it.
Acts(p) ==
  \/ Enter(p) \/ Exit(p) \/ Step(p)
  \/ \E m \in Maximum : SetInfo(p, m)
  \/ \E n \in Name : Load(p, n) \/ \E b \in Space : BeginStore(p, n, b)

\* Where the others are, and what they look at, a step of p leaves alone.
LEMMA OthersStay ==
  ASSUME LockInv, SizeType, NEW p \in Proc, Acts(p) \/ Kill(p), NEW q \in Proc \ {p}
  PROVE  /\ pc'[q] = pc[q] /\ own'[q] = own[q]
         /\ list'[q] = list[q] /\ space'[q] = space[q]
<1> DEFINE Stay == /\ pc'[q] = pc[q] /\ own'[q] = own[q]
                   /\ list'[q] = list[q] /\ space'[q] = space[q]
<1> USE DEF LockInv, CacheType, SizeType, Goto, listVars
<1>1. CASE Kill(p) \/ Enter(p) \/ Exit(p) \/ \E m \in Maximum : SetInfo(p, m)
  BY <1>1 DEF Kill, EndList, Enter, Exit, SetInfo
<1>2. CASE \E n \in Name : Load(p, n) \/ \E b \in Space : BeginStore(p, n, b)
  BY <1>2 DEF Load, BeginStore
<1>3. CASE Fill(p) \/ CommitFails(p) \/ CommitInfo(p) \/ UndoInfo(p) \/ UndoFails(p)
             \/ Unlock(p) \/ EndLoad(p)
  BY <1>3 DEF Fill, CommitFails, CommitInfo, UndoInfo, UndoFails, Leave, Unlock, Left,
    EndLoad
<1>4. CASE TryAccount(p) \/ RetryAccount(p) \/ UndoSize(p)
  BY <1>4 DEF TryAccount, RetryAccount, Account, UndoSize, Leave
<1>5. CASE ListObjects(p) \/ VisitSkip(p) \/ VisitFails(p) \/ VisitEnd(p)
             \/ VisitRemove(p)
  BY <1>5 DEF ListObjects, VisitSkip, VisitFails, VisitEnd, VisitRemove, EndList
<1>6. CASE RemoveData(p) \/ RemoveLock(p) \/ RemoveDir(p) \/ RemoveFails(p)
             \/ Deaccount(p) \/ Discard(p) \/ DiscardFails(p)
  BY <1>6 DEF RemoveData, RemoveLock, RemoveDir, RemoveFails, Deaccount, Discard,
    DiscardFails, Left, EndList
<1>7. CASE Rename(p)
  <2>1. UNCHANGED <<own, list, space>>
    BY <1>7 DEF Rename
  <2> QED
    BY <1>7, <2>1, RenameMoves
<1> QED
  BY <1>1, <1>2, <1>3, <1>4, <1>5, <1>6, <1>7 DEF Acts, Step

\* What removes has an entry of its list to look at.
Listing == \A p \in Proc : pc[p] \in Removing => list[p] # <<>>

\* It looks at the same entry until it has given the space back.
LEMMA StepListing ==
  ASSUME LockInv, SizeType, Listing, [Next]_vars
  PROVE  Listing'
<1> SUFFICES ASSUME NEW q \in Proc, pc'[q] \in Removing
             PROVE  list'[q] # <<>>
  BY DEF Listing
<1>1. ASSUME NEW p \in Proc, Acts(p) \/ Kill(p), p # q
      PROVE  list'[q] # <<>>
  BY <1>1, OthersStay DEF Listing
<1> USE DEF LockInv, CacheType, Goto, listVars, Removing
<1>2. CASE VisitRemove(q) \/ RemoveData(q) \/ RemoveLock(q) \/ RemoveDir(q)
  <2>1. UNCHANGED list
    BY <1>2 DEF VisitRemove, RemoveData, RemoveLock, RemoveDir
  <2>2. list[q] # <<>>
    BY <1>2 DEF VisitRemove, RemoveData, RemoveLock, RemoveDir, Listing
  <2> QED
    BY <2>1, <2>2
<1>3. ~Kill(q) /\ ~Enter(q) /\ ~Exit(q) /\ \A m \in Maximum : ~SetInfo(q, m)
  BY DEF Kill, Enter, Exit, SetInfo
<1>4. \A n \in Name : ~Load(q, n) /\ \A b \in Space : ~BeginStore(q, n, b)
  BY DEF Load, BeginStore
<1>5. ~Fill(q) /\ ~CommitFails(q) /\ ~CommitInfo(q) /\ ~UndoInfo(q) /\ ~Unlock(q)
        /\ ~EndLoad(q) /\ ~Discard(q) /\ ~DiscardFails(q) /\ ~Deaccount(q)
        /\ ~RemoveFails(q)
  BY DEF Fill, CommitFails, CommitInfo, UndoInfo, Unlock, Left, EndLoad, Discard,
    DiscardFails, Deaccount, RemoveFails
<1>11. ~UndoSize(q) /\ ~UndoFails(q)
  BY DEF UndoSize, UndoFails, Leave
<1>6. ~TryAccount(q) /\ ~RetryAccount(q)
  BY DEF TryAccount, RetryAccount, Account
<1>7. ~ListObjects(q) /\ ~VisitSkip(q) /\ ~VisitFails(q) /\ ~VisitEnd(q)
  BY DEF ListObjects, VisitSkip, VisitFails, VisitEnd
<1>8. ~Rename(q)
  BY RenameMoves
<1>9. ASSUME Acts(q) \/ Kill(q)
      PROVE  list'[q] # <<>>
  BY <1>2, <1>3, <1>4, <1>5, <1>6, <1>7, <1>8, <1>9, <1>11 DEF Acts, Step
<1>10. CASE UNCHANGED vars
  BY <1>10 DEF vars, Listing
<1> QED
  BY <1>1, <1>9, <1>10 DEF Next, Acts

\* The end of the loop of _remove_lru leaves empty types.
LEMMA EndListType ==
  ASSUME SizeType, NEW p \in Proc, EndList(p)
  PROVE  /\ list' \in [Proc -> Seq([path : Place, obj : Obj])]
         /\ touched' \in [Proc -> SUBSET Obj]
         /\ space' \in [Proc -> Nat] /\ freed' \in [Proc -> Nat]
<1>1. <<>> \in Seq([path : Place, obj : Obj])
  OBVIOUS
<1> QED
  BY <1>1 DEF EndList, SizeType

\* The list of _remove_lru, and the one entry after the other.
LEMMA ListType ==
  ASSUME LockInv, Listing, SizeType, NEW p \in Proc, ListObjects(p) \/ VisitSkip(p) \/ Deaccount(p)
  PROVE  list' \in [Proc -> Seq([path : Place, obj : Obj])]
<1> DEFINE E == [path : Place, obj : Obj]
<1>1. list \in [Proc -> Seq(E)]
  BY DEF SizeType
<1>2. CASE ListObjects(p)
  <2> DEFINE objs == Only(lru, {o \in Obj : loc[o] # "stage"})
             l == [i \in DOMAIN objs |-> [path |-> loc[objs[i]], obj |-> objs[i]]]
  <2>1. list' = [list EXCEPT ![p] = l]
    BY <1>2 DEF ListObjects
  <2>2. objs \in Seq(Obj)
    BY OnlyType DEF SizeType
  <2> HIDE DEF objs
  <2>3. \A i \in 1..Len(objs) : objs[i] \in Obj /\ loc[objs[i]] \in Place
    BY <2>2 DEF LockInv, CacheType
  <2>4. DOMAIN objs = 1..Len(objs) /\ Len(objs) \in Nat
    BY <2>2
  <2>5. l \in [1..Len(objs) -> E]
    BY <2>3, <2>4
  <2>6. l \in Seq(E)
    BY <2>4, <2>5
  <2> HIDE DEF l
  <2> QED
    BY <1>1, <2>1, <2>6
<1>3. CASE VisitSkip(p) \/ Deaccount(p)
  <2>1. list[p] # <<>>
    BY <1>3 DEF VisitSkip, Deaccount, Listing, Removing
  <2>2. \/ list' = [list EXCEPT ![p] = Tail(@)]
        \/ list' = [list EXCEPT ![p] = <<>>]
    BY <1>3 DEF VisitSkip, Deaccount
  <2>3. list[p] \in Seq(E)
    BY <1>1
  <2>4. Tail(list[p]) \in Seq(E) /\ <<>> \in Seq(E)
    BY <2>1, <2>3
  <2> HIDE DEF E
  <2>5. list' \in [Proc -> Seq(E)]
    BY <1>1, <2>2, <2>4
  <2> QED
    BY <2>5, Zenon DEF E
<1> QED
  BY <1>2, <1>3

\* What an update of cache.size leaves, when store counts its object.
LEMMA AccountType ==
  ASSUME LockInv, SizeType, NEW p \in Proc, pc[p] \in StoreLabel, NEW l,
         Account(p, l)
  PROVE  size' \in Nat /\ Permitted(size)'
<1>1. bytes[own[p]] \in Int
  BY SizesAreNumbers DEF LockInv, Held
<1>2. CASE Resize(p, bytes[own[p]]) # TooBig /\ size' = Resize(p, bytes[own[p]])
  BY <1>1, <1>2, ResizePermitted DEF Permitted
<1>3. CASE UNCHANGED size
  BY <1>3 DEF SizeType, Permitted
<1> QED
  BY <1>2, <1>3 DEF Account

\* The types of one process's step.
LEMMA ActSizeType ==
  ASSUME LockInv, Listing, SizeType, NEW p \in Proc, kills' = kills, Acts(p)
  PROVE  SizeType'
<1> USE DEF SizeType
<1>0. Permitted(size)' = Permitted(size) \/ size' # size
  BY DEF Permitted
<1>1. CASE Enter(p) \/ Exit(p) \/ \E m \in Maximum : SetInfo(p, m)
  BY <1>0, <1>1 DEF Enter, Exit, SetInfo, objVars, listVars
<1>2. ASSUME NEW n \in Name, NEW b \in Space, BeginStore(p, n, b)
      PROVE  SizeType'
  <2>1. lru' \in Seq(Obj)
    BY <1>2 DEF BeginStore, Unused
  <2>2. UNCHANGED <<size, maximum, compatible, max, listVars, exc>>
    BY <1>2 DEF BeginStore
  <2> QED
    BY <1>0, <2>1, <2>2 DEF listVars
<1>3. ASSUME NEW n \in Name, Load(p, n)
      PROVE  SizeType'
  <2>1. PICK o \in At(n) :
          /\ lru' = Append(Only(lru, Obj \ {o}), o)
          /\ touched' = [q \in Proc |-> touched[q] \cup
               {x \in {o} : \E i \in DOMAIN list[q] : list[q][i].obj = x}]
    BY <1>3 DEF Load
  <2>2. o \in Obj
    BY <2>1 DEF At
  <2>3. Only(lru, Obj \ {o}) \in Seq(Obj)
    BY OnlyType
  <2>4. lru' \in Seq(Obj) /\ touched' \in [Proc -> SUBSET Obj]
    BY <2>1, <2>2, <2>3
  <2>5. UNCHANGED <<size, maximum, compatible, max, list, space, freed, exc>>
    BY <1>3 DEF Load
  <2> QED
    BY <1>0, <2>4, <2>5
<1>4. CASE \/ Fill(p) \/ CommitInfo(p) \/ CommitFails(p) \/ Rename(p) \/ UndoInfo(p)
           \/ UndoFails(p) \/ Unlock(p) \/ EndLoad(p) \/ RemoveData(p) \/ RemoveDir(p)
           \/ DiscardFails(p)
  <2>1. /\ UNCHANGED <<lru, size, maximum, compatible, max, listVars>>
        /\ exc' = exc \/ exc' = [exc EXCEPT ![p] = TRUE] \/ exc' = [exc EXCEPT ![p] = FALSE]
    BY <1>4 DEF Fill, CommitInfo, CommitFails, Rename, UndoInfo, UndoFails, Leave,
      Unlock, EndLoad, RemoveData, RemoveDir, DiscardFails, objVars
  <2> QED
    BY <1>0, <2>1 DEF listVars
<1>5. CASE TryAccount(p) \/ RetryAccount(p)
  <2>1. UNCHANGED <<lru, maximum, compatible, max, listVars, exc>>
    BY <1>5 DEF TryAccount, RetryAccount, objVars
  <2>2. pc[p] \in StoreLabel
    BY <1>5 DEF TryAccount, RetryAccount, StoreLabel
  <2>3. UNCHANGED size \/ \E l \in Label : Account(p, l)
    BY <1>5 DEF TryAccount, RetryAccount, Label
  <2>4. size' \in Nat /\ Permitted(size)'
    BY <1>0, <2>2, <2>3, AccountType
  <2> QED
    BY <2>1, <2>4 DEF listVars
<1>6. CASE ListObjects(p) \/ VisitSkip(p)
  <2>1. UNCHANGED <<lru, size, maximum, compatible, max, touched, space, freed, exc>>
    BY <1>6 DEF ListObjects, VisitSkip, objVars
  <2> QED
    BY <1>0, <1>6, <2>1, ListType
<1>7. CASE VisitFails(p) \/ VisitEnd(p) \/ RemoveFails(p)
  <2>1. UNCHANGED <<lru, size, maximum, compatible, max, exc>> /\ EndList(p)
    BY <1>7 DEF VisitFails, VisitEnd, RemoveFails, objVars
  <2> QED
    BY <1>0, <2>1, EndListType
<1>8. CASE VisitRemove(p)
  <2>1. \E o \in Obj : space' = [space EXCEPT ![p] = SpaceOf(o)]
    BY <1>8 DEF VisitRemove, Found, At
  <2>2. \A o \in Obj : SpaceOf(o) \in Nat
    BY SizesAreNumbers
  <2>3. UNCHANGED <<lru, size, maximum, compatible, max, list, touched, freed, exc>>
    BY <1>8 DEF VisitRemove
  <2> QED
    BY <1>0, <2>1, <2>2, <2>3
<1>9. CASE RemoveLock(p) \/ Discard(p)
  <2>1. \E o : lru' = Only(lru, Obj \ {o})
    BY <1>9 DEF RemoveLock, Discard, Clear
  <2>2. lru' \in Seq(Obj)
    BY <2>1, OnlyType
  <2>3. UNCHANGED <<size, maximum, compatible, max, listVars, exc>>
    BY <1>9 DEF RemoveLock, Discard
  <2> QED
    BY <1>0, <2>2, <2>3 DEF listVars
<1>11. CASE Deaccount(p)
  <2>1. /\ UNCHANGED <<lru, maximum, compatible, max, touched, exc>>
        /\ GiveBack(p, Entry(p).obj, space[p])
        /\ freed' = [freed EXCEPT ![p] = @ + space[p]]
        /\ space' = [space EXCEPT ![p] = 0]
    BY <1>11 DEF Deaccount
  <2>2. Entry(p).obj \in Obj
    BY <1>11 DEF Deaccount, LockInv, Evicting, Removing
  <2>4. size' \in Nat /\ Permitted(size)'
    BY <2>1, <2>2, GiveBackType
  <2>5. freed' \in [Proc -> Nat] /\ space' \in [Proc -> Nat]
    BY <2>1
  <2> QED
    BY <1>11, <2>1, <2>4, <2>5, ListType
<1>12. CASE UndoSize(p)
  <2>1. /\ UNCHANGED <<lru, maximum, compatible, max, listVars>>
        /\ GiveBack(p, own[p], bytes[own[p]])
        /\ exc' = [exc EXCEPT ![p] = FALSE]
    BY <1>12 DEF UndoSize, Leave, objVars
  <2>2. own[p] \in Obj
    BY <1>12 DEF UndoSize, LockInv, Held, StoreLabel
  <2>3. bytes[own[p]] \in Nat
    BY <2>2, SizesAreNumbers
  <2>4. size' \in Nat /\ Permitted(size)'
    BY <2>1, <2>2, <2>3, GiveBackType
  <2> QED
    BY <2>1, <2>4 DEF listVars
<1> QED
  BY <1>1, <1>2, <1>3, <1>4, <1>5, <1>6, <1>7, <1>8, <1>9, <1>11, <1>12 DEF Acts, Step

\* Every step keeps the types.
LEMMA StepSizeType ==
  ASSUME LockInv, Listing, SizeType, [Next]_vars
  PROVE  SizeType'
<1> USE DEF SizeType
<1>1. ASSUME NEW p \in Proc, Kill(p)
      PROVE  SizeType'
  <2>1. /\ UNCHANGED <<lru, size, maximum, compatible>> /\ EndList(p)
        /\ kills' = kills + 1 /\ kills < MaxKills
        /\ max' = [max EXCEPT ![p] = 0] /\ exc' = [exc EXCEPT ![p] = FALSE]
    BY <1>1 DEF Kill
  <2>2. kills' \in 0..MaxKills
    BY <2>1, CacheAssumption
  <2> QED
    BY <2>1, <2>2, EndListType DEF Permitted
<1>2. CASE Next
  BY <1>1, <1>2, ActSizeType DEF Next, Acts
<1>3. CASE UNCHANGED vars
  BY <1>3 DEF vars, objVars, listVars, Permitted
<1> QED
  BY <1>2, <1>3

\* At first there is nothing, under some maximum.
LEMMA InitSizeType == Init => SizeType
<1> SUFFICES ASSUME Init PROVE SizeType
  OBVIOUS
<1>1. <<>> \in Seq(Obj) /\ <<>> \in Seq([path : Place, obj : Obj])
  OBVIOUS
<1> QED
  BY <1>1, CacheAssumption DEF Init, SizeType, Permitted

\* All types, with what keeps them.
TypeInv == LockInv /\ SizeType /\ Listing

\* They hold at first...
LEMMA InitTypes == Init => TypeInv
BY InitCache, InitSizeType DEF TypeInv, CacheInv, Listing, Removing, Init

\* ... and after every step.
LEMMA StepTypes == TypeInv /\ [Next]_vars => TypeInv'
BY StepLocks, StepSizeType, StepListing DEF TypeInv

-----------------------------------------------------------------------------
(* What cache.size counts.                                                 *)

\* An object.lock is in a directory that is there.
GoneIsBare == \A o \in Obj : loc[o] = "gone" => "lock" \notin files[o]

\* Before store has counted its object, and once it gave it up.
Uncounted ==
  {"fill", "account", "list", "visit", "retry", "discard"} \cup Removing

\* What store is at keeps its object.lock to the end, and is not counted twice.
StoredCount(p) ==
  /\ pc[p] \in StoreLabel \ {"unlock"} => "lock" \in files[own[p]]
  /\ pc[p] \in Uncounted /\ "info" \notin files[own[p]] => acct[own[p]] = 0

\* What _remove_lru gives back is not less than what was counted.
RemovedCount(p) ==
  pc[p] \in Removing => acct[Entry(p).obj] <= space[p]

BeingRemoved(o) ==
  \E p \in Proc : pc[p] \in {"rmlock", "rmdir", "deaccount"} /\ Entry(p).obj = o

\* What is counted is whole and counted as a whole, or somebody removes it.
CountStands ==
  \A o \in Obj : acct[o] # 0 =>
    \/ data[o] = "whole" /\ acct[o] = bytes[o] /\ "lock" \in files[o]
    \/ BeingRemoved(o)

CountInv ==
  /\ GoneIsBare /\ CountStands
  /\ \A p \in Proc : StoredCount(p) /\ RemovedCount(p)

\* What cache.size says beyond what was added for all objects.
Balance == size - Cardinality(Counted(Obj))

\* As many bytes as the object counts for.
LEMMA BytesOf ==
  ASSUME NEW o, NEW n \in Nat
  PROVE  IsFiniteSet({o} \X (1..n)) /\ Cardinality({o} \X (1..n)) = n
<1>1. IsFiniteSet({o}) /\ Cardinality({o}) = 1
  BY FS_Singleton
<1>2. IsFiniteSet(1..n) /\ Cardinality(1..n) = n
  <2>1. IsFiniteSet(1..n) /\ Cardinality(1..n) = IF 1 > n THEN 0 ELSE n - 1 + 1
    BY FS_Interval
  <2> QED
    BY <2>1
<1>3. /\ IsFiniteSet({o} \X (1..n))
      /\ Cardinality({o} \X (1..n)) = Cardinality({o}) * Cardinality(1..n)
  BY <1>1, <1>2, FS_Product, Zenon
<1> QED
  BY <1>1, <1>2, <1>3

\* The bytes of o apart from those of all others.
LEMMA CountedApart ==
  ASSUME IsFiniteSet(Obj), NEW a \in [Obj -> Nat], NEW o \in Obj
  PROVE  LET all  == UNION {{x} \X (1..a[x]) : x \in Obj}
             rest == UNION {{x} \X (1..a[x]) : x \in Obj \ {o}}
         IN /\ IsFiniteSet(rest) /\ Cardinality(rest) \in Nat
            /\ Cardinality(all) = Cardinality(rest) + a[o]
<1> DEFINE Bytes(x) == {x} \X (1..a[x])
           rest == UNION {Bytes(x) : x \in Obj \ {o}}
           all  == UNION {Bytes(x) : x \in Obj}
<1>1. IsFiniteSet(rest) /\ Cardinality(rest) \in Nat
  <2>1. IsFiniteSet(Obj \ {o})
    BY FS_Subset
  <2>2. IsFiniteSet({Bytes(x) : x \in Obj \ {o}})
    <3> DEFINE f == [x \in Obj \ {o} |-> Bytes(x)]
               T == {Bytes(x) : x \in Obj \ {o}}
    <3>1. f \in Surjection(Obj \ {o}, T)
      BY DEF Surjection
    <3> QED
      BY <2>1, <3>1, FS_Surjection
  <2>3. \A B \in {Bytes(x) : x \in Obj \ {o}} : IsFiniteSet(B)
    <3>1. \A x \in Obj \ {o} : a[x] \in Nat
      OBVIOUS
    <3>2. \A x \in Obj \ {o} : IsFiniteSet(Bytes(x))
      BY <3>1, BytesOf
    <3> HIDE DEF Bytes
    <3> QED
      BY <3>2
  <2>4. IsFiniteSet(rest)
    BY <2>2, <2>3, FS_UNION, Zenon
  <2> QED
    BY <2>4, FS_CardinalityType
<1>2. IsFiniteSet(Bytes(o)) /\ Cardinality(Bytes(o)) = a[o]
  BY BytesOf
<1>3. all = rest \cup Bytes(o)
  OBVIOUS
<1>4. rest \cap Bytes(o) = {}
  OBVIOUS
<1>5. Cardinality(rest \cup Bytes(o))
        = Cardinality(rest) + Cardinality(Bytes(o)) - Cardinality(rest \cap Bytes(o))
  BY <1>1, <1>2, FS_Union, Zenon
<1>6. Cardinality(rest \cap Bytes(o)) = 0
  BY <1>4, FS_EmptySet, Zenon
<1> HIDE DEF rest, all, Bytes
<1>7. Cardinality(all) = Cardinality(rest) + a[o]
  BY <1>1, <1>2, <1>3, <1>5, <1>6
<1> QED
  BY <1>1, <1>7 DEF rest, all, Bytes

\* Counting k bytes for o instead of what it counted for.
LEMMA Recounted ==
  ASSUME IsFiniteSet(Obj), LockInv, NEW o \in Obj, NEW k \in Nat,
         acct' = [acct EXCEPT ![o] = k]
  PROVE  /\ Cardinality(Counted(Obj)) \in Nat /\ Cardinality(Counted(Obj))' \in Nat
         /\ acct[o] \in Nat
         /\ Cardinality(Counted(Obj))' = Cardinality(Counted(Obj)) - acct[o] + k
<1> DEFINE all(a)  == UNION {{x} \X (1..a[x]) : x \in Obj}
           rest(a) == UNION {{x} \X (1..a[x]) : x \in Obj \ {o}}
<1>1. acct \in [Obj -> Nat] /\ acct' \in [Obj -> Nat] /\ acct'[o] = k
  <2>1. \A x \in Obj : acct[x] \in Nat
    BY SizesAreNumbers
  <2> QED
    BY <2>1 DEF LockInv, CacheType
<1>2. \A x \in Obj \ {o} : acct'[x] = acct[x]
  BY DEF LockInv, CacheType
<1>3. rest(acct') = rest(acct)
  BY <1>2
<1>4. /\ Cardinality(rest(acct)) \in Nat
      /\ Cardinality(all(acct)) = Cardinality(rest(acct)) + acct[o]
  BY <1>1, CountedApart
<1>5. Cardinality(all(acct')) = Cardinality(rest(acct')) + acct'[o]
  BY <1>1, CountedApart
<1>6. Counted(Obj) = all(acct) /\ Counted(Obj)' = all(acct')
  BY DEF Counted
<1> HIDE DEF all, rest
<1> QED
  BY <1>1, <1>3, <1>4, <1>5, <1>6

\* It is a number.
LEMMA BalanceType ==
  ASSUME IsFiniteSet(Obj), TypeInv
  PROVE  Balance \in Int
<1>1. size \in Nat
  BY DEF TypeInv, SizeType
<1>2. Cardinality(Counted(Obj)) \in Nat
  <2>1. IsFiniteSet({{o} \X (1..acct[o]) : o \in Obj})
    <3> DEFINE T == {{o} \X (1..acct[o]) : o \in Obj}
               f == [o \in Obj |-> {o} \X (1..acct[o])]
    <3>1. f \in Surjection(Obj, T)
      BY DEF Surjection
    <3> QED
      BY <3>1, FS_Surjection
  <2>2. \A o \in Obj : IsFiniteSet({o} \X (1..acct[o]))
    BY SizesAreNumbers, BytesOf DEF TypeInv
  <2>3. \A B \in {{o} \X (1..acct[o]) : o \in Obj} : IsFiniteSet(B)
    <3> DEFINE Bytes(o) == {o} \X (1..acct[o])
    <3>1. \A o \in Obj : IsFiniteSet(Bytes(o))
      BY <2>2
    <3> HIDE DEF Bytes
    <3>2. \A B \in {Bytes(o) : o \in Obj} : IsFiniteSet(B)
      BY <3>1
    <3> QED
      BY <3>2 DEF Bytes
  <2>4. IsFiniteSet(Counted(Obj))
    BY <2>1, <2>3, FS_UNION, Zenon DEF Counted
  <2> QED
    BY <2>4, FS_CardinalityType
<1> QED
  BY <1>1, <1>2 DEF Balance

\* What is lost stays in cache.size.
LEMMA LoseBalance ==
  ASSUME IsFiniteSet(Obj), TypeInv, NEW o \in Obj, acct' = [acct EXCEPT ![o] = 0],
         UNCHANGED size
  PROVE  /\ Balance \in Int /\ Balance' \in Int
         /\ acct[o] \in Nat /\ Balance' = Balance + acct[o]
<1> DEFINE c == Cardinality(Counted(Obj))
<1>1. /\ c \in Nat /\ c' \in Nat /\ acct[o] \in Nat
      /\ c' = c - acct[o] + 0
  BY Recounted DEF TypeInv
<1>2. size \in Nat /\ size' = size
  BY DEF TypeInv, SizeType
<1>3. Balance = size - c /\ Balance' = size' - c'
  BY DEF Balance
<1> HIDE DEF c
<1> QED
  BY <1>1, <1>2, <1>3

\* Giving back at least what was counted: the balance does not rise, unless it
\* stays below zero or the update is refused, and falls by no more than the excess.
LEMMA GiveBackBalance ==
  ASSUME IsFiniteSet(Obj), TypeInv, NEW p \in Proc, NEW o \in Obj,
         NEW n \in Nat, acct[o] <= n, GiveBack(p, o, n)
  PROVE  /\ Balance \in Int /\ Balance' \in Int
         /\ Resize(p, -n) # TooBig => Balance' <= Balance \/ Balance' <= 0
         /\ Balance - Balance' <= n - acct[o]
<1> DEFINE c == Cardinality(Counted(Obj))
<1>1. acct' = [acct EXCEPT ![o] = 0]
  BY CountDropped
<1>2. c \in Nat /\ c' \in Nat /\ acct[o] \in Nat /\ c' = c - acct[o] + 0
  BY <1>1, Recounted DEF TypeInv
<1>3. size \in Nat /\ max[p] \in Maximum \cup {0}
  BY DEF TypeInv, SizeType
<1>4. Balance = size - c /\ Balance' = size' - c'
  BY DEF Balance
<1>5. -n \in Int
  OBVIOUS
<1>6. CASE Resize(p, -n) = TooBig
  <2>1. size' = size
    BY <1>6 DEF GiveBack
  <2> HIDE DEF c
  <2> QED
    BY <1>2, <1>3, <1>4, <1>6, <2>1
<1>7. CASE Resize(p, -n) # TooBig
  <2>1. size' = Resize(p, -n)
    BY <1>7 DEF GiveBack
  <2>2. \/ size + (-n) < 0 /\ size' = 0
        \/ size + (-n) >= 0 /\ size' = size + (-n)
    BY <1>3, <1>5, <1>7, <2>1, ResizeIs
  <2> HIDE DEF c
  <2> QED
    BY <1>2, <1>3, <1>4, <2>2
<1> QED
  BY <1>6, <1>7

\* Counting an object that was not counted changes both alike.
LEMMA AccountBalance ==
  ASSUME IsFiniteSet(Obj), TypeInv, NEW p \in Proc, own[p] \in Obj,
         acct[own[p]] = 0, NEW l, Account(p, l)
  PROVE  Balance' = Balance
<1> DEFINE c == Cardinality(Counted(Obj))
           b == bytes[own[p]]
<1>1. CASE UNCHANGED <<size, acct>>
  BY <1>1 DEF Balance, Counted
<1>2. CASE Resize(p, b) # TooBig /\ size' = Resize(p, b) /\ acct' = [acct EXCEPT ![own[p]] = b]
  <2>1. b \in Nat
    BY SizesAreNumbers DEF TypeInv
  <2>2. c \in Nat /\ c' \in Nat /\ c' = c - acct[own[p]] + b
    BY <1>2, <2>1, Recounted DEF TypeInv
  <2>3. size \in Nat /\ max[p] \in Maximum \cup {0}
    BY DEF TypeInv, SizeType
  <2>4. Balance = size - c /\ Balance' = size' - c'
    BY DEF Balance
  <2> HIDE DEF c, b
  <2>5. b \in Int
    BY <2>1
  <2>6. size' = size + b
    BY <1>2, <2>1, <2>3, <2>5, ResizeIs
  <2> QED
    BY <2>1, <2>2, <2>3, <2>4, <2>6
<1> QED
  BY <1>1, <1>2 DEF Account

\* What p stores, or removes.
Mine(p, o) ==
  \/ pc[p] \in StoreLabel /\ own[p] = o
  \/ pc[p] \in Removing /\ Entry(p).obj = o

\* It is locked, by p alone.
LEMMA MineIsLocked ==
  ASSUME TypeInv, NEW p \in Proc, NEW o \in Obj, Mine(p, o)
  PROVE  writer[o] = p /\ \A q \in Proc \ {p} : ~Mine(q, o)
<1>1. writer[o] = p
  BY DEF TypeInv, LockInv, Held, Evicting, Mine
<1>2. \A q \in Proc \ {p} : ~Mine(q, o)
  BY <1>1 DEF TypeInv, LockInv, Held, Evicting, Mine
<1> QED
  BY <1>1, <1>2

\* A step of p changes what is counted of its own objects only, unless it
\* begins to store where there was nothing.
LEMMA NotMine ==
  ASSUME TypeInv, NEW p \in Proc, Acts(p) \/ Kill(p), NEW o \in Obj, ~Mine(p, o)
  PROVE  /\ acct'[o] = acct[o]
         /\ \/ /\ data'[o] = data[o] /\ bytes'[o] = bytes[o]
               /\ "lock" \in files'[o] <=> "lock" \in files[o]
            \/ loc[o] = "gone" /\ writer[o] = NoProc
         /\ writer[o] # NoProc => files'[o] = files[o]
<1> DEFINE Same == /\ acct'[o] = acct[o] /\ data'[o] = data[o] /\ bytes'[o] = bytes[o]
                   /\ "lock" \in files'[o] <=> "lock" \in files[o]
                   /\ writer[o] # NoProc => files'[o] = files[o]
<1> USE DEF TypeInv, LockInv, CacheType
<1>1. CASE Kill(p)
  <2>1. \/ UNCHANGED acct
        \/ pc[p] \in Removing /\ acct' = [acct EXCEPT ![Entry(p).obj] = 0]
    BY <1>1, AbandonDrops DEF Kill
  <2>2. Same
    BY <1>1, <2>1 DEF Kill, Mine
  <2> QED
    BY <2>2
<1>2. CASE Enter(p) \/ Exit(p) \/ \E m \in Maximum : SetInfo(p, m)
  BY <1>2 DEF Enter, Exit, SetInfo, objVars
<1>3. ASSUME NEW n \in Name, Load(p, n)
      PROVE  Same
  BY <1>3 DEF Load
<1>4. ASSUME NEW n \in Name, NEW b \in Space, BeginStore(p, n, b)
      PROVE  acct'[o] = acct[o] /\ (Same \/ (loc[o] = "gone" /\ writer[o] = NoProc))
  <2>1. PICK x \in Unused : /\ files' = [files EXCEPT ![x] = {"lock"}]
                            /\ data' = [data EXCEPT ![x] = "part"]
                            /\ bytes' = [bytes EXCEPT ![x] = b]
    BY <1>4 DEF BeginStore
  <2>2. UNCHANGED acct
    BY <1>4 DEF BeginStore
  <2>3. loc[x] = "gone" /\ writer[x] = NoProc
    BY DEF Unused
  <2>4. CASE o # x
    <3>1. files'[o] = files[o] /\ data'[o] = data[o] /\ bytes'[o] = bytes[o]
      BY <2>1, <2>4
    <3>2. acct'[o] = acct[o]
      BY <2>2
    <3>3. Same
      BY <3>1, <3>2
    <3> QED
      BY <3>2, <3>3
  <2> QED
    BY <2>2, <2>3, <2>4
<1>5. CASE \/ ListObjects(p) \/ VisitSkip(p) \/ VisitFails(p) \/ VisitEnd(p)
           \/ CommitFails(p) \/ Rename(p) \/ Unlock(p) \/ EndLoad(p)
  BY <1>5 DEF ListObjects, VisitSkip, VisitFails, VisitEnd, CommitFails, Rename,
    Unlock, EndLoad, objVars
<1>6. CASE Fill(p) \/ TryAccount(p) \/ RetryAccount(p) \/ UndoSize(p) \/ UndoFails(p)
  <2>1. Mine(p, own[p])
    BY <1>6 DEF Fill, TryAccount, RetryAccount, UndoSize, UndoFails, Mine, StoreLabel
  <2>2. /\ UNCHANGED <<files, bytes>>
        /\ data' \in {data, [data EXCEPT ![own[p]] = "whole"]}
    BY <1>6 DEF Fill, TryAccount, RetryAccount, UndoSize, UndoFails, objVars
  <2>3. \/ UNCHANGED acct
        \/ \E b : acct' = [acct EXCEPT ![own[p]] = b]
    BY <1>6, CountDropped DEF Fill, TryAccount, RetryAccount, UndoSize, UndoFails,
      Account
  <2>4. Same
    BY <2>1, <2>2, <2>3
  <2> QED
    BY <2>4
<1>7. CASE VisitRemove(p) \/ UndoInfo(p) \/ CommitInfo(p)
  <2>1. \E x : /\ (x = own[p] /\ Mine(p, x)) \/ writer[x] = NoProc
               /\ \/ files' = [files EXCEPT ![x] = @ \ {"info"}]
                  \/ files' = [files EXCEPT ![x] = @ \cup {"info"}]
    BY <1>7 DEF VisitRemove, UndoInfo, CommitInfo, Uncommit, Mine, StoreLabel, Locked
  <2>2. UNCHANGED <<data, bytes, acct>>
    BY <1>7 DEF VisitRemove, UndoInfo, CommitInfo
  <2>3. Same
    BY <2>1, <2>2
  <2> QED
    BY <2>3
<1>8. CASE RemoveData(p) \/ RemoveDir(p) \/ RemoveFails(p) \/ Deaccount(p)
  <2>1. Mine(p, Entry(p).obj)
    BY <1>8 DEF RemoveData, RemoveDir, RemoveFails, Deaccount, Removing, Mine
  <2>2. /\ UNCHANGED <<files, bytes>>
        /\ data' \in {data, [data EXCEPT ![Entry(p).obj] = "part"]}
        /\ acct' \in {acct, [acct EXCEPT ![Entry(p).obj] = 0]}
    BY <1>8, CountDropped, AbandonDrops
      DEF RemoveData, RemoveDir, RemoveFails, Deaccount
  <2>3. Same
    BY <2>1, <2>2
  <2> QED
    BY <2>3
<1>9. CASE RemoveLock(p) \/ Discard(p)
  <2>1. PICK x : /\ Mine(p, x) /\ Clear(x)
                 /\ UNCHANGED acct \/ acct' = [acct EXCEPT ![x] = 0]
    BY <1>9, CountDropped DEF RemoveLock, Discard, Mine, Removing, StoreLabel
  <2>2. Same
    BY <2>1 DEF Clear
  <2> QED
    BY <2>2
<1>10. CASE DiscardFails(p)
  <2>1. UNCHANGED bytes /\ Mine(p, own[p])
    BY <1>10 DEF DiscardFails, Mine, StoreLabel
  <2>2. \/ UNCHANGED <<files, data, acct>>
        \/ /\ files' = [files EXCEPT ![own[p]] = @ \ {"info"}]
           /\ data' = [data EXCEPT ![own[p]] = "part"]
           /\ acct' = [acct EXCEPT ![own[p]] = 0]
    BY <1>10 DEF DiscardFails, Uncommit, Lose
  <2>3. Same
    BY <2>1, <2>2
  <2> QED
    BY <2>3
<1> QED
  BY <1>1, <1>2, <1>3, <1>4, <1>5, <1>6, <1>7, <1>8, <1>9, <1>10 DEF Acts, Step

\* No step leaves an object.lock where there is no directory.
LEMMA ActBare ==
  ASSUME TypeInv, GoneIsBare, NEW p \in Proc, Acts(p) \/ Kill(p)
  PROVE  GoneIsBare'
<1> SUFFICES ASSUME NEW o \in Obj, loc'[o] = "gone"
             PROVE  "lock" \notin files'[o]
  BY DEF GoneIsBare
<1> USE DEF TypeInv, LockInv, CacheType
<1>1. ASSUME loc'[o] = loc[o], "lock" \in files'[o] => "lock" \in files[o]
      PROVE  "lock" \notin files'[o]
  BY <1>1 DEF GoneIsBare
<1>2. CASE Kill(p) \/ Enter(p) \/ Exit(p) \/ \E m \in Maximum : SetInfo(p, m)
  BY <1>1, <1>2 DEF Kill, Enter, Exit, SetInfo, objVars
<1>3. CASE \E n \in Name : Load(p, n)
  BY <1>1, <1>3 DEF Load
<1>4. ASSUME NEW n \in Name, NEW b \in Space, BeginStore(p, n, b)
      PROVE  "lock" \notin files'[o]
  <2>1. PICK x \in Unused :
          /\ loc' = [loc EXCEPT ![x] = IF compatible THEN "uuid" ELSE "stage"]
          /\ files' = [files EXCEPT ![x] = {"lock"}]
    BY <1>4 DEF BeginStore
  <2>2. o # x
    BY <2>1 DEF Unused
  <2> QED
    BY <1>1, <2>1, <2>2
<1>5. CASE \/ Fill(p) \/ TryAccount(p) \/ RetryAccount(p) \/ UndoSize(p)
           \/ ListObjects(p) \/ VisitSkip(p) \/ VisitFails(p) \/ VisitEnd(p)
           \/ CommitFails(p) \/ Unlock(p) \/ EndLoad(p) \/ RemoveData(p) \/ Deaccount(p)
           \/ RemoveFails(p) \/ UndoFails(p)
  <2>1. UNCHANGED <<loc, files>>
    BY <1>5 DEF Fill, TryAccount, RetryAccount, UndoSize, ListObjects, VisitSkip,
      VisitFails, VisitEnd, CommitFails, Unlock, EndLoad, RemoveData, Deaccount,
      RemoveFails, UndoFails, objVars
  <2> QED
    BY <1>1, <2>1
<1>6. CASE VisitRemove(p) \/ UndoInfo(p) \/ CommitInfo(p) \/ DiscardFails(p)
  <2>1. \/ UNCHANGED files
        \/ \E x : files' = [files EXCEPT ![x] = @ \ {"info"}]
               \/ files' = [files EXCEPT ![x] = @ \cup {"info"}]
    BY <1>6 DEF VisitRemove, UndoInfo, CommitInfo, DiscardFails, Uncommit
  <2>2. UNCHANGED loc
    BY <1>6 DEF VisitRemove, UndoInfo, CommitInfo, DiscardFails
  <2> QED
    BY <1>1, <2>1, <2>2
<1>7. CASE RemoveLock(p)
  <2>1. UNCHANGED loc /\ \E x : files' = [files EXCEPT ![x] = {}]
    BY <1>7 DEF RemoveLock, Clear
  <2> QED
    BY <1>1, <2>1
<1>8. CASE RemoveDir(p)
  <2>1. UNCHANGED files
    BY <1>8 DEF RemoveDir
  <2>2. loc'[o] = loc[o] \/ Empty(o)
    BY <1>8 DEF RemoveDir
  <2> QED
    BY <1>1, <2>1, <2>2 DEF Empty
<1>9. CASE Rename(p)
  <2>1. UNCHANGED files
    BY <1>9 DEF Rename
  <2>2. want[p] \in Name
    BY <1>9 DEF Rename, Held, StoreLabel
  <2>3. want[p] # "gone"
    BY <2>2, CacheAssumption
  <2>4. loc'[o] = loc[o] \/ Empty(o)
    BY <1>9, <2>3, RenameMoves DEF At
  <2> QED
    BY <1>1, <2>1, <2>4 DEF Empty
<1>10. CASE Discard(p)
  <2>1. /\ loc' = [loc EXCEPT ![own[p]] = "gone"]
        /\ files' = [files EXCEPT ![own[p]] = {}]
    BY <1>10 DEF Discard, Clear
  <2> QED
    BY <1>1, <2>1
<1> QED
  BY <1>2, <1>3, <1>4, <1>5, <1>6, <1>7, <1>8, <1>9, <1>10 DEF Acts, Step

\* What is counted, and nobody is about to unlink or give back.
Whole(o) == data[o] = "whole" /\ acct[o] = bytes[o] /\ "lock" \in files[o]

\* What is counted is whole, unless its remover is past its object.lock or about
\* to unlink it.
LEMMA CountedIsWhole ==
  ASSUME TypeInv, CountStands, NEW o \in Obj, acct[o] # 0,
         \/ writer[o] = NoProc
         \/ \E p \in Proc : writer[o] = p /\ ~(/\ pc[p] \in {"rmlock", "rmdir", "deaccount"}
                                               /\ Entry(p).obj = o)
  PROVE  Whole(o)
<1>1. \A p \in Proc : pc[p] \in {"rmlock", "rmdir", "deaccount"} /\ Entry(p).obj = o
                        => writer[o] = p
  BY DEF TypeInv, LockInv, Evicting, Removing
<1>2. ~BeingRemoved(o)
  BY <1>1, CacheAssumption DEF BeingRemoved
<1> QED
  BY <1>2 DEF CountStands, Whole

\* What is nobody's and not there counts for nothing.
LEMMA GoneCountsNothing ==
  ASSUME TypeInv, GoneIsBare, CountStands, NEW o \in Obj, loc[o] = "gone", writer[o] = NoProc
  PROVE  acct[o] = 0
BY CountedIsWhole DEF GoneIsBare, Whole

\* What _calculate_space finds in an unlocked object is not less than its count.
LEMMA CountedIsSpace ==
  ASSUME TypeInv, CountStands, NEW o \in Obj, writer[o] = NoProc
  PROVE  acct[o] <= SpaceOf(o)
<1>1. bytes[o] \in Nat /\ acct[o] \in Nat /\ SpaceOf(o) \in Nat /\ Overhead \in Nat
  BY SizesAreNumbers, CacheAssumption DEF TypeInv
<1>2. CASE acct[o] # 0
  <2>1. Whole(o)
    BY <1>2, CountedIsWhole
  <2>2. SpaceOf(o) = Overhead + bytes[o]
    BY <2>1 DEF SpaceOf, Whole
  <2> QED
    BY <1>1, <2>1, <2>2 DEF Whole
<1> QED
  BY <1>1, <1>2

\* What p stores keeps its lock and is counted once.
LEMMA ActStored ==
  ASSUME TypeInv, CountInv, NEW p \in Proc, Acts(p) \/ Kill(p)
  PROVE  StoredCount(p)'
<1> USE DEF TypeInv, LockInv, CacheType, Goto, StoredCount
<1>1. CASE pc'[p] \notin StoreLabel
  BY <1>1 DEF StoreLabel, Uncounted
<1>2. CASE Kill(p) \/ Enter(p) \/ Exit(p) \/ \E m \in Maximum : SetInfo(p, m)
  <2>1. pc'[p] \notin StoreLabel
    BY <1>2 DEF Kill, Enter, Exit, SetInfo, StoreLabel, Removing
  <2> QED
    BY <1>1, <2>1
<1>3. CASE (\E n \in Name : Load(p, n)) \/ EndLoad(p) \/ Unlock(p) \/ DiscardFails(p)
  <2>1. pc'[p] \notin StoreLabel
    BY <1>3 DEF Load, EndLoad, Unlock, DiscardFails, Left, StoreLabel, Removing
  <2> QED
    BY <1>1, <2>1
<1>4. ASSUME NEW n \in Name, NEW b \in Space, BeginStore(p, n, b)
      PROVE  StoredCount(p)'
  <2>1. PICK x \in Unused : /\ files' = [files EXCEPT ![x] = {"lock"}]
                            /\ own' = [own EXCEPT ![p] = x]
    BY <1>4 DEF BeginStore
  <2>2. x \in Obj /\ loc[x] = "gone" /\ writer[x] = NoProc
    BY DEF Unused
  <2>3. acct[x] = 0
    BY <2>2, GoneCountsNothing DEF CountInv
  <2>4. UNCHANGED acct
    BY <1>4 DEF BeginStore
  <2> QED
    BY <2>1, <2>2, <2>3, <2>4
<1>5. CASE \/ Fill(p) \/ ListObjects(p) \/ VisitSkip(p) \/ VisitFails(p) \/ VisitEnd(p)
  <2>1. /\ UNCHANGED <<files, acct, own>>
        /\ pc[p] \in {"fill", "list", "visit"}
        /\ Fill(p) => compatible \/ pc'[p] = "discard"
    BY <1>5 DEF Fill, ListObjects, VisitSkip, VisitFails, VisitEnd, objVars
  <2> QED
    BY <2>1 DEF CountInv, Uncounted, StoreLabel
<1>6. CASE TryAccount(p) \/ RetryAccount(p)
  <2>1. /\ UNCHANGED <<files, own>> /\ pc[p] \in {"account", "retry"}
        /\ \/ UNCHANGED acct
           \/ pc'[p] = "commit"
    BY <1>6 DEF TryAccount, RetryAccount, Account, objVars
  <2> QED
    BY <2>1 DEF CountInv, Uncounted, StoreLabel, Removing
<1>7. CASE VisitRemove(p)
  <2>1. /\ UNCHANGED <<own, acct>> /\ pc[p] = "visit"
        /\ \E x : files' = [files EXCEPT ![x] = @ \ {"info"}]
    BY <1>7 DEF VisitRemove, Uncommit
  <2>2. own[p] \in Obj /\ "info" \notin files[own[p]]
    BY <2>1 DEF Held, StoreLabel, Committing, Commits
  <2> QED
    BY <2>1, <2>2 DEF CountInv, Uncounted, StoreLabel
<1>8. CASE RemoveData(p) \/ RemoveLock(p) \/ RemoveDir(p) \/ RemoveFails(p) \/ Deaccount(p)
  <2>1. /\ UNCHANGED own /\ pc[p] \in Removing
        /\ UNCHANGED files \/ files' = [files EXCEPT ![Entry(p).obj] = {}]
        /\ UNCHANGED acct \/ acct' = [acct EXCEPT ![Entry(p).obj] = 0]
    BY <1>8, CountDropped, AbandonDrops DEF RemoveData, RemoveLock, RemoveDir,
      RemoveFails, Deaccount, Clear, Removing
  <2>2. own[p] \in Obj /\ own[p] # Entry(p).obj
    BY <2>1 DEF Held, StoreLabel, Evicting
  <2>3. "lock" \in files[own[p]] /\ acct[own[p]] = 0
    BY <2>1 DEF CountInv, Uncounted, StoreLabel, Removing, Committing, Commits
  <2>4. files'[own[p]] = files[own[p]] /\ acct'[own[p]] = acct[own[p]]
    BY <2>1, <2>2
  <2> QED
    BY <2>1, <2>3, <2>4
<1>9. CASE CommitInfo(p) \/ CommitFails(p) \/ Rename(p) \/ UndoInfo(p)
  <2>1. /\ UNCHANGED own /\ pc[p] \in {"commit", "rename", "undoinfo"}
        /\ \/ UNCHANGED files
           \/ files' = [files EXCEPT ![own[p]] = @ \cup {"info"}]
           \/ files' = [files EXCEPT ![own[p]] = @ \ {"info"}]
    BY <1>9 DEF CommitInfo, CommitFails, Rename, UndoInfo, Uncommit, objVars
  <2>2. pc'[p] \in {"rename", "undoinfo", "unlock", "undosize"}
    BY <1>9, RenameMoves DEF CommitInfo, CommitFails, UndoInfo
  <2>3. own[p] \in Obj /\ "lock" \in files[own[p]]
    BY <2>1 DEF Held, StoreLabel, CountInv
  <2>4. "lock" \in files'[own[p]]
    BY <2>1, <2>3
  <2> QED
    BY <2>1, <2>2, <2>4 DEF Uncounted, Removing
<1>10. CASE UndoSize(p) \/ UndoFails(p)
  <2>1. /\ UNCHANGED <<files, own>> /\ pc[p] \in {"undoinfo", "undosize"}
        /\ "info" \in files[own[p]] \/ acct' = [acct EXCEPT ![own[p]] = 0]
    BY <1>10, CountDropped DEF UndoSize, UndoFails, objVars
  <2>2. own[p] \in Obj /\ "lock" \in files[own[p]]
    BY <2>1 DEF Held, StoreLabel, CountInv
  <2> QED
    BY <2>1, <2>2
<1>11. CASE Discard(p)
  <2>1. pc'[p] = "unlock"
    BY <1>11 DEF Discard
  <2> QED
    BY <2>1 DEF StoreLabel, Uncounted, Removing
<1> QED
  BY <1>2, <1>3, <1>4, <1>5, <1>6, <1>7, <1>8, <1>9, <1>10, <1>11 DEF Acts, Step

\* What p removes takes at least the space that was counted for it.
LEMMA ActRemoved ==
  ASSUME TypeInv, CountInv, NEW p \in Proc, Acts(p) \/ Kill(p)
  PROVE  RemovedCount(p)'
<1> SUFFICES ASSUME pc'[p] \in Removing
             PROVE  acct'[Entry(p)'.obj] <= space'[p]
  BY DEF RemovedCount
<1> USE DEF TypeInv, LockInv, CacheType, SizeType, Goto
<1>1. CASE VisitRemove(p)
  <2>1. PICK o \in Found(p) :
          /\ ~Locked(o) /\ ~UsedSince(p, o)
          /\ space' = [space EXCEPT ![p] = SpaceOf(o)]
    BY <1>1 DEF VisitRemove
  <2>2. UNCHANGED <<list, acct>>
    BY <1>1 DEF VisitRemove
  <2>3. o \in Obj /\ o = Entry(p).obj /\ writer[o] = NoProc
    BY <2>1 DEF Found, At, Locked, UsedSince
  <2>4. acct[o] <= SpaceOf(o)
    BY <2>3, CountedIsSpace DEF CountInv
  <2> QED
    BY <2>1, <2>2, <2>3, <2>4 DEF Entry
<1>2. CASE RemoveData(p) \/ RemoveLock(p) \/ RemoveDir(p)
  <2>1. UNCHANGED <<list, acct, space>>
    BY <1>2 DEF RemoveData, RemoveLock, RemoveDir, listVars
  <2>2. pc[p] \in Removing
    BY <1>2 DEF RemoveData, RemoveLock, RemoveDir, Removing
  <2>3. acct[Entry(p).obj] <= space[p]
    BY <2>2 DEF CountInv, RemovedCount
  <2> QED
    BY <2>1, <2>3 DEF Entry, Removing
<1> USE DEF Removing
<1>3. ~Kill(p) /\ ~Enter(p) /\ ~Exit(p) /\ \A m \in Maximum : ~SetInfo(p, m)
  BY DEF Kill, Enter, Exit, SetInfo
<1>4. \A n \in Name : ~Load(p, n) /\ \A b \in Space : ~BeginStore(p, n, b)
  BY DEF Load, BeginStore
<1>5. ~Fill(p) /\ ~CommitFails(p) /\ ~CommitInfo(p) /\ ~UndoInfo(p) /\ ~Unlock(p)
        /\ ~EndLoad(p) /\ ~Discard(p) /\ ~DiscardFails(p) /\ ~Deaccount(p)
        /\ ~RemoveFails(p)
  BY DEF Fill, CommitFails, CommitInfo, UndoInfo, Unlock, Left, EndLoad, Discard,
    DiscardFails, Deaccount, RemoveFails
<1>9. ~UndoSize(p) /\ ~UndoFails(p)
  BY DEF UndoSize, UndoFails, Leave
<1>6. ~TryAccount(p) /\ ~RetryAccount(p)
  BY DEF TryAccount, RetryAccount, Account
<1>7. ~ListObjects(p) /\ ~VisitSkip(p) /\ ~VisitFails(p) /\ ~VisitEnd(p)
  BY DEF ListObjects, VisitSkip, VisitFails, VisitEnd
<1>8. ~Rename(p)
  <2> SUFFICES ASSUME Rename(p) PROVE FALSE
    OBVIOUS
  <2>1. Goto(p, "unlock") \/ Goto(p, "undoinfo")
    BY RenameMoves
  <2> QED
    BY <2>1
<1> QED
  BY <1>1, <1>2, <1>3, <1>4, <1>5, <1>6, <1>7, <1>8, <1>9 DEF Acts, Step

\* What is counted of the objects of p stays whole until p unlinks it, and is
\* given back then.
LEMMA MineStands ==
  ASSUME TypeInv, CountInv, NEW p \in Proc, Acts(p) \/ Kill(p), NEW o \in Obj,
         Mine(p, o), acct'[o] # 0
  PROVE  Whole(o)' \/ BeingRemoved(o)'
<1> USE DEF TypeInv, LockInv, CacheType, Goto
<1>1. writer[o] = p
  BY MineIsLocked
<1>2. ASSUME acct[o] # 0,
             ~(pc[p] \in {"rmlock", "rmdir", "deaccount"} /\ Entry(p).obj = o)
      PROVE  Whole(o)
  BY <1>1, <1>2, CountedIsWhole DEF CountInv
<1>3. ASSUME pc[p] \in Uncounted \ {"discard"}, own[p] = o
      PROVE  acct[o] = 0
  <2>1. "info" \notin files[o]
    BY <1>3 DEF Uncounted, Committing, Commits
  <2> QED
    BY <1>3, <2>1 DEF CountInv, StoredCount
<1>4. CASE Kill(p)
  <2>1. UNCHANGED <<data, bytes, files>>
    BY <1>4 DEF Kill
  <2>2. acct' = acct \/ acct' = [acct EXCEPT ![Entry(p).obj] = 0]
    BY <1>4, AbandonDrops DEF Kill
  <2>3. acct'[o] = acct[o]
    BY <2>2
  <2>4. ~(pc[p] \in {"rmlock", "rmdir", "deaccount"} /\ Entry(p).obj = o)
    <3>1. pc[p] \in {"rmlock", "rmdir", "deaccount"} => acct'[Entry(p).obj] = 0
      BY <1>4 DEF Kill, Abandon, Lose, Removing, Evicting
    <3> QED
      BY <3>1
  <2>5. Whole(o)
    BY <1>2, <2>3, <2>4
  <2> QED
    BY <2>1, <2>3, <2>5 DEF Whole
<1>5. pc[p] \in StoreLabel
  BY DEF Mine, StoreLabel
<1>6. ~Enter(p) /\ ~Exit(p) /\ ~EndLoad(p)
      /\ (\A m \in Maximum : ~SetInfo(p, m))
      /\ \A n \in Name : ~Load(p, n) /\ \A b \in Space : ~BeginStore(p, n, b)
  BY <1>5 DEF Enter, Exit, SetInfo, Load, BeginStore, EndLoad, StoreLabel, Removing
<1>7. CASE pc[p] \notin Removing /\ Acts(p)
  <2>1. own[p] = o
    BY <1>7 DEF Mine
  <2>2. CASE TryAccount(p) \/ RetryAccount(p)
    <3>1. pc[p] \in {"account", "retry"} /\ UNCHANGED <<data, bytes, files>>
      BY <2>2 DEF TryAccount, RetryAccount, objVars
    <3>2. acct[o] = 0 /\ "lock" \in files[o] /\ data[o] = "whole"
      BY <2>1, <3>1 DEF CountInv, StoredCount, Uncounted, StoreLabel, Committing, Commits
    <3>3. acct'[o] = bytes[o]
      BY <2>1, <2>2, <3>2 DEF TryAccount, RetryAccount, Account
    <3> QED
      BY <3>1, <3>2, <3>3 DEF Whole
  <2>3. CASE UndoSize(p)
    <3>1. acct' = [acct EXCEPT ![o] = 0]
      BY <2>1, <2>3, CountDropped DEF UndoSize
    <3> QED
      BY <3>1
  <2>4. CASE \/ Fill(p) \/ ListObjects(p) \/ VisitRemove(p) \/ VisitSkip(p)
             \/ VisitFails(p) \/ VisitEnd(p)
    <3>1. pc[p] \in Uncounted \ {"discard"} /\ UNCHANGED acct
      BY <2>4 DEF Fill, ListObjects, VisitRemove, VisitSkip, VisitFails, VisitEnd,
        Uncounted
    <3> QED
      BY <1>3, <2>1, <3>1
  <2>7. CASE Discard(p)
    <3>1. acct' = [acct EXCEPT ![o] = 0]
      BY <2>1, <2>7 DEF Discard, Lose
    <3> QED
      BY <3>1
  <2>8. CASE UndoFails(p) \/ DiscardFails(p)
    <3>1. /\ UNCHANGED bytes
          /\ acct' = acct \/ acct' = [acct EXCEPT ![o] = 0]
      BY <2>1, <2>8 DEF UndoFails, DiscardFails, Lose, objVars
    <3>2. acct' = acct
      BY <3>1
    <3>3. UNCHANGED <<files, data>>
      <4>1. CASE UndoFails(p)
        BY <4>1 DEF UndoFails, objVars
      <4>2. CASE DiscardFails(p)
        <5>1. ~Lose(own[p])
          BY <2>1 DEF Lose
        <5> QED
          BY <4>2, <5>1 DEF DiscardFails
      <4> QED
        BY <2>8, <4>1, <4>2
    <3>4. Whole(o)
      BY <1>2, <1>7, <3>2 DEF Removing
    <3> QED
      BY <3>1, <3>2, <3>3, <3>4 DEF Whole
  <2>5. CASE CommitInfo(p) \/ CommitFails(p) \/ Rename(p) \/ UndoInfo(p) \/ Unlock(p)
    <3>1. /\ UNCHANGED <<data, bytes, acct>>
          /\ \/ UNCHANGED files
             \/ files' = [files EXCEPT ![o] = @ \cup {"info"}]
             \/ files' = [files EXCEPT ![o] = @ \ {"info"}]
      BY <2>1, <2>5 DEF CommitInfo, CommitFails, Rename, UndoInfo, Unlock, Uncommit,
        objVars
    <3>2. Whole(o)
      BY <1>2, <1>7, <3>1 DEF Removing
    <3>3. "lock" \in files'[o]
      BY <3>1, <3>2 DEF Whole
    <3> QED
      BY <3>1, <3>2, <3>3 DEF Whole
  <2>6. /\ ~RemoveData(p) /\ ~RemoveLock(p) /\ ~RemoveDir(p) /\ ~Deaccount(p)
        /\ ~RemoveFails(p)
    BY <1>7 DEF RemoveData, RemoveLock, RemoveDir, Deaccount, RemoveFails, Removing
  <2> QED
    BY <1>6, <1>7, <2>2, <2>3, <2>4, <2>5, <2>6, <2>7, <2>8 DEF Acts, Step
<1>8. CASE pc[p] \in Removing /\ Acts(p)
  <2>1. \/ RemoveData(p) \/ RemoveLock(p) \/ RemoveDir(p) \/ RemoveFails(p)
        \/ Deaccount(p)
    <3>1. /\ ~Fill(p) /\ ~TryAccount(p) /\ ~ListObjects(p) /\ ~VisitRemove(p)
          /\ ~VisitSkip(p) /\ ~VisitFails(p) /\ ~VisitEnd(p) /\ ~RetryAccount(p)
          /\ ~CommitInfo(p) /\ ~CommitFails(p) /\ ~Rename(p) /\ ~UndoInfo(p)
          /\ ~UndoSize(p) /\ ~UndoFails(p) /\ ~Discard(p) /\ ~DiscardFails(p)
          /\ ~Unlock(p)
      BY <1>8 DEF Fill, TryAccount, ListObjects, VisitRemove, VisitSkip, VisitFails,
        VisitEnd, RetryAccount, CommitInfo, CommitFails, Rename, UndoInfo, UndoSize,
        UndoFails, Discard, DiscardFails, Unlock, Removing
    <3> QED
      BY <1>6, <1>8, <3>1 DEF Acts, Step
  <2>2. acct' = acct \/ acct' = [acct EXCEPT ![Entry(p).obj] = 0]
    BY <2>1, CountDropped, AbandonDrops DEF RemoveData, RemoveLock, RemoveDir,
      RemoveFails, Deaccount
  <2>3. Entry(p).obj \in Obj
    BY <1>8 DEF Evicting
  <2>4. acct'[o] = acct[o]
    BY <2>2, <2>3
  <2>5. Entry(p).obj = o
    BY <1>3, <1>8, <2>4 DEF Mine, Uncounted, Removing
  <2>6. CASE RemoveFails(p)
    <3>1. UNCHANGED <<files, data, bytes>>
      BY <2>6 DEF RemoveFails
    <3>2. pc[p] = "rmdata"
      <4>1. ~Lose(Entry(p).obj)
        BY <2>3, <2>5 DEF Lose
      <4> QED
        BY <1>8, <2>6, <4>1 DEF RemoveFails, Abandon, Removing
    <3>3. Whole(o)
      BY <1>2, <2>4, <3>2
    <3> QED
      BY <2>4, <3>1, <3>3 DEF Whole
  <2>7. CASE ~RemoveFails(p)
    <3>1. ~Deaccount(p)
      <4>1. Deaccount(p) => acct' = [acct EXCEPT ![o] = 0]
        BY <2>5, CountDropped DEF Deaccount
      <4> QED
        BY <4>1
    <3>2. UNCHANGED <<list, acct>> /\ pc'[p] \in {"rmlock", "rmdir", "deaccount"}
      BY <2>1, <2>7, <3>1 DEF RemoveData, RemoveLock, RemoveDir, listVars
    <3> QED
      BY <2>5, <3>2 DEF BeingRemoved, Entry
  <2> QED
    BY <2>6, <2>7
<1> QED
  BY <1>4, <1>7, <1>8

\* What is counted stands, or is being removed.
LEMMA ActStands ==
  ASSUME TypeInv, CountInv, NEW p \in Proc, Acts(p) \/ Kill(p)
  PROVE  CountStands'
<1> SUFFICES ASSUME NEW o \in Obj, acct'[o] # 0
             PROVE  Whole(o)' \/ BeingRemoved(o)'
  BY DEF CountStands, Whole
<1>1. CASE Mine(p, o)
  BY <1>1, MineStands
<1>2. CASE ~Mine(p, o)
  <2>1. /\ acct'[o] = acct[o]
        /\ \/ /\ data'[o] = data[o] /\ bytes'[o] = bytes[o]
              /\ "lock" \in files'[o] <=> "lock" \in files[o]
           \/ loc[o] = "gone" /\ writer[o] = NoProc
    BY <1>2, NotMine
  <2>2. ~(loc[o] = "gone" /\ writer[o] = NoProc)
    BY <2>1, GoneCountsNothing DEF CountInv
  <2>3. CASE Whole(o)
    BY <2>1, <2>2, <2>3 DEF Whole
  <2>4. CASE BeingRemoved(o)
    <3>1. PICK q \in Proc : pc[q] \in {"rmlock", "rmdir", "deaccount"} /\ Entry(q).obj = o
      BY <2>4 DEF BeingRemoved
    <3>2. q # p
      BY <1>2, <3>1 DEF Mine, Removing
    <3>3. pc'[q] = pc[q] /\ list'[q] = list[q]
      BY <3>2, OthersStay DEF TypeInv
    <3> QED
      BY <3>1, <3>3 DEF BeingRemoved, Entry
  <2> QED
    BY <2>1, <2>3, <2>4 DEF CountInv, CountStands, Whole
<1> QED
  BY <1>1, <1>2

\* What the others store or remove p does not touch.
LEMMA OthersCounted ==
  ASSUME TypeInv, CountInv, NEW p \in Proc, Acts(p) \/ Kill(p), NEW q \in Proc \ {p}
  PROVE  StoredCount(q)' /\ RemovedCount(q)'
<1>1. pc'[q] = pc[q] /\ own'[q] = own[q] /\ list'[q] = list[q] /\ space'[q] = space[q]
  BY OthersStay DEF TypeInv
<1>2. \A o \in Obj : Mine(q, o) => acct'[o] = acct[o] /\ files'[o] = files[o]
  <2> SUFFICES ASSUME NEW o \in Obj, Mine(q, o)
               PROVE  acct'[o] = acct[o] /\ files'[o] = files[o]
    OBVIOUS
  <2>1. writer[o] = q /\ ~Mine(p, o)
    BY MineIsLocked
  <2>2. writer[o] # NoProc
    BY <2>1, CacheAssumption
  <2> QED
    BY <2>1, <2>2, NotMine
<1>3. /\ pc[q] \in StoreLabel => own[q] \in Obj /\ Mine(q, own[q])
      /\ pc[q] \in Removing => Entry(q).obj \in Obj /\ Mine(q, Entry(q).obj)
  BY DEF TypeInv, LockInv, Held, Evicting, Mine
<1>4. StoredCount(q)'
  <2>1. StoredCount(q)
    BY DEF CountInv
  <2>2. pc[q] \in Uncounted => pc[q] \in StoreLabel
    BY DEF Uncounted, StoreLabel
  <2> QED
    BY <1>1, <1>2, <1>3, <2>1, <2>2 DEF StoredCount
<1>5. RemovedCount(q)'
  <2>1. RemovedCount(q)
    BY DEF CountInv
  <2> QED
    BY <1>1, <1>2, <1>3, <2>1 DEF RemovedCount, Entry
<1> QED
  BY <1>4, <1>5

\* What a step of p makes cache.size say beyond what was added for the objects.
Rises(p) == Balance' > 0 /\ Balance' > Balance => Leaks(p)

Falls(p) ==
  Balance' < Balance =>
    /\ pc[p] = "deaccount" /\ pc'[p] = "visit"
    /\ Balance - Balance' <= space[p] - acct[Entry(p).obj]

\* It comes to say more where p loses a count, and less where _remove_lru gives back
\* more than was added.
LEMMA ActBalance ==
  ASSUME IsFiniteSet(Obj), TypeInv, CountInv, NEW p \in Proc, Acts(p) \/ Kill(p)
  PROVE  /\ Balance \in Int /\ Balance' \in Int
         /\ Rises(p) /\ Falls(p)
<1> DEFINE Goal == /\ Balance \in Int /\ Balance' \in Int
                   /\ Rises(p) /\ Falls(p)
<1> SUFFICES Goal
  OBVIOUS
<1>0. Balance \in Int
  BY BalanceType
<1>1. ASSUME UNCHANGED <<size, acct>>
      PROVE  Goal
  <2>1. Balance' = Balance
    BY <1>1 DEF Balance, Counted
  <2> QED
    BY <1>0, <2>1 DEF Rises, Falls
<1>2. ASSUME NEW o \in Obj, acct' = [acct EXCEPT ![o] = 0], UNCHANGED size,
             Leaks(p) \/ acct[o] = 0
      PROVE  Goal
  <2>1. Balance' \in Int /\ acct[o] \in Nat /\ Balance' = Balance + acct[o]
    BY <1>2, LoseBalance
  <2>2. Balance' >= Balance
    BY <1>0, <2>1
  <2>3. Falls(p)
    BY <1>0, <2>1, <2>2 DEF Falls
  <2>4. Leaks(p) \/ Balance' = Balance
    BY <1>0, <1>2, <2>1
  <2>5. Rises(p)
    BY <1>0, <2>4 DEF Rises
  <2> QED
    BY <1>0, <2>1, <2>3, <2>5
<1>3. CASE TryAccount(p) \/ RetryAccount(p)
  <2>1. /\ UNCHANGED <<size, acct>> \/ \E l : Account(p, l)
        /\ pc[p] \in {"account", "retry"}
    BY <1>3 DEF TryAccount, RetryAccount
  <2>2. own[p] \in Obj
    BY <2>1 DEF TypeInv, LockInv, Held, StoreLabel
  <2>3. "info" \notin files[own[p]]
    BY <2>1 DEF TypeInv, LockInv, Committing, Commits
  <2>4. acct[own[p]] = 0
    BY <2>1, <2>3 DEF CountInv, StoredCount, Uncounted
  <2>5. CASE \E l : Account(p, l)
    <3>1. Balance' = Balance
      BY <2>2, <2>4, <2>5, AccountBalance
    <3> QED
      BY <1>0, <3>1 DEF Rises, Falls
  <2> QED
    BY <1>1, <2>1, <2>5
<1>4. CASE UndoSize(p)
  <2>1. pc[p] = "undosize" /\ GiveBack(p, own[p], bytes[own[p]])
    BY <1>4 DEF UndoSize
  <2>2. own[p] \in Obj /\ acct[own[p]] = bytes[own[p]]
    BY <2>1 DEF TypeInv, LockInv, Held, StoreLabel, Committing, Commits
  <2>3. bytes[own[p]] \in Nat /\ acct[own[p]] \in Nat
    BY <2>2, SizesAreNumbers DEF TypeInv
  <2>4. acct[own[p]] <= bytes[own[p]] /\ bytes[own[p]] - acct[own[p]] = 0
    BY <2>2, <2>3
  <2>5. /\ Balance' \in Int
        /\ Resize(p, -bytes[own[p]]) # TooBig => Balance' <= Balance \/ Balance' <= 0
        /\ Balance - Balance' <= bytes[own[p]] - acct[own[p]]
    BY <2>1, <2>2, <2>3, <2>4, GiveBackBalance
  <2>6. Falls(p)
    BY <1>0, <2>4, <2>5 DEF Falls
  <2>7. CASE Resize(p, -bytes[own[p]]) = TooBig
    <3>1. Leaks(p)
      BY <2>1, <2>7 DEF Leaks
    <3> QED
      BY <1>0, <2>5, <2>6, <3>1 DEF Rises
  <2>8. CASE Resize(p, -bytes[own[p]]) # TooBig
    <3>1. Balance' <= Balance \/ Balance' <= 0
      BY <2>5, <2>8
    <3>2. Rises(p)
      BY <1>0, <2>5, <3>1 DEF Rises
    <3> QED
      BY <1>0, <2>5, <2>6, <3>2
  <2> QED
    BY <2>7, <2>8
<1>5. CASE Deaccount(p)
  <2> DEFINE o == Entry(p).obj
  <2>1. pc[p] = "deaccount" /\ GiveBack(p, o, space[p])
    BY <1>5 DEF Deaccount
  <2>2. pc'[p] = "visit"
    BY <1>5 DEF Deaccount, Goto, TypeInv, LockInv, CacheType
  <2>3. o \in Obj /\ space[p] \in Nat
    BY <2>1 DEF TypeInv, LockInv, Evicting, Removing, SizeType
  <2>4. acct[o] <= space[p]
    BY <2>1 DEF CountInv, RemovedCount, Removing
  <2>5. /\ Balance' \in Int
        /\ Resize(p, -space[p]) # TooBig => Balance' <= Balance \/ Balance' <= 0
        /\ Balance - Balance' <= space[p] - acct[o]
    BY <2>1, <2>3, <2>4, GiveBackBalance
  <2>6. Falls(p)
    BY <2>1, <2>2, <2>5 DEF Falls
  <2>7. CASE Resize(p, -space[p]) = TooBig
    <3>1. Leaks(p)
      BY <2>1, <2>7 DEF Leaks
    <3> QED
      BY <1>0, <2>5, <2>6, <3>1 DEF Rises
  <2>8. CASE Resize(p, -space[p]) # TooBig
    <3>1. Balance' <= Balance \/ Balance' <= 0
      BY <2>5, <2>8
    <3>2. Rises(p)
      BY <1>0, <2>5, <3>1 DEF Rises
    <3> QED
      BY <1>0, <2>5, <2>6, <3>2
  <2> QED
    BY <2>7, <2>8
<1>6. CASE RemoveFails(p) \/ Kill(p)
  <2>1. /\ UNCHANGED size /\ Abandon(p) /\ pc'[p] \in {"out", "discard"}
    BY <1>6 DEF RemoveFails, Kill, Goto, TypeInv, LockInv, CacheType
  <2>2. CASE UNCHANGED acct
    BY <1>1, <2>1, <2>2
  <2>3. CASE /\ pc[p] \in Removing \ {"rmdata"}
             /\ acct' = [acct EXCEPT ![Entry(p).obj] = 0]
    <3>1. Entry(p).obj \in Obj
      BY <2>3 DEF TypeInv, LockInv, Evicting
    <3>2. Leaks(p)
      BY <2>1, <2>3 DEF Leaks
    <3> QED
      BY <1>2, <2>1, <2>3, <3>1, <3>2
  <2> QED
    BY <2>1, <2>2, <2>3, AbandonDrops
<1>7. CASE UndoFails(p)
  <2>1. /\ UNCHANGED size
        /\ UNCHANGED acct \/ acct' = [acct EXCEPT ![own[p]] = 0]
    BY <1>7 DEF UndoFails, Lose
  <2>2. own[p] \in Obj
    BY <1>7 DEF UndoFails, TypeInv, LockInv, Held, StoreLabel
  <2>3. Leaks(p)
    BY <1>7 DEF Leaks
  <2> QED
    BY <1>1, <1>2, <2>1, <2>2, <2>3
<1>8. CASE Discard(p) \/ DiscardFails(p)
  <2>1. /\ UNCHANGED size /\ pc[p] = "discard"
        /\ UNCHANGED acct \/ acct' = [acct EXCEPT ![own[p]] = 0]
    BY <1>8 DEF Discard, DiscardFails, Lose
  <2>2. own[p] \in Obj
    BY <2>1 DEF TypeInv, LockInv, Held, StoreLabel
  <2>3. Leaks(p) \/ acct[own[p]] = 0
    BY <2>1 DEF Leaks, CountInv, StoredCount, Uncounted
  <2> QED
    BY <1>1, <1>2, <2>1, <2>2, <2>3
<1>9. CASE Enter(p) \/ Exit(p) \/ (\E m \in Maximum : SetInfo(p, m))
           \/ \E n \in Name : Load(p, n) \/ \E b \in Space : BeginStore(p, n, b)
  BY <1>1, <1>9 DEF Enter, Exit, SetInfo, Load, BeginStore
<1>10. CASE \/ Fill(p) \/ ListObjects(p) \/ VisitRemove(p) \/ VisitSkip(p)
            \/ VisitFails(p) \/ VisitEnd(p) \/ RemoveData(p) \/ RemoveLock(p)
            \/ RemoveDir(p)
  BY <1>1, <1>10 DEF Fill, ListObjects, VisitRemove, VisitSkip, VisitFails, VisitEnd,
    RemoveData, RemoveLock, RemoveDir
<1>11. CASE \/ CommitInfo(p) \/ CommitFails(p) \/ Rename(p) \/ UndoInfo(p)
            \/ Unlock(p) \/ EndLoad(p)
  BY <1>1, <1>11 DEF CommitInfo, CommitFails, Rename, UndoInfo, Unlock, EndLoad
<1> HIDE DEF Goal
<1> QED
  BY <1>3, <1>4, <1>5, <1>6, <1>7, <1>8, <1>9, <1>10, <1>11 DEF Acts, Step

\* At first nothing is counted.
LEMMA InitCount == Init => CountInv
<1> SUFFICES ASSUME Init PROVE CountInv
  OBVIOUS
<1>1. GoneIsBare /\ CountStands
  BY DEF Init, GoneIsBare, CountStands
<1>2. ASSUME NEW p \in Proc
      PROVE  StoredCount(p) /\ RemovedCount(p)
  BY DEF Init, StoredCount, RemovedCount, StoreLabel, Uncounted, Removing
<1> QED
  BY <1>1, <1>2 DEF CountInv

\* Every step keeps the count.
LEMMA StepCount ==
  ASSUME TypeInv, CountInv, [Next]_vars
  PROVE  CountInv'
<1>1. ASSUME NEW p \in Proc, Acts(p) \/ Kill(p)
      PROVE  CountInv'
  <2>1. GoneIsBare' /\ CountStands'
    BY <1>1, ActBare, ActStands DEF CountInv
  <2>2. \A q \in Proc : StoredCount(q)' /\ RemovedCount(q)'
    BY <1>1, ActStored, ActRemoved, OthersCounted
  <2> QED
    BY <2>1, <2>2 DEF CountInv
<1>2. CASE UNCHANGED vars
  BY <1>2 DEF vars, objVars, listVars, CountInv, GoneIsBare, CountStands,
    StoredCount, RemovedCount, BeingRemoved, Entry
<1>3. CASE Next
  BY <1>1, <1>3 DEF Next, Acts
<1> QED
  BY <1>2, <1>3

\* What is counted is there, or being removed.
LEMMA CountIsThere == TypeInv /\ CountInv => Excess = Balance
<1> SUFFICES ASSUME TypeInv, CountInv PROVE Excess = Balance
  OBVIOUS
<1>1. \A o \in Obj : acct[o] # 0 => o \in There
  BY DEF There, CountInv, CountStands, GoneIsBare, BeingRemoved, Removing
<1>2. \A o \in Obj \ There : 1..acct[o] = {}
  BY <1>1
<1>3. Counted(There) = Counted(Obj)
  <2>1. \A e : e \in Counted(Obj) <=> \E o \in Obj : e \in {o} \X (1..acct[o])
    BY DEF Counted
  <2>2. \A e : e \in Counted(There) <=> \E o \in There : e \in {o} \X (1..acct[o])
    BY DEF Counted
  <2>3. \A o \in Obj \ There : \A e : e \notin {o} \X (1..acct[o])
    BY <1>2
  <2>4. There \subseteq Obj
    BY DEF There
  <2>5. \A e : e \in Counted(There) <=> e \in Counted(Obj)
    BY <2>1, <2>2, <2>3, <2>4, Zenon
  <2> QED
    BY <2>5
<1> QED
  BY <1>3 DEF Excess, Balance

\* What cache.size says beyond what is there rises and falls as it should.
LEMMA StepExcess ==
  ASSUME IsFiniteSet(Obj), TypeInv, CountInv, Excess = Balance, (Excess = Balance)',
         [Next]_vars
  PROVE  /\ [Excess' > 0 /\ Excess' > Excess => \E p \in Proc : Leaks(p)]_vars
         /\ [Excess' < 0 /\ Excess' < Excess => \E p \in Proc : Overdraws(p)]_vars
<1>1. CASE UNCHANGED vars
  BY <1>1
<1>2. CASE Next
  <2>1. PICK p \in Proc : Acts(p) \/ Kill(p)
    BY <1>2 DEF Next, Acts
  <2>2. /\ Balance \in Int /\ Balance' \in Int
        /\ Rises(p) /\ Falls(p)
    BY <2>1, ActBalance
  <2>3. Excess = Balance /\ Excess' = Balance'
    OBVIOUS
  <2>4. Excess' > 0 /\ Excess' > Excess => Leaks(p)
    BY <2>2, <2>3 DEF Rises
  <2>5. Excess' < Excess => Overdraws(p)
    BY <2>2, <2>3 DEF Falls, Overdraws
  <2> QED
    BY <2>4, <2>5
<1> QED
  BY <1>1, <1>2

-----------------------------------------------------------------------------
(* The results.                                                            *)

\* Every variable of fscache.py keeps its type: cache.size is never negative
\* and never above all maximum-size values users set, and what is removed has
\* an entry of the list.
THEOREM TypeCorrect == Spec => []TypeOK
<1>1. TypeInv => TypeOK
  BY DEF TypeInv, LockInv, CacheType, SizeType, Permitted, TypeOK
<1> QED
  BY InitTypes, StepTypes, <1>1, PTL DEF Spec

\* What was counted stands or is being removed, in every run.
LEMMA CountHolds == Spec => [](TypeInv /\ CountInv)
<1>1. Init => TypeInv /\ CountInv
  BY InitTypes, InitCount
<1>2. TypeInv /\ CountInv /\ [Next]_vars => (TypeInv /\ CountInv)'
  BY StepTypes, StepCount
<1> QED
  BY <1>1, <1>2, PTL DEF Spec

\* cache.size comes to hold bytes of objects that are not there, or more of them, only
\* by the steps Leaks names: no interleaving of store, load and _remove_lru counts an
\* object twice, or removes one without giving back what was added for it.
THEOREM OvercountsAreCaused ==
  ASSUME IsFiniteSet(Obj)
  PROVE  Spec => OvercountHasCause
<1>1. /\ TypeInv /\ CountInv /\ Excess = Balance /\ (Excess = Balance)'
      /\ [Next]_vars
      => [Excess' > 0 /\ Excess' > Excess => \E p \in Proc : Leaks(p)]_vars
  BY StepExcess
<1> QED
  BY <1>1, CountHolds, CountIsThere, PTL DEF Spec, OvercountHasCause

\* cache.size comes to count less than was added for what is there, or still less,
\* only where _remove_lru gives back what a directory takes and not what store added
\* for it, and by no more than the difference.
THEOREM UndercountsAreCaused ==
  ASSUME IsFiniteSet(Obj)
  PROVE  Spec => UndercountHasCause
<1>1. /\ TypeInv /\ CountInv /\ Excess = Balance /\ (Excess = Balance)'
      /\ [Next]_vars
      => [Excess' < 0 /\ Excess' < Excess => \E p \in Proc : Overdraws(p)]_vars
  BY StepExcess
<1> QED
  BY <1>1, CountHolds, CountIsThere, PTL DEF Spec, UndercountHasCause

\* The invariant holds in every run of the cache, whatever is killed when and whichever
\* system call fails: the locks of fscache.py alone keep it.
THEOREM CacheHolds == Spec => []CacheInv
<1>1. CacheInv /\ [Next]_vars => CacheInv'
  BY StepLocks, StepInfo, StepRead, StepReader DEF CacheInv
<1> QED
  BY InitCache, <1>1, PTL DEF Spec

\* An object.info stands only for data that is whole, whose bytes were added to
\* cache.size and not given back for it, whoever is killed or fails between the steps
\* of store and of _rm_r_object.
THEOREM InfoIsHonest == Spec => []InfoMeansWhole
<1>1. CacheInv => InfoMeansWhole
  BY DEF CacheInv, InfoStands, InfoMeansWhole
<1> QED
  BY <1>1, CacheHolds, PTL

\* Who loads an object has it under the name it asked for, locked against writers and
\* removal, and whole if it has an object.info; of an object without one, whose
\* removal was killed or failed halfway, load may hand out a part.
THEOREM ReadersAreSafe == Spec => []ReaderSeesWhole
<1>1. CacheInv => ReaderSeesWhole
  BY DEF CacheInv
<1> QED
  BY <1>1, CacheHolds, PTL

\* While somebody reads an object no step changes its data, committed or not, or moves
\* it to another place: eviction meets its lock, os.rename and os.rmdir its
\* object.lock.
THEOREM ReadsAreStable ==
  Spec => [][\A o \in Obj : readers[o] # {} =>
               data'[o] = data[o] /\ loc'[o] = loc[o]]_vars
<1>1. CacheInv /\ [Next]_vars =>
        [\A o \in Obj : readers[o] # {} =>
           data'[o] = data[o] /\ loc'[o] = loc[o]]_vars
  <2> SUFFICES ASSUME CacheInv, [Next]_vars, NEW o \in Obj, readers[o] # {}
               PROVE  data'[o] = data[o] /\ loc'[o] = loc[o]
    OBVIOUS
  <2>1. PICK p \in Proc : p \in readers[o]
    BY DEF CacheInv, LockInv, CacheType
  <2>2. pc[p] = "reading" /\ own[p] = o
    BY <2>1 DEF CacheInv, LockInv, Readers
  <2>3. "lock" \in files[o]
    BY <2>2 DEF CacheInv, ReadIsLocked
  <2> QED
    BY <2>3, ReadIsKept DEF CacheInv, Empty
<1> QED
  BY <1>1, CacheHolds, PTL DEF Spec
=============================================================================
