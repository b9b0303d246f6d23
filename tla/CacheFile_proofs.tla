-------------------------- MODULE CacheFile_proofs --------------------------
(***************************************************************************)
(* CacheFile implements AtomicFile for any number of processes, any kind   *)
(* of content and any updates.                                             *)
(***************************************************************************)
EXTENDS CacheFile, TLAPS

Calling == {"open", "lock", "check", "update", "replace"}
Opened  == {"lock", "check", "update", "replace"}

\* Where a process is tells what it has open, what it has locked and what its
\* temporary file holds.
Held ==
  \A p \in Proc :
    /\ pc[p] \notin {"out", "link"} => cur # NoInode
    /\ pc[p] \in Calling <=> call[p] # NoCall
    /\ pc[p] \in Opened => fd[p] # NoInode
    /\ pc[p] \in {"check", "update", "replace"} => owner[fd[p]] = p
    /\ pc[p] \in {"update", "replace"} => fd[p] = cur
    /\ pc[p] \in {"link", "replace"} => tmp[p] # NoInode
    /\ pc[p] = "link" => content[tmp[p]] = Initial
    /\ pc[p] = "replace" =>
         tmp[p] # cur /\ content[tmp[p]] = After(content[cur], call[p])

Inv == TypeOK /\ Held

\* A new temporary file disturbs nobody: its inode was not in use.
LEMMA MakeTmpFresh ==
  ASSUME TypeOK, NEW p \in Proc, NEW v \in Value, MakeTmp(p, v)
  PROVE  /\ tmp' \in [Proc -> Inode \cup {NoInode}]
         /\ content' \in [Inode -> Value]
         /\ owner' \in [Inode -> Proc \cup {NoProc}]
         /\ tmp'[p] \in Free
         /\ content'[tmp'[p]] = v
         /\ \A q \in Proc \ {p} : tmp'[q] = tmp[q]
         /\ \A j \in Inode \ Free : content'[j] = content[j]
                                    /\ owner'[j] = owner[j]
  <1> DEFINE i == CHOOSE i \in Free : TRUE
  <1>1. i \in Free
    BY DEF MakeTmp
  <1>2. i \in Inode
    BY <1>1 DEF Free
  <1>3. /\ tmp' = [tmp EXCEPT ![p] = i]
        /\ content' = [content EXCEPT ![i] = v]
        /\ owner' = [owner EXCEPT ![i] = p]
    BY DEF MakeTmp
  <1> HIDE DEF i
  <1>4. tmp'[p] = i
    BY <1>3 DEF TypeOK
  <1>5. content'[i] = v
    BY <1>2, <1>3 DEF TypeOK
  <1>6. /\ tmp' \in [Proc -> Inode \cup {NoInode}]
        /\ content' \in [Inode -> Value]
        /\ owner' \in [Inode -> Proc \cup {NoProc}]
    BY <1>2, <1>3 DEF TypeOK
  <1>7. \A q \in Proc \ {p} : tmp'[q] = tmp[q]
    BY <1>3 DEF TypeOK
  <1>8. \A j \in Inode \ Free : content'[j] = content[j] /\ owner'[j] = owner[j]
    BY <1>1, <1>3 DEF TypeOK
  <1> QED BY <1>1, <1>4, <1>5, <1>6, <1>7, <1>8

\* What a process gives up is its own.
LEMMA UnlockedKeeps ==
  ASSUME TypeOK, NEW p \in Proc
  PROVE  /\ Unlocked(p) \in [Inode -> Proc \cup {NoProc}]
         /\ \A j \in Inode, q \in Proc \ {p} :
              owner[j] = q => Unlocked(p)[j] = q
  BY CacheFileAssumption DEF TypeOK, Unlocked

LEMMA InitInv == Init => Inv
  BY CacheFileAssumption DEF Init, Inv, TypeOK, Held, Label, Calling, Opened

LEMMA StepInv == Inv /\ [Next]_vars => Inv'
  <1> SUFFICES ASSUME TypeOK, Held, [Next]_vars PROVE TypeOK' /\ Held'
    BY DEF Inv
  <1>0. \A q \in Proc : /\ pc[q] \in Label
                        /\ fd[q] \in Inode \cup {NoInode}
                        /\ tmp[q] \in Inode \cup {NoInode}
    BY DEF TypeOK
  <1>1. ASSUME NEW p \in Proc, Enter(p) PROVE TypeOK' /\ Held'
    <2>1. MakeTmp(p, Initial) /\ pc[p] = "out"
      BY <1>1 DEF Enter
    <2>2. /\ tmp' \in [Proc -> Inode \cup {NoInode}]
          /\ content' \in [Inode -> Value]
          /\ owner' \in [Inode -> Proc \cup {NoProc}]
          /\ tmp'[p] \in Free
          /\ content'[tmp'[p]] = Initial
          /\ \A q \in Proc \ {p} : tmp'[q] = tmp[q]
          /\ \A j \in Inode \ Free : content'[j] = content[j]
                                     /\ owner'[j] = owner[j]
      BY <2>1, MakeTmpFresh, CacheFileAssumption
    <2>3. /\ UNCHANGED <<cur, fd, call, answer>>
          /\ pc' = [pc EXCEPT ![p] = "link"]
      BY <1>1 DEF Enter, Goto
    <2>4. TypeOK'
      BY <2>2, <2>3 DEF TypeOK, Label
    <2>5. /\ \A q \in Proc : fd[q] \notin Free /\ tmp[q] \notin Free
          /\ cur \notin Free
          /\ Free \subseteq Inode /\ NoInode \notin Free
      BY CacheFileAssumption DEF Free
    <2>6. Held'
      BY <1>0, <2>1, <2>2, <2>3, <2>5, CacheFileAssumption
      DEF Held, TypeOK, Calling, Opened
    <2> QED BY <2>4, <2>6
  <1>2. ASSUME NEW p \in Proc, Link(p) PROVE TypeOK' /\ Held'
    <2>1. TypeOK'
      BY <1>2 DEF Link, TypeOK, Goto, Label
    <2>2. Held'
      BY <1>2, <1>0, CacheFileAssumption
      DEF Link, Held, TypeOK, Goto, Calling, Opened
    <2> QED BY <2>1, <2>2
  <1>3. ASSUME NEW p \in Proc, NEW c \in Call, Begin(p, c)
        PROVE  TypeOK' /\ Held'
    BY <1>3, CacheFileAssumption
    DEF Begin, TypeOK, Held, Goto, Label, Calling, Opened, fileVars
  <1>4. ASSUME NEW p \in Proc, Open(p) PROVE TypeOK' /\ Held'
    BY <1>4, CacheFileAssumption
    DEF Open, TypeOK, Held, Goto, Label, Calling, Opened, fileVars
  <1>5. ASSUME NEW p \in Proc, Lock(p) PROVE TypeOK' /\ Held'
    <2>1. fd[p] \in Inode /\ owner[fd[p]] \in {p, NoProc}
      BY <1>5 DEF Lock, Lockable, Held, TypeOK, Opened
    <2>2. /\ owner' = [owner EXCEPT ![fd[p]] = p]
          /\ pc' = [pc EXCEPT ![p] = "check"]
          /\ UNCHANGED <<cur, content, fd, tmp, call, answer>>
          /\ pc[p] = "lock"
      BY <1>5 DEF Lock, Goto
    <2>3. TypeOK'
      BY <2>1, <2>2 DEF TypeOK, Label
    <2>4. Held'
      BY <2>1, <2>2, CacheFileAssumption DEF Held, TypeOK, Calling, Opened
    <2> QED BY <2>3, <2>4
  <1>6. ASSUME NEW p \in Proc, Check(p) PROVE TypeOK' /\ Held'
    <2>1. UNCHANGED <<cur, content, tmp, call, answer>> /\ pc[p] = "check"
      BY <1>6 DEF Check
    <2>2. CASE fd[p] = cur
      BY <1>6, <2>1, <2>2 DEF Check, Goto, Held, TypeOK, Label, Calling, Opened
    <2>3. CASE fd[p] # cur
      <3>1. /\ owner' = Unlocked(p)
            /\ fd' = [fd EXCEPT ![p] = NoInode]
            /\ pc' = [pc EXCEPT ![p] = "open"]
        BY <1>6, <2>3 DEF Check, Goto
      <3>2. TypeOK'
        BY <2>1, <3>1, UnlockedKeeps DEF TypeOK, Label
      <3>3. Held'
        BY <1>0, <2>1, <3>1, UnlockedKeeps DEF Held, TypeOK, Calling, Opened
      <3> QED BY <3>2, <3>3
    <2> QED BY <2>2, <2>3
  <1>7. ASSUME NEW p \in Proc, Update(p) PROVE TypeOK' /\ Held'
    <2> DEFINE v == After(content[fd[p]], call[p])
    <2>1. /\ pc[p] = "update"
          /\ UNCHANGED <<cur, fd>>
          /\ fd[p] = cur /\ cur \in Inode /\ call[p] \in Call
      BY <1>7 DEF Update, Held, TypeOK, Calling, Opened
    <2>2. v \in Value \cup {Refused}
      BY <2>1, CacheFileAssumption DEF TypeOK
    <2>3. CASE v # Refused
      <3>1. /\ MakeTmp(p, v)
            /\ pc' = [pc EXCEPT ![p] = "replace"]
            /\ UNCHANGED <<call, answer>>
        BY <1>7, <2>3 DEF Update, Goto
      <3>2. /\ tmp' \in [Proc -> Inode \cup {NoInode}]
            /\ content' \in [Inode -> Value]
            /\ owner' \in [Inode -> Proc \cup {NoProc}]
            /\ tmp'[p] \in Free
            /\ content'[tmp'[p]] = v
            /\ \A q \in Proc \ {p} : tmp'[q] = tmp[q]
            /\ \A j \in Inode \ Free : content'[j] = content[j]
                                       /\ owner'[j] = owner[j]
        BY <2>2, <2>3, <3>1, MakeTmpFresh
      <3>3. /\ \A q \in Proc : fd[q] \notin Free /\ tmp[q] \notin Free
            /\ cur \notin Free
            /\ Free \subseteq Inode /\ NoInode \notin Free
        BY CacheFileAssumption DEF Free
      <3>4. TypeOK'
        BY <2>1, <3>1, <3>2 DEF TypeOK, Label
      <3>5. Held'
        BY <1>0, <2>1, <3>1, <3>2, <3>3 DEF Held, TypeOK, Calling, Opened
      <3> QED BY <3>4, <3>5
    <2>4. CASE v = Refused
      <3>1. /\ answer' = [answer EXCEPT ![p] = "refused"]
            /\ call' = [call EXCEPT ![p] = NoCall]
            /\ pc' = [pc EXCEPT ![p] = "release"]
            /\ UNCHANGED <<content, owner, tmp>>
        BY <1>7, <2>4 DEF Update, Goto
      <3> QED BY <2>1, <3>1 DEF Held, TypeOK, Label, Calling, Opened
    <2> QED BY <2>3, <2>4
  <1>8. ASSUME NEW p \in Proc, Replace(p) PROVE TypeOK' /\ Held'
    <2>1. /\ pc[p] = "replace"
          /\ cur' = tmp[p]
          /\ answer' = [answer EXCEPT ![p] = "done"]
          /\ call' = [call EXCEPT ![p] = NoCall]
          /\ pc' = [pc EXCEPT ![p] = "release"]
          /\ UNCHANGED <<content, owner, fd, tmp>>
      BY <1>8 DEF Replace, Goto
    <2>2. tmp[p] # NoInode
      BY <2>1 DEF Held
    <2>3. \A q \in Proc \ {p} : pc[q] \notin {"update", "replace"}
      BY <2>1 DEF Held
    <2>4. TypeOK'
      BY <2>1 DEF TypeOK, Label
    <2>5. Held'
      BY <2>1, <2>2, <2>3 DEF Held, TypeOK, Calling, Opened
    <2> QED BY <2>4, <2>5
  <1>9. ASSUME NEW p \in Proc, Release(p) \/ Exit(p) PROVE TypeOK' /\ Held'
    <2>1. /\ owner' = Unlocked(p)
          /\ fd' = [fd EXCEPT ![p] = NoInode]
          /\ tmp' = [tmp EXCEPT ![p] = NoInode]
          /\ UNCHANGED <<cur, content, answer>>
          /\ \/ pc[p] = "release" /\ pc' = [pc EXCEPT ![p] = "idle"]
                /\ call' = call
             \/ pc' = [pc EXCEPT ![p] = "out"]
                /\ call' = [call EXCEPT ![p] = NoCall]
      BY <1>9 DEF Release, Exit, Goto
    <2>2. TypeOK'
      BY <2>1, UnlockedKeeps DEF TypeOK, Label
    <2>3. Held'
      BY <1>0, <2>1, UnlockedKeeps DEF Held, TypeOK, Calling, Opened
    <2> QED BY <2>2, <2>3
  <1>10. CASE UNCHANGED vars
    BY <1>10 DEF vars, fileVars, TypeOK, Held
  <1> QED
    BY <1>1, <1>2, <1>3, <1>4, <1>5, <1>6, <1>7, <1>8, <1>9, <1>10
    DEF Next, Step

\* Every process knows what it has open, locked and written, in every
\* behaviour.
THEOREM InvHolds == Spec => []Inv
  BY InitInv, StepInv, PTL DEF Spec

\* Between the check of _atomic_open and the rename, the file at the path is
\* the one this process has locked, for any number of processes.
THEOREM UpdatesExclude == Spec => []UpdateHoldsFile
  <1>1. Inv => UpdateHoldsFile
    BY DEF Inv, Held, UpdateHoldsFile
  <1> QED BY <1>1, InvHolds, PTL

-----------------------------------------------------------------------------
(* The refinement: every step is one of the atomic file, or none.          *)

path == IF cur = NoInode THEN Initial ELSE content[cur]

\* A step that leaves the content at the path, and what is asked and answered,
\* is no step of the atomic file.
LEMMA Stutters ==
  ASSUME path' = path, UNCHANGED <<call, answer>>
  PROVE  UNCHANGED File!fileVars
  BY DEF path, File!fileVars

LEMMA RefinesInit == Init => File!Init
  BY DEF Init, File!Init

LEMMA RefinesStep == Inv /\ [Next]_vars => [File!Next]_(File!fileVars)
  <1> SUFFICES ASSUME TypeOK, Held, [Next]_vars
               PROVE  [File!Next]_(File!fileVars)
    BY DEF Inv
  <1>1. ASSUME NEW p \in Proc, Enter(p) PROVE UNCHANGED File!fileVars
    <2>1. MakeTmp(p, Initial) /\ UNCHANGED <<cur, call, answer>>
      BY <1>1 DEF Enter
    <2>2. \A j \in Inode \ Free : content'[j] = content[j]
      BY <2>1, MakeTmpFresh, CacheFileAssumption
    <2>3. cur # NoInode => cur \in Inode \ Free
      BY DEF TypeOK, Free
    <2> QED BY <2>1, <2>2, <2>3, Stutters DEF path
  <1>2. ASSUME NEW p \in Proc, Link(p) PROVE UNCHANGED File!fileVars
    <2>1. content[tmp[p]] = Initial /\ tmp[p] # NoInode
      BY <1>2 DEF Link, Held
    <2> QED BY <1>2, <2>1, Stutters DEF Link, path
  <1>3. ASSUME NEW p \in Proc, NEW c \in Call, Begin(p, c)
        PROVE  File!Ask(p, c)
    <2>1. call[p] = NoCall
      BY <1>3 DEF Begin, Held, Calling
    <2> QED BY <1>3, <2>1 DEF Begin, File!Ask, fileVars
  <1>4. ASSUME NEW p \in Proc, Open(p) \/ Lock(p) \/ Check(p) \/ Release(p)
        PROVE  UNCHANGED File!fileVars
    BY <1>4, Stutters DEF Open, Lock, Check, Release, fileVars, path
  <1>5. ASSUME NEW p \in Proc, Update(p)
        PROVE  UNCHANGED File!fileVars \/ File!Apply(p)
    <2>1. /\ pc[p] = "update" /\ UNCHANGED cur
          /\ fd[p] = cur /\ cur \in Inode /\ call[p] \in Call
          /\ call[p] # NoCall /\ cur # NoInode
      BY <1>5, CacheFileAssumption DEF Update, Held, TypeOK, Calling, Opened
    <2>2. CASE After(content[cur], call[p]) # Refused
      <3>1. MakeTmp(p, After(content[cur], call[p])) /\ UNCHANGED <<call, answer>>
        BY <1>5, <2>1, <2>2 DEF Update
      <3>2. After(content[cur], call[p]) \in Value
        BY <2>1, <2>2, CacheFileAssumption DEF TypeOK
      <3>3. content'[cur] = content[cur]
        <4>1. cur \in Inode \ Free
          BY <2>1 DEF Free
        <4> QED BY <3>1, <3>2, <4>1, MakeTmpFresh
      <3> QED BY <2>1, <3>1, <3>3, Stutters DEF path
    <2>3. CASE After(content[cur], call[p]) = Refused
      <3>1. /\ answer' = [answer EXCEPT ![p] = "refused"]
            /\ call' = [call EXCEPT ![p] = NoCall]
            /\ UNCHANGED content
        BY <1>5, <2>1, <2>3 DEF Update
      <3> QED BY <2>1, <2>3, <3>1 DEF File!Apply
    <2> QED BY <2>2, <2>3
  <1>6. ASSUME NEW p \in Proc, Replace(p) PROVE File!Apply(p)
    <2>1. /\ pc[p] = "replace"
          /\ cur' = tmp[p]
          /\ answer' = [answer EXCEPT ![p] = "done"]
          /\ call' = [call EXCEPT ![p] = NoCall]
          /\ UNCHANGED content
      BY <1>6 DEF Replace
    <2>2. /\ cur # NoInode /\ tmp[p] \in Inode /\ tmp[p] # NoInode
          /\ call[p] # NoCall
          /\ content[tmp[p]] = After(content[cur], call[p])
      BY <2>1, CacheFileAssumption DEF Held, TypeOK, Calling
    <2>3. After(content[cur], call[p]) # Refused
      BY <2>2, CacheFileAssumption DEF TypeOK
    <2> QED BY <2>1, <2>2, <2>3 DEF File!Apply
  <1>7. ASSUME NEW p \in Proc, Exit(p) PROVE File!Abandon(p)
    BY <1>7 DEF Exit, File!Abandon
  <1>8. CASE UNCHANGED vars
    BY <1>8, Stutters DEF vars, fileVars, path
  <1> QED
    BY <1>1, <1>2, <1>3, <1>4, <1>5, <1>6, <1>7, <1>8
    DEF Next, Step, File!Next

\* No update of cache.size or cache.info is lost or applied twice, whichever
\* processes race, die or are late to create the cache.
THEOREM FileIsAtomic == Spec => ImplementsAtomicFile
  BY RefinesInit, RefinesStep, InvHolds, PTL
  DEF Spec, ImplementsAtomicFile, File!Spec
=============================================================================
