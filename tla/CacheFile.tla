----------------------------- MODULE CacheFile -----------------------------
(***************************************************************************)
(* How the processes that share a cache of mpp/aibosbuild/util/fscache.py  *)
(* create and update one of its small files, cache.size or cache.info:     *)
(* _create_scaffolding, _atomic_open, _atomic_file and the updates         *)
(* _update_cache_size and info.setter build from them.                     *)
(*                                                                         *)
(* The file is never written.  An update locks it, looks whether it still  *)
(* is the file at the path, and renames a new one over it; a lock is taken *)
(* on an inode and goes away with the process that holds it.               *)
(***************************************************************************)
CONSTANTS
  Proc, Inode, Value, Call,
  Initial,       \* what _create_scaffolding writes
  After(_, _),   \* what an update makes of the content, or Refused
  Refused, NoCall, NoInode, NoProc

ASSUME CacheFileAssumption ==
  /\ Initial \in Value
  /\ \A v \in Value, c \in Call : After(v, c) \in Value \cup {Refused}
  /\ Refused \notin Value
  /\ NoCall \notin Call
  /\ NoInode \notin Inode
  /\ NoProc \notin Proc

VARIABLES
  cur,      \* the inode at the path
  content,  \* what each inode holds
  owner,    \* the process that has each inode locked for writing
  fd,       \* the inode a process opened through the path
  tmp,      \* the temporary file it fills to put it there
  pc, call, answer

fileVars == <<cur, content, owner>>
vars == <<fileVars, fd, tmp, pc, call, answer>>

Label == {"out", "link", "idle", "open", "lock", "check", "update", "replace",
          "release"}

TypeOK ==
  /\ cur \in Inode \cup {NoInode}
  /\ content \in [Inode -> Value]
  /\ owner \in [Inode -> Proc \cup {NoProc}]
  /\ fd \in [Proc -> Inode \cup {NoInode}]
  /\ tmp \in [Proc -> Inode \cup {NoInode}]
  /\ pc \in [Proc -> Label]
  /\ call \in [Proc -> Call \cup {NoCall}]
  /\ answer \in [Proc -> {"none", "done", "refused"}]

Init ==
  /\ cur = NoInode
  /\ content = [i \in Inode |-> Initial]
  /\ owner = [i \in Inode |-> NoProc]
  /\ fd = [p \in Proc |-> NoInode]
  /\ tmp = [p \in Proc |-> NoInode]
  /\ pc = [p \in Proc |-> "out"]
  /\ call = [p \in Proc |-> NoCall]
  /\ answer = [p \in Proc |-> "none"]

Goto(p, l) == pc' = [pc EXCEPT ![p] = l]

\* An inode number is not used again while a path or a descriptor refers to it.
Free == {i \in Inode : i # cur /\ \A p \in Proc : fd[p] # i /\ tmp[p] # i}

\* _atomic_file: a new file with a random name, locked and filled.  Which free
\* inode the file system takes makes no difference.
MakeTmp(p, v) ==
  LET i == CHOOSE i \in Free : TRUE IN
    /\ Free # {}
    /\ tmp' = [tmp EXCEPT ![p] = i]
    /\ content' = [content EXCEPT ![i] = v]
    /\ owner' = [owner EXCEPT ![i] = p]

\* Mutant: fcntl_flock that does not wait, and takes the lock.
FreeForAll(p, i) == TRUE

\* fcntl_flock with F_WRLCK: nobody else has the inode locked.
Lockable(p, i) == owner[i] \in {p, NoProc}

\* Closing its descriptors, a process gives up its locks.
Unlocked(p) == [i \in Inode |-> IF owner[i] = p THEN NoProc ELSE owner[i]]

\* __enter__, _create_scaffolding: the file to be linked unless there is one.
Enter(p) ==
  /\ pc[p] = "out"
  /\ MakeTmp(p, Initial)
  /\ Goto(p, "link")
  /\ UNCHANGED <<cur, fd, call, answer>>

\* Mutant: os.rename instead of os.link, which takes an existing file's place.
LinkOver(p) ==
  /\ pc[p] = "link"
  /\ cur' = tmp[p]
  /\ Goto(p, "release")
  /\ UNCHANGED <<content, owner, fd, tmp, call, answer>>

\* os.link with EEXIST ignored; the temporary name is unlinked in any case.
Link(p) ==
  /\ pc[p] = "link"
  /\ cur' = IF cur = NoInode THEN tmp[p] ELSE cur
  /\ Goto(p, "release")
  /\ UNCHANGED <<content, owner, fd, tmp, call, answer>>

\* An update of the file is asked for.
Begin(p, c) ==
  /\ pc[p] = "idle"
  /\ call' = [call EXCEPT ![p] = c]
  /\ answer' = [answer EXCEPT ![p] = "none"]
  /\ Goto(p, "open")
  /\ UNCHANGED <<fileVars, fd, tmp>>

\* _atomic_open: open the path.
Open(p) ==
  /\ pc[p] = "open"
  /\ fd' = [fd EXCEPT ![p] = cur]
  /\ Goto(p, "lock")
  /\ UNCHANGED <<fileVars, tmp, call, answer>>

\* Wait for the lock of the file that was opened.
Lock(p) ==
  /\ pc[p] = "lock"
  /\ Lockable(p, fd[p])
  /\ owner' = [owner EXCEPT ![fd[p]] = p]
  /\ Goto(p, "check")
  /\ UNCHANGED <<cur, content, fd, tmp, call, answer>>

\* Mutant: no second stat of the path.
CheckNothing(p) ==
  /\ pc[p] = "check"
  /\ Goto(p, "update")
  /\ UNCHANGED <<fileVars, fd, tmp, call, answer>>

\* The file may have been replaced between opening and locking it: retry.
Check(p) ==
  /\ pc[p] = "check"
  /\ IF fd[p] = cur
       THEN Goto(p, "update") /\ UNCHANGED <<owner, fd>>
       ELSE /\ owner' = Unlocked(p)
            /\ fd' = [fd EXCEPT ![p] = NoInode]
            /\ Goto(p, "open")
  /\ UNCHANGED <<cur, content, tmp, call, answer>>

\* Read the file, then refuse or write the new content to a temporary file.
Update(p) ==
  LET v == After(content[fd[p]], call[p]) IN
  /\ pc[p] = "update"
  /\ \/ /\ v # Refused
        /\ MakeTmp(p, v)
        /\ Goto(p, "replace")
        /\ UNCHANGED <<call, answer>>
     \/ /\ v = Refused
        /\ answer' = [answer EXCEPT ![p] = "refused"]
        /\ call' = [call EXCEPT ![p] = NoCall]
        /\ Goto(p, "release")
        /\ UNCHANGED <<content, owner, tmp>>
  /\ UNCHANGED <<cur, fd>>

\* os.rename of the temporary file, itself still locked.
Replace(p) ==
  /\ pc[p] = "replace"
  /\ cur' = tmp[p]
  /\ answer' = [answer EXCEPT ![p] = "done"]
  /\ call' = [call EXCEPT ![p] = NoCall]
  /\ Goto(p, "release")
  /\ UNCHANGED <<content, owner, fd, tmp>>

\* Mutant: a path of _atomic_open that leaves its descriptor open.
ReleaseTmp(p) ==
  /\ pc[p] = "release"
  /\ owner' = [i \in Inode |-> IF i = tmp[p] THEN NoProc ELSE owner[i]]
  /\ tmp' = [tmp EXCEPT ![p] = NoInode]
  /\ Goto(p, "idle")
  /\ UNCHANGED <<cur, content, fd, call, answer>>

\* Leaving the with-blocks.
Release(p) ==
  /\ pc[p] = "release"
  /\ owner' = Unlocked(p)
  /\ fd' = [fd EXCEPT ![p] = NoInode]
  /\ tmp' = [tmp EXCEPT ![p] = NoInode]
  /\ Goto(p, "idle")
  /\ UNCHANGED <<cur, content, call, answer>>

\* The process leaves the cache context, or dies wherever it is.
Exit(p) ==
  /\ pc[p] # "out"
  /\ Goto(p, "out")
  /\ owner' = Unlocked(p)
  /\ fd' = [fd EXCEPT ![p] = NoInode]
  /\ tmp' = [tmp EXCEPT ![p] = NoInode]
  /\ call' = [call EXCEPT ![p] = NoCall]
  /\ UNCHANGED <<cur, content, answer>>

Step(p) == \/ Link(p) \/ Open(p) \/ Lock(p) \/ Check(p) \/ Update(p)
           \/ Replace(p) \/ Release(p)

Next == \E p \in Proc : Enter(p) \/ Step(p) \/ Exit(p)
                          \/ \E c \in Call : Begin(p, c)

Spec == Init /\ [][Next]_vars

\* A running process is scheduled.
FairSpec == Spec /\ \A p \in Proc : WF_vars(Step(p))

-----------------------------------------------------------------------------
\* From the check to the rename, the file that is locked is the file at the
\* path, so no two processes work on the same content; what is in a temporary
\* file is what the update makes of the file it is about to replace.
UpdateHoldsFile ==
  \A p \in Proc :
    /\ pc[p] \in {"update", "replace"} => fd[p] = cur /\ owner[cur] = p
    /\ pc[p] = "replace" =>
         /\ tmp[p] # cur
         /\ content[tmp[p]] = After(content[cur], call[p])

\* No update is lost, applied twice or to a file that was replaced, and a late
\* _create_scaffolding does not reset the file: the users of the cache see one
\* file that every update changes in one step.
File == INSTANCE AtomicFile WITH
          value <- IF cur = NoInode THEN Initial ELSE content[cur]
ImplementsAtomicFile == File!Spec

\* Nobody is kept from the file for ever by a lock someone forgot: once the
\* others ask for nothing more, a pending update ends.
UpdatesEnd ==
  \A p \in Proc :
    <>[](\A q \in Proc \ {p} : call[q] = NoCall) =>
      (call[p] # NoCall ~> call[p] = NoCall)
=============================================================================
