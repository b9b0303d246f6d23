------------------------------ MODULE FsCache ------------------------------
(***************************************************************************)
(* FsCache of mpp/aibosbuild/util/fscache.py: store, load, stage, the      *)
(* eviction of least recently used objects and the accounting of their     *)
(* size, by processes that share one cache directory, may be killed and    *)
(* see any of their system calls fail.                                     *)
(*                                                                         *)
(* An object is a directory with object.lock, object.info and data.  Locks *)
(* are taken on the object.lock inode, so they follow the directory when   *)
(* it is renamed and vanish with their process.  An update of cache.size   *)
(* or cache.info is one step: CacheFile implements it.                     *)
(***************************************************************************)
EXTENDS CacheUpdates, Sequences, FiniteSets

CONSTANTS
  Proc, Name,
  Obj,         \* directories that may exist at the same time
  Space,       \* the sizes of data stored
  Overhead,    \* what the directory, object.info and object.lock take
  Maximum,     \* the maximum-size values users set
  MaxKills,    \* bound: how many processes are killed
  NoProc, NoObj, NoName

ASSUME CacheAssumption ==
  /\ NoProc \notin Proc /\ NoObj \notin Obj /\ NoName \notin Name
  /\ Name \cap {"uuid", "stage", "gone"} = {}
  /\ Space \subseteq Nat /\ Overhead \in Nat
  /\ Maximum \subseteq Nat \cup {Unlimited} /\ MaxKills \in Nat

VARIABLES
  loc,      \* where a directory is: under a name, a uuid, in stage, or gone
  files,    \* which of object.lock and object.info it has
  data,     \* its data: "none", "part" or "whole"
  bytes,    \* the size of the data, once it is whole
  readers,  \* the processes that hold a read lock on its object.lock
  writer,   \* the process that holds the write lock
  lru,      \* the directories by the atime of their object.lock, oldest first
  size,     \* cache.size
  maximum,  \* the maximum-size of cache.info
  compatible  \* the version in cache.info is one this code supports

VARIABLES   \* of each process
  pc,
  max,      \* _info_maximum_size, read when it entered the cache
  want,     \* the name it stores or loads
  own,      \* the object it stores or reads
  list,     \* what _remove_lru still has to look at; it is at the first entry
  touched,  \* the objects of that list used since it was made
  space,    \* what the object it removes takes
  freed,    \* what its removals freed so far
  exc       \* an exception leaves the commit of store

VARIABLES   \* history, read by properties only
  acct,     \* what was added to cache.size for an object, and is to be taken
            \* out of it with the object
  kills     \* the processes killed so far

objVars  == <<loc, files, data, bytes, readers, writer, lru>>
listVars == <<list, touched, space, freed>>
vars == <<objVars, size, maximum, compatible, pc, max, want, own, listVars,
          exc, acct, kills>>

Label == {"out", "idle", "fill", "account", "list", "visit", "rmdata",
          "rmlock", "rmdir", "deaccount", "retry", "commit", "rename",
          "undoinfo", "undosize", "discard", "unlock", "reading"}
Place == Name \cup {"uuid", "stage", "gone"}

TypeOK ==
  /\ loc \in [Obj -> Place]
  /\ files \in [Obj -> SUBSET {"lock", "info"}]
  /\ data \in [Obj -> {"none", "part", "whole"}]
  /\ bytes \in [Obj -> Space \cup {0}]
  /\ readers \in [Obj -> SUBSET Proc]
  /\ writer \in [Obj -> Proc \cup {NoProc}]
  /\ lru \in Seq(Obj)
  /\ size \in Nat
  /\ size # 0 => \E m \in Maximum : m = Unlimited \/ size <= m
  /\ maximum \in Maximum
  /\ compatible \in BOOLEAN
  /\ pc \in [Proc -> Label]
  /\ max \in [Proc -> Maximum \cup {0}]
  /\ want \in [Proc -> Name \cup {NoName}]
  /\ own \in [Proc -> Obj \cup {NoObj}]
  /\ list \in [Proc -> Seq([path : Place, obj : Obj])]
  /\ touched \in [Proc -> SUBSET Obj]
  /\ space \in [Proc -> Nat] /\ freed \in [Proc -> Nat]
  /\ exc \in [Proc -> BOOLEAN]
  /\ acct \in [Obj -> Space \cup {0}]
  /\ kills \in 0..MaxKills

Init ==
  /\ loc = [o \in Obj |-> "gone"]
  /\ files = [o \in Obj |-> {}]
  /\ data = [o \in Obj |-> "none"]
  /\ bytes = [o \in Obj |-> 0]
  /\ readers = [o \in Obj |-> {}]
  /\ writer = [o \in Obj |-> NoProc]
  /\ lru = <<>>
  /\ size = 0
  /\ maximum \in Maximum
  /\ compatible \in BOOLEAN
  /\ pc = [p \in Proc |-> "out"]
  /\ max = [p \in Proc |-> 0]
  /\ want = [p \in Proc |-> NoName]
  /\ own = [p \in Proc |-> NoObj]
  /\ list = [p \in Proc |-> <<>>]
  /\ touched = [p \in Proc |-> {}]
  /\ space = [p \in Proc |-> 0]
  /\ freed = [p \in Proc |-> 0]
  /\ exc = [p \in Proc |-> FALSE]
  /\ acct = [o \in Obj |-> 0]
  /\ kills = 0

Goto(p, l) == pc' = [pc EXCEPT ![p] = l]

\* Those elements of a sequence that are in S, in their order.
Only(s, S) ==
  LET at == {i \in DOMAIN s : s[i] \in S} IN
  [n \in 1..Cardinality(at) |->
     s[CHOOSE i \in at : Cardinality({j \in at : j <= i}) = n]]

At(path)  == {o \in Obj : loc[o] = path}
Empty(o)  == files[o] = {} /\ data[o] = "none"

\* Mutant: object.info outlives the data.
StayCommitted(o) == UNCHANGED files

\* Unlink object.info: o is not committed any more.
Uncommit(o) == files' = [files EXCEPT ![o] = @ \ {"info"}]

\* Mutant: eviction takes a read lock.
LockedForWriting(o) == writer[o] # NoProc

\* Dropping every lock a process holds.
NoLocks(p, w) == [o \in Obj |-> IF w[o] = p THEN NoProc ELSE w[o]]

Locked(o) == readers[o] # {} \/ writer[o] # NoProc

\* uuids are never drawn twice: what somebody still names, or holds the lock
\* of, is not used again.
Unused == {o \in Obj :
             /\ loc[o] = "gone" /\ writer[o] = NoProc
             /\ \A p \in Proc : /\ o # own[p]
                                /\ \A i \in DOMAIN list[p] : list[p][i].obj # o}

\* _update_cache_size, on the file CacheFile describes.
Resize(p, diff) == SizeAfter(size, [diff |-> diff, max |-> max[p]])

\* _calculate_space of a directory.
SpaceOf(o) ==
  Overhead + (CASE data[o] = "whole" -> bytes[o] [] OTHER -> 0)

-----------------------------------------------------------------------------
\* __enter__: the scaffolding exists; the cache.info read now is kept.
Enter(p) ==
  /\ pc[p] = "out"
  /\ max' = [max EXCEPT ![p] = maximum]
  /\ Goto(p, "idle")
  /\ UNCHANGED <<objVars, size, maximum, compatible, want, own, listVars, exc,
                 acct>>

\* __exit__: the cache.info it has read is not used again.  The process may end,
\* and with it the locks it still has.
Exit(p) ==
  /\ pc[p] = "idle"
  /\ writer' \in {writer, NoLocks(p, writer)}
  /\ max' = [max EXCEPT ![p] = 0]
  /\ Goto(p, "out")
  /\ UNCHANGED <<loc, files, data, bytes, readers, lru, size, maximum,
                 compatible, want, own, listVars, exc, acct>>

\* info.setter: other processes keep the maximum they have read.
SetInfo(p, m) ==
  /\ pc[p] = "idle"
  /\ maximum' = IF compatible THEN m ELSE maximum
  /\ max' = [max EXCEPT ![p] = m]
  /\ UNCHANGED <<objVars, size, compatible, pc, want, own, listVars, exc,
                 acct>>

\* _atomic_dir and mkdir of data, in objects; in stage if the version of the
\* cache is not supported.
BeginStore(p, n, b) ==
  /\ pc[p] = "idle"
  /\ \E o \in Unused :
       /\ loc' = [loc EXCEPT ![o] = IF compatible THEN "uuid" ELSE "stage"]
       /\ files' = [files EXCEPT ![o] = {"lock"}]
       /\ data' = [data EXCEPT ![o] = "part"]
       /\ bytes' = [bytes EXCEPT ![o] = b]
       /\ writer' = [writer EXCEPT ![o] = p]
       /\ lru' = Append(lru, o)
       /\ own' = [own EXCEPT ![p] = o]
  /\ want' = [want EXCEPT ![p] = n]
  /\ Goto(p, "fill")
  /\ UNCHANGED <<readers, size, maximum, compatible, max, listVars, exc,
                 acct>>

\* The caller fills the directory; or raises, say because cp fails.
Fill(p) ==
  /\ pc[p] = "fill"
  /\ \/ /\ data' = [data EXCEPT ![own[p]] = "whole"]
        /\ Goto(p, IF compatible THEN "account" ELSE "discard")
     \/ Goto(p, "discard") /\ UNCHANGED data
  /\ UNCHANGED <<loc, files, bytes, readers, writer, lru, size, maximum,
                 compatible, max, want, own, listVars, exc, acct>>

\* What the updates of cache.size in store do: count the object, go on at l, or
\* raise.
Account(p, l) ==
  LET b == bytes[own[p]] IN
  \/ /\ Resize(p, b) # TooBig
     /\ size' = Resize(p, b)
     /\ acct' = [acct EXCEPT ![own[p]] = b]
     /\ Goto(p, "commit")
  \/ /\ Resize(p, b) = TooBig
     /\ Goto(p, l)
     /\ UNCHANGED <<size, acct>>
  \/ Goto(p, "discard") /\ UNCHANGED <<size, acct>>

\* store: exit early if the object never is going to fit, else count it.
TryAccount(p) ==
  /\ pc[p] = "account"
  /\ IF max[p] # Unlimited /\ bytes[own[p]] > max[p]
       THEN Goto(p, "discard") /\ UNCHANGED <<size, acct>>
       ELSE Account(p, "list")
  /\ UNCHANGED <<objVars, maximum, compatible, max, want, own, listVars, exc>>

\* _last_used_objs: what has an object.lock, oldest first.
ListObjects(p) ==
  /\ pc[p] = "list"
  /\ LET objs == Only(lru, {o \in Obj : loc[o] # "stage"})
     IN list' = [list EXCEPT ![p] =
          [i \in DOMAIN objs |-> [path |-> loc[objs[i]], obj |-> objs[i]]]]
  /\ Goto(p, "visit")
  /\ UNCHANGED <<objVars, size, maximum, compatible, max, want, own, touched,
                 space, freed, exc, acct>>

Entry(p) == Head(list[p])

\* The end of the loop of _remove_lru, whatever the reason.
EndList(p) ==
  /\ list' = [list EXCEPT ![p] = <<>>]
  /\ touched' = [touched EXCEPT ![p] = {}]
  /\ space' = [space EXCEPT ![p] = 0]
  /\ freed' = [freed EXCEPT ![p] = 0]

\* What the path of the entry leads to now.
Found(p) ==
  {o \in At(Entry(p).path) :
     "lock" \in files[o] /\ (Entry(p).path = "uuid" => o = Entry(p).obj)}

\* Used since the list was made: _last_used tells another time.
UsedSince(p, o) == o # Entry(p).obj \/ o \in touched[p]

\* _remove_lru: lock the object without waiting, look what it takes and begin
\* to remove it, its object.info first.
VisitRemove(p) ==
  /\ pc[p] = "visit" /\ list[p] # <<>>
  /\ \E o \in Found(p) :
       /\ ~Locked(o) /\ ~UsedSince(p, o)
       /\ space' = [space EXCEPT ![p] = SpaceOf(o)]
       /\ writer' = [writer EXCEPT ![o] = p]
       /\ Uncommit(o)
  /\ Goto(p, "rmdata")
  /\ UNCHANGED <<loc, data, bytes, readers, lru, size, maximum, compatible,
                 max, want, own, list, touched, freed, exc, acct>>

\* BlockingIOError, or the object was used.
VisitSkip(p) ==
  /\ pc[p] = "visit" /\ list[p] # <<>>
  /\ \E o \in Found(p) : Locked(o) \/ UsedSince(p, o)
  /\ list' = [list EXCEPT ![p] = Tail(@)]
  /\ UNCHANGED <<objVars, size, maximum, compatible, pc, max, want, own,
                 touched, space, freed, exc, acct>>

\* What the path of the entry led to was removed or renamed since, or it cannot be
\* opened, looked at or uncommitted: the error leaves store.
VisitFails(p) ==
  /\ pc[p] = "visit" /\ list[p] # <<>>
  /\ EndList(p)
  /\ Goto(p, "discard")
  /\ UNCHANGED <<objVars, size, maximum, compatible, max, want, own, exc,
                 acct>>

VisitEnd(p) ==
  /\ pc[p] = "visit" /\ list[p] = <<>>
  /\ EndList(p)
  /\ Goto(p, "retry")
  /\ UNCHANGED <<objVars, size, maximum, compatible, max, want, own, exc,
                 acct>>

-----------------------------------------------------------------------------
(* The rest of _rm_r_object.                                               *)

Removing == {"rmdata", "rmlock", "rmdir", "deaccount"}

\* rmtree of the data begins.
RemoveData(p) ==
  /\ pc[p] = "rmdata"
  /\ data' = [data EXCEPT ![Entry(p).obj] = "part"]
  /\ Goto(p, "rmlock")
  /\ UNCHANGED <<loc, files, bytes, readers, writer, lru, size, maximum,
                 compatible, max, want, own, listVars, exc, acct>>

\* Nothing is left in the directory.
Clear(o) ==
  /\ files' = [files EXCEPT ![o] = {}]
  /\ data' = [data EXCEPT ![o] = "none"]
  /\ bytes' = [bytes EXCEPT ![o] = 0]
  /\ lru' = Only(lru, Obj \ {o})

\* The data is gone; unlink object.lock.
RemoveLock(p) ==
  /\ pc[p] = "rmlock"
  /\ Clear(Entry(p).obj)
  /\ Goto(p, "rmdir")
  /\ UNCHANGED <<loc, readers, writer, size, maximum, compatible, max, want,
                 own, listVars, exc, acct>>

\* os.rmdir of the path, unless another store put its object in the place of the
\* empty directory.
RemoveDir(p) ==
  LET o == Entry(p).obj
      d == IF Entry(p).path = "uuid" THEN {o} ELSE At(Entry(p).path) IN
  /\ pc[p] = "rmdir"
  /\ \A x \in d : Empty(x)
  /\ loc' = [x \in Obj |-> IF x \in d THEN "gone" ELSE loc[x]]
  /\ Goto(p, "deaccount")
  /\ UNCHANGED <<files, data, bytes, readers, writer, lru, size, maximum,
                 compatible, max, want, own, listVars, exc, acct>>

\* What was added to cache.size for o is not taken out of it with o any more.
Lose(o) == acct' = [acct EXCEPT ![o] = 0]

\* What p was removing stays as it is, and if some of it is gone already, or all,
\* nobody takes out of cache.size what was.
Abandon(p) ==
  IF pc[p] \in Removing \ {"rmdata"} THEN Lose(Entry(p).obj) ELSE UNCHANGED acct

\* rmtree, unlink, rmdir, ENOTEMPTY included, or the update of cache.size raises.
\* Only _remove_lru's lock is released on the way out of store.
RemoveFails(p) ==
  /\ pc[p] \in Removing
  /\ Abandon(p)
  /\ writer' = [writer EXCEPT ![Entry(p).obj] = NoProc]
  /\ EndList(p)
  /\ Goto(p, "discard")
  /\ UNCHANGED <<loc, files, data, bytes, readers, lru, size, maximum, compatible,
                 max, want, own, exc>>

\* Mutant: a removed object is not taken out of cache.size.
KeepCount(p, o, n) == UNCHANGED size /\ Lose(o)

\* Mutant: what is given back is what the directory takes.
GiveBackSpace(p, o, n) ==
  LET m == n + Overhead IN
  /\ size' = IF Resize(p, -m) = TooBig THEN size ELSE Resize(p, -m)
  /\ Lose(o)

\* _update_cache_size with a negative amount: refused, which nobody looks at,
\* when the size still exceeds the maximum this process knows.
GiveBack(p, o, n) ==
  /\ size' = IF Resize(p, -n) = TooBig THEN size ELSE Resize(p, -n)
  /\ Lose(o)

\* _remove_lru: update the size, release the lock, and go on until twice the
\* required size is free.
Deaccount(p) ==
  LET o == Entry(p).obj IN
  /\ pc[p] = "deaccount"
  /\ GiveBack(p, o, space[p])
  /\ writer' = [writer EXCEPT ![o] = NoProc]
  /\ freed' = [freed EXCEPT ![p] = @ + space[p]]
  /\ space' = [space EXCEPT ![p] = 0]
  /\ list' = [list EXCEPT ![p] =
       IF freed[p] + space[p] >= 2 * bytes[own[p]] THEN <<>> ELSE Tail(@)]
  /\ Goto(p, "visit")
  /\ UNCHANGED <<loc, files, data, bytes, readers, lru, maximum, compatible,
                 max, want, own, touched, exc>>

-----------------------------------------------------------------------------
(* The end of store.                                                       *)

\* There may be room now.
RetryAccount(p) ==
  /\ pc[p] = "retry"
  /\ Account(p, "discard")
  /\ UNCHANGED <<objVars, maximum, compatible, max, want, own, listVars, exc>>

\* Write object.info: the object is committed and accounted.
CommitInfo(p) ==
  /\ pc[p] = "commit"
  /\ files' = [files EXCEPT ![own[p]] = @ \cup {"info"}]
  /\ Goto(p, "rename")
  /\ UNCHANGED <<loc, data, bytes, readers, writer, lru, size, maximum,
                 compatible, max, want, own, listVars, exc, acct>>

\* Writing object.info or renaming fails, say on a full disk.
CommitFails(p) ==
  /\ pc[p] \in {"commit", "rename"}
  /\ exc' = [exc EXCEPT ![p] = TRUE]
  /\ Goto(p, "undoinfo")
  /\ UNCHANGED <<objVars, size, maximum, compatible, max, want, own, listVars,
                 acct>>

\* os.rename to the name takes the place of nothing or an empty directory;
\* if the name is taken by an object, the uuid stays what it is.
Rename(p) ==
  /\ pc[p] = "rename"
  /\ IF \A o \in At(want[p]) : Empty(o)
       THEN /\ loc' = [o \in Obj |-> CASE o = own[p] -> want[p]
                                       [] o # own[p] /\ loc[o] = want[p] -> "gone"
                                       [] OTHER -> loc[o]]
            /\ Goto(p, "unlock")
       ELSE Goto(p, "undoinfo") /\ UNCHANGED loc
  /\ UNCHANGED <<files, data, bytes, readers, writer, lru, size, maximum,
                 compatible, max, want, own, listVars, exc, acct>>

\* Where the uuid directory is removed, unless uuidname is None because the name was
\* taken: then nobody removes it.
Leave(p) ==
  /\ Goto(p, IF exc[p] THEN "discard" ELSE "unlock")
  /\ exc' = [exc EXCEPT ![p] = FALSE]

\* The uuid directory still exists: unlink its object.info...
UndoInfo(p) ==
  /\ pc[p] = "undoinfo"
  /\ Uncommit(own[p])
  /\ Goto(p, "undosize")
  /\ UNCHANGED <<loc, data, bytes, readers, writer, lru, size, maximum,
                 compatible, max, want, own, listVars, exc, acct>>

\* ... and de-account it.
UndoSize(p) ==
  /\ pc[p] = "undosize"
  /\ GiveBack(p, own[p], bytes[own[p]])
  /\ Leave(p)
  /\ UNCHANGED <<objVars, maximum, compatible, max, want, own, listVars>>

\* The one or the other raises: if the object is not committed, what was added for it
\* stays in cache.size.
UndoFails(p) ==
  /\ pc[p] \in {"undoinfo", "undosize"}
  /\ Leave(p)
  /\ IF "info" \in files[own[p]] THEN UNCHANGED acct ELSE Lose(own[p])
  /\ UNCHANGED <<objVars, size, maximum, compatible, max, want, own, listVars>>

\* _rm_r_object of the directory in objects or stage, its lock still held.
Discard(p) ==
  /\ pc[p] = "discard"
  /\ loc' = [loc EXCEPT ![own[p]] = "gone"]
  /\ Clear(own[p])
  /\ Lose(own[p])
  /\ Goto(p, "unlock")
  /\ UNCHANGED <<readers, writer, size, maximum, compatible, max, want, own,
                 listVars, exc>>

\* The process leaves store.
Left(p) ==
  /\ own' = [own EXCEPT ![p] = NoObj]
  /\ want' = [want EXCEPT ![p] = NoName]
  /\ Goto(p, "idle")

\* _rm_r_object raises, at once or halfway, and nobody closes the lock: it stays
\* with the process.
DiscardFails(p) ==
  /\ pc[p] = "discard"
  /\ \/ UNCHANGED <<files, data, acct>>
     \/ /\ Uncommit(own[p])
        /\ data' = [data EXCEPT ![own[p]] = "part"]
        /\ Lose(own[p])
  /\ Left(p)
  /\ UNCHANGED <<loc, bytes, readers, writer, lru, size, maximum, compatible,
                 max, listVars, exc>>

\* Close the lock; the caller sees the exception, if one passed through.
Unlock(p) ==
  /\ pc[p] = "unlock"
  /\ writer' = [writer EXCEPT ![own[p]] = NoProc]
  /\ Left(p)
  /\ UNCHANGED <<loc, files, data, bytes, readers, lru, size, maximum,
                 compatible, max, listVars, exc, acct>>

-----------------------------------------------------------------------------
\* load: lock object.lock without waiting, and note the use.  (A miss changes
\* nothing.)
Load(p, n) ==
  /\ pc[p] = "idle" /\ compatible
  /\ \E o \in At(n) :
       /\ "lock" \in files[o]
       /\ writer[o] = NoProc
       /\ readers' = [readers EXCEPT ![o] = @ \cup {p}]
       /\ own' = [own EXCEPT ![p] = o]
       /\ lru' = Append(Only(lru, Obj \ {o}), o)
       /\ touched' = [q \in Proc |-> touched[q] \cup
            {x \in {o} : \E i \in DOMAIN list[q] : list[q][i].obj = x}]
  /\ want' = [want EXCEPT ![p] = n]
  /\ Goto(p, "reading")
  /\ UNCHANGED <<loc, files, data, bytes, writer, size, maximum, compatible,
                 max, list, space, freed, exc, acct>>

\* The caller leaves the with-block of load.
EndLoad(p) ==
  /\ pc[p] = "reading"
  /\ readers' = [readers EXCEPT ![own[p]] = @ \ {p}]
  /\ own' = [own EXCEPT ![p] = NoObj]
  /\ want' = [want EXCEPT ![p] = NoName]
  /\ Goto(p, "idle")
  /\ UNCHANGED <<loc, files, data, bytes, writer, lru, size, maximum,
                 compatible, max, listVars, exc, acct>>

\* SIGKILL: every lock goes, everything else stays as it is.
Kill(p) ==
  /\ pc[p] \notin {"out", "idle"}
  /\ kills < MaxKills /\ kills' = kills + 1
  /\ Goto(p, "out")
  /\ max' = [max EXCEPT ![p] = 0]
  /\ readers' = [o \in Obj |-> readers[o] \ {p}]
  /\ writer' = NoLocks(p, writer)
  /\ own' = [own EXCEPT ![p] = NoObj]
  /\ want' = [want EXCEPT ![p] = NoName]
  /\ EndList(p)
  /\ exc' = [exc EXCEPT ![p] = FALSE]
  /\ Abandon(p)
  /\ UNCHANGED <<loc, files, data, bytes, lru, size, maximum, compatible>>

-----------------------------------------------------------------------------
Step(p) ==
  \/ Fill(p) \/ TryAccount(p) \/ ListObjects(p)
  \/ VisitRemove(p) \/ VisitSkip(p) \/ VisitFails(p) \/ VisitEnd(p)
  \/ RemoveData(p) \/ RemoveLock(p) \/ RemoveDir(p) \/ RemoveFails(p)
  \/ Deaccount(p)
  \/ RetryAccount(p) \/ CommitInfo(p) \/ CommitFails(p) \/ Rename(p)
  \/ UndoInfo(p) \/ UndoSize(p) \/ UndoFails(p) \/ Discard(p) \/ DiscardFails(p)
  \/ Unlock(p) \/ EndLoad(p)

Next ==
  \E p \in Proc :
    \/ Kill(p)
    \/ /\ \/ Enter(p) \/ Exit(p) \/ Step(p)
          \/ \E m \in Maximum : SetInfo(p, m)
          \/ \E n \in Name : Load(p, n) \/ \E b \in Space : BeginStore(p, n, b)
       /\ UNCHANGED kills

Spec == Init /\ [][Next]_vars

-----------------------------------------------------------------------------
\* Who reads an object that is committed reads the one it asked for, whole, and nobody
\* removes any object that is read, or writes to it.  Of an object without its
\* object.info, whose removal was killed or failed halfway, a reader may see a part:
\* load does not look for it, though fscache.py:808 says that "no cache lookups will
\* ever consider the entry again".
ReaderSeesWhole ==
  \A p \in Proc : pc[p] = "reading" =>
    /\ writer[own[p]] = NoProc /\ loc[own[p]] = want[p]
    /\ "info" \in files[own[p]] => data[own[p]] = "whole"

\* "fully committed and accounted": an object.info stands, after any crash or failure
\* also, only for data that is whole, whose bytes were added to cache.size and have
\* not been given back for it.
InfoMeansWhole ==
  \A o \in Obj : loc[o] # "gone" /\ "info" \in files[o] =>
    data[o] = "whole" /\ acct[o] = bytes[o]

\* What was added to cache.size for the objects that are there or being removed, byte
\* by byte, and what cache.size says beyond that.
Counted(S) == UNION {{o} \X (1..acct[o]) : o \in S}

There == {o \in Obj : \/ loc[o] # "gone"
                      \/ \E p \in Proc : pc[p] \in Removing /\ Entry(p).obj = o}

Excess == size - Cardinality(Counted(There))

\* How cache.size may come to count more than it should: a removal is killed or fails
\* after some of the data is gone; an update that gives back fails, or is refused for
\* it leaves cache.size above the maximum this process knows; or a directory goes
\* whose object.info could not be unlinked.
Leaks(p) ==
  \/ pc[p] \in Removing \ {"rmdata"} /\ pc'[p] \in {"out", "discard"}
  \/ UndoFails(p)
  \/ pc[p] = "deaccount" /\ Resize(p, -space[p]) = TooBig
  \/ pc[p] = "undosize" /\ Resize(p, -bytes[own[p]]) = TooBig
  \/ pc[p] = "discard" /\ "info" \in files[own[p]]

\* The cache does not fill up with bytes of objects that are not there, but by these
\* steps.  The second and third are against "If the specified amount is negative, the
\* operation always succeeds" (fscache.py:752).
OvercountHasCause ==
  [][Excess' > 0 /\ Excess' > Excess => \E p \in Proc : Leaks(p)]_vars

\* How cache.size may come to count less than is there: eviction gives back what the
\* directory takes, object.lock and object.info included, or what a killed store never
\* had counted, and so more than was added for the object.
Overdraws(p) ==
  /\ pc[p] = "deaccount" /\ pc'[p] = "visit"
  /\ Excess - Excess' <= space[p] - acct[Entry(p).obj]

\* By no other step can committed bytes go uncounted.  That it is so by this one is
\* against "it is never overcommitted" (fscache.py:959).
UndercountHasCause ==
  [][Excess' < 0 /\ Excess' < Excess => \E p \in Proc : Overdraws(p)]_vars
=============================================================================
