------------------------------ MODULE OsbuildRun ------------------------------
(***************************************************************************)
(* One command that runs osbuild: Runner._run, OSBuildProgressMonitor of   *)
(* aib/progress.py with the pipe it reads, the hand-over of the result     *)
(* (Runner.move_chown, or Runner.rm_rf and convert_image) and the removal  *)
(* of the temporary directory (SudoTemporaryDirectory of aib/utils.py),    *)
(* in the four modes of aib/execmode.py, with osbuild beside it and Ctrl-C *)
(* at any point of the run.                                                *)
(*                                                                         *)
(* The directory is tmpdir, which holds the output directory and, without  *)
(* --build-dir, the store in which osbuild mounts file systems.            *)
(***************************************************************************)
EXTENDS Integers, Sequences, FiniteSets

CONSTANTS
  Lines,    \* the most lines osbuild prints
  Pipe,     \* the lines its pipe holds
  Mount,    \* where osbuild may mount a file system
  Below     \* <<m, n>>: m is below n

\* What a line is to the monitor: text that goes to the log file, a step that
\* moves the bar, or a step of a stage that says it has nothing to do.
Line == {"text", "step", "empty step"}

ASSUME RunAssumption ==
  /\ Lines \in Nat /\ Pipe \in Nat \ {0}
  /\ Below \subseteq Mount \X Mount
  /\ \A m \in Mount : <<m, m>> \notin Below
  /\ \A l, m, n \in Mount :
       <<l, m>> \in Below /\ <<m, n>> \in Below => <<l, n>> \in Below

Mode == {"root", "rootless-container", "sudo", "rootless"}

VARIABLES
  mode,         \* ExecMode.privilege
  progress,     \* --progress
  job,          \* "archive": hand over a file; "disk": write args.out
  pc, child,    \* aib, and osbuild: [state, code, left]
  pipe, reader, \* the pipe between them; aib's end of it is open
  gaveup,       \* the monitor stopped at an error
  interrupted,  \* the user pressed Ctrl-C
  dir,          \* the temporary directory exists
  mounted,      \* the file systems mounted below it
  todo,         \* those _unmount_subdirs has still to try
  missed,       \* history: those it could not list, and those umount refused
                \* for another reason than what is mounted below
  lost,         \* the file systems whose contents were removed
  out,          \* args.out: [of, owner]
  status        \* the exit status, once it is decided

runVars == <<mode, progress, job>>
childVars == <<child, pipe, mounted>>
listVars == <<todo, missed>>
vars == <<runVars, pc, childVars, reader, gaveup, interrupted, dir, listVars,
          lost, out, status>>

UsesSudo == mode = "sudo"

\* The prefix for trees a tool left behind: sudo, podman unshare, or none.
HasReapPrefix == mode \in {"sudo", "rootless"}

Running == child.state = "running"
Exited == child.state = "exited"

Output == [of : {"none", "old", "new"}, owner : {"me", "other"}]
NoOutput == [of |-> "none", owner |-> "me"]
Delivered == [of |-> "new", owner |-> "me"]

\* The owner of what a tool writes for run_as_root.
ToolOwner == IF UsesSudo THEN "other" ELSE "me"

Init ==
  /\ mode \in Mode
  /\ progress \in BOOLEAN /\ job \in {"archive", "disk"}
  /\ pc = "start"
  /\ child = [state |-> "none", code |-> 0, left |-> 0]
  /\ pipe = <<>> /\ reader = FALSE
  /\ gaveup = FALSE /\ interrupted = FALSE
  /\ dir = TRUE /\ mounted = {} /\ todo = {} /\ missed = {} /\ lost = {}
  /\ out \in {NoOutput, [of |-> "old", owner |-> "me"],
              [of |-> "old", owner |-> "other"]}
  /\ status = 0

Goto(l) == pc' = l

\* Cleanup lists what is mounted: nothing, when /proc/mounts cannot be read.
List(S) == todo' \in {S, {}} /\ missed' = S \ todo'

\* The with-block ends.
Unwind(s) == status' = s /\ Goto("unmount") /\ List(mounted)

-------------------------------------------------------------------------------
(* osbuild.                                                                *)

\* A write to a pipe nobody can read ends it.
PrintLine ==
  /\ Running /\ progress /\ child.left > 0
  /\ \/ /\ reader
        /\ Len(pipe) < Pipe
        /\ \E l \in Line : pipe' = Append(pipe, l)
        /\ child' = [child EXCEPT !.left = @ - 1]
     \/ /\ ~reader
        /\ child' = [child EXCEPT !.state = "exited", !.code = 1]
        /\ UNCHANGED pipe

Cover(S) == \A p \in Below : p[1] \in S => p[2] \in S

MountOne ==
  /\ Running /\ dir
  /\ \E m \in Mount \ mounted : Cover(mounted \cup {m}) /\ mounted' = mounted \cup {m}
  /\ UNCHANGED <<child, pipe>>

\* What stays mounted keeps what it lies below mounted.
Leave == \E S \in SUBSET mounted : Cover(S) /\ mounted' = S

Finish ==
  /\ Running /\ (child.left = 0 \/ ~progress)
  /\ \/ /\ child' = [child EXCEPT !.state = "exited"]
        /\ mounted' = {}
     \/ /\ child' = [child EXCEPT !.state = "exited", !.code = 1]
        /\ Leave
  /\ UNCHANGED pipe

Killed ==
  /\ Running
  /\ child' = [child EXCEPT !.state = "exited", !.code = -9]
  /\ Leave
  /\ UNCHANGED pipe

Osbuild ==
  /\ \/ PrintLine /\ UNCHANGED mounted
     \/ Finish
  /\ UNCHANGED <<runVars, pc, reader, gaveup, interrupted, dir, listVars, lost,
                 out, status>>

OsbuildOther ==
  /\ MountOne \/ Killed
  /\ UNCHANGED <<runVars, pc, reader, gaveup, interrupted, dir, listVars, lost,
                 out, status>>

-------------------------------------------------------------------------------
(* Runner._run around osbuild.                                             *)

UnchangedRun == UNCHANGED <<runVars, childVars, interrupted, dir, lost>>

\* run_as_root: ensure_sudo first, outside of every except clause of _run; the
\* user may give no password.
Authenticate ==
  /\ pc = "start"
  /\ \/ Goto("spawn") /\ UNCHANGED <<listVars, status>>
     \/ UsesSudo /\ Unwind(1)
  /\ UnchangedRun /\ UNCHANGED <<reader, gaveup, out>>

\* The log file is opened first, which can fail.
Spawn ==
  /\ pc = "spawn"
  /\ \/ /\ \E n \in 0..Lines :
             child' = [state |-> "running", code |-> 0, left |-> n]
        /\ reader' = progress
        /\ Goto(IF progress THEN "monitor" ELSE "wait")
        /\ UNCHANGED <<listVars, status>>
     \/ Unwind(1) /\ UNCHANGED <<child, reader>>
  /\ UNCHANGED <<runVars, pipe, mounted, gaveup, interrupted, dir, lost, out>>

\* aib's end of the pipe when an exception leaves the monitor: Popen.__exit__
\* closes it before it waits for osbuild.
ReaderKept == TRUE
ReaderAfterError == FALSE

\* Where it goes on: in Popen.__exit__, which waits.
AfterErrorAtOnce == "unmount"
AfterError == "close"

\* The monitor handles a line.  An OSError of the log file ends it quietly; an
\* empty step divides by zero, which nothing catches.
ReadLine ==
  /\ pc = "monitor" /\ pipe # <<>>
  /\ \/ /\ pipe' = Tail(pipe)
        /\ Head(pipe) # "empty step"
        /\ UNCHANGED <<pc, reader, gaveup, status>>
     \/ /\ pipe' = Tail(pipe)
        /\ Head(pipe) = "text"
        /\ gaveup' = TRUE
        /\ Goto("wait")
        /\ UNCHANGED <<reader, status>>
     \/ /\ Head(pipe) = "empty step"
        /\ reader' = ReaderAfterError
        /\ pipe' = IF reader' THEN Tail(pipe) ELSE <<>>
        /\ status' = 1
        /\ Goto(AfterError)
        /\ UNCHANGED gaveup
  /\ UNCHANGED <<runVars, child, mounted, interrupted, dir, listVars, lost, out>>

EndOfOutput ==
  /\ pc = "monitor" /\ pipe = <<>> /\ Exited
  /\ Goto("wait")
  /\ UnchangedRun
  /\ UNCHANGED <<listVars, reader, gaveup, out, status>>

\* What _run exits with: the return code, of which the kernel keeps 8 bits.
ExitStatusOfError(code) == IF code > 0 THEN code ELSE 0
ExitStatus(code) == IF progress THEN code % 256 ELSE IF code = 0 THEN 0 ELSE 1

Wait ==
  /\ pc = "wait" /\ Exited
  /\ LET s == ExitStatus(child.code) IN
     IF s = 0 THEN Goto("deliver") /\ UNCHANGED <<listVars, status>> ELSE Unwind(s)
  /\ UnchangedRun /\ UNCHANGED <<reader, gaveup, out>>

\* The end of Popen.__exit__ after an exception.
WaitClosed ==
  /\ pc = "close" /\ Exited
  /\ Unwind(status)
  /\ UnchangedRun /\ UNCHANGED <<reader, gaveup, out>>

\* Ctrl-C: Popen waits a moment, and no more.  subprocess.run also kills the
\* child, which it may not when that is sudo: it then waits, with another error.
Interrupt ==
  /\ pc \in {"monitor", "wait"} /\ ~interrupted
  /\ interrupted' = TRUE
  /\ reader' = FALSE
  /\ IF progress \/ Exited
     THEN Unwind(130) /\ UNCHANGED <<child, mounted>>
     ELSE IF UsesSudo
     THEN Goto("close") /\ status' = 1 /\ UNCHANGED <<child, mounted, listVars>>
     ELSE /\ child' = [child EXCEPT !.state = "exited", !.code = -9]
          /\ Leave
          /\ status' = 130 /\ Goto("unmount") /\ List(mounted')
  /\ pipe' = <<>>
  /\ UNCHANGED <<runVars, gaveup, dir, lost, out>>

-------------------------------------------------------------------------------
(* The result is handed over.                                              *)

UnchangedDelivery ==
  UNCHANGED <<runVars, childVars, reader, gaveup, interrupted, dir, lost>>

Fail == Unwind(1) /\ UNCHANGED out

\* move_chown: the owner first, while the file is still in tmpdir.
ChownFirst ==
  /\ pc = "deliver" /\ job = "archive" /\ UsesSudo
  /\ \/ Goto("mv") /\ UNCHANGED <<listVars, status, out>>
     \/ Fail
  /\ UnchangedDelivery

MoveByRoot ==
  /\ pc = "mv"
  /\ \/ Unwind(0) /\ out' = Delivered
     \/ Fail
  /\ UnchangedDelivery

Move ==
  /\ pc = "deliver" /\ job = "archive" /\ ~UsesSudo
  /\ \/ Unwind(0) /\ out' = Delivered
     \/ Fail
  /\ UnchangedDelivery

\* Runner.rm_rf(args.out), by this user and then by the reap prefix.
OwnRmtreeWorks == out.owner = "me" \/ mode = "root"

RemoveOld ==
  /\ pc = "deliver" /\ job = "disk"
  /\ \/ /\ out.of = "none" \/ OwnRmtreeWorks \/ HasReapPrefix
        /\ out' = NoOutput
        /\ Goto("convert")
        /\ UNCHANGED <<listVars, status>>
     \/ out.of = "old" /\ ~OwnRmtreeWorks /\ Fail
  /\ UnchangedDelivery

\* convert_image: a tool run as root, then chown, as root too.
Convert ==
  /\ pc = "convert"
  /\ \/ /\ out' = [of |-> "new", owner |-> ToolOwner]
        /\ Goto("chown")
        /\ UNCHANGED <<listVars, status>>
     \/ Fail
  /\ UnchangedDelivery

ChownOutput ==
  /\ pc = "chown"
  /\ \/ Unwind(0) /\ out' = [out EXCEPT !.owner = "me"]
     \/ Fail
  /\ UnchangedDelivery

-------------------------------------------------------------------------------
(* SudoTemporaryDirectory.cleanup.                                         *)

UnchangedCleanup == UNCHANGED <<runVars, child, pipe, reader, gaveup,
                                interrupted, out>>

\* find_mountpoints_under: the deepest first.
TopFirst(m) == \A n \in todo : <<m, n>> \notin Below
Deepest(m) == \A n \in todo : <<n, m>> \notin Below

Covered(m) == \E n \in mounted : <<n, m>> \in Below

\* umount of one of them.  That it fails is ignored, whatever the reason: it is
\* in use, or sudo or podman is refused.
Unmount ==
  /\ pc = "unmount"
  /\ \E m \in todo :
       /\ Deepest(m)
       /\ todo' = todo \ {m}
       /\ \/ ~Covered(m) /\ mounted' = mounted \ {m} /\ UNCHANGED missed
          \/ ~Covered(m) /\ missed' = missed \cup {m} /\ UNCHANGED mounted
          \/ Covered(m) /\ UNCHANGED <<mounted, missed>>
  /\ UnchangedCleanup /\ UNCHANGED <<pc, dir, lost, status>>

Removed == dir' = FALSE /\ Goto("exited") /\ UNCHANGED status

\* RuntimeError, which ends the command with status 1.
NotRemoved == Goto("exited") /\ status' = 1 /\ UNCHANGED dir

\* shutil.rmtree goes into what is mounted; an error of it, which a mount point
\* always is, leads to the reap prefix, if there is one.
Rmtree ==
  /\ pc = "unmount" /\ todo = {}
  /\ lost' = lost \cup mounted
  /\ \/ mounted = {} /\ Removed
     \/ HasReapPrefix /\ Goto("rmrf") /\ UNCHANGED <<dir, status>>
     \/ ~HasReapPrefix /\ NotRemoved
  /\ UnchangedCleanup /\ UNCHANGED <<mounted, listVars>>

\* rm -rf by the reap prefix.
RmRf ==
  /\ pc = "rmrf"
  /\ lost' = lost \cup mounted
  /\ \/ mounted = {} /\ Removed
     \/ NotRemoved
  /\ UnchangedCleanup /\ UNCHANGED <<mounted, listVars>>

-------------------------------------------------------------------------------

Aib ==
  \/ Authenticate \/ Spawn \/ ReadLine \/ EndOfOutput \/ Wait \/ WaitClosed
  \/ ChownFirst \/ MoveByRoot \/ Move \/ RemoveOld \/ Convert \/ ChownOutput
  \/ Unmount \/ Rmtree \/ RmRf

Next == Aib \/ Osbuild \/ OsbuildOther \/ Interrupt

\* aib goes on while it can, and osbuild prints and ends; that it mounts, is
\* killed or is interrupted is never promised.
Spec == Init /\ [][Next]_vars /\ WF_vars(Aib) /\ WF_vars(Osbuild)

-------------------------------------------------------------------------------
(* Properties.                                                             *)

\* Every variable has its type.
TypeOK ==
  /\ mode \in Mode /\ progress \in BOOLEAN /\ job \in {"archive", "disk"}
  /\ pc \in {"start", "spawn", "monitor", "wait", "close", "deliver", "mv",
             "convert", "chown", "unmount", "rmrf", "exited"}
  /\ child \in [state : {"none", "running", "exited"}, code : {0, 1, -9},
                left : 0..Lines]
  /\ pipe \in Seq(Line) /\ Len(pipe) <= Pipe
  /\ {reader, gaveup, interrupted, dir} \subseteq BOOLEAN
  /\ {mounted, todo, missed, lost} \subseteq SUBSET Mount
  /\ out \in Output
  /\ status \in 0..255

\* Runner and the with-blocks: status 0 means that osbuild succeeded, that the
\* result is where the user wants it and is the user's, and that tmpdir is gone.
SuccessIsHonest ==
  pc = "exited" /\ status = 0 =>
    /\ Exited /\ child.code = 0
    /\ out = Delivered
    /\ ~dir

\* _unmount_subdirs: a umount that fails costs the contents of that file system
\* and of those it lies below, and of no other: each of them is unmounted before
\* anything is removed, unless osbuild runs on after Ctrl-C.
MountsSpared ==
  \A m \in lost :
    interrupted \/ m \in missed \/ \E n \in missed : <<n, m>> \in Below

\* Popen's with-block: cleanup takes the directory away from under a running
\* osbuild after Ctrl-C only, which Popen does not wait for.
CleanupAfterChild ==
  pc \in {"unmount", "rmrf", "exited"} /\ Running => interrupted

\* The monitor gave up, and osbuild has more to print than the pipe holds:
\* nobody reads it, and process.wait() waits for an osbuild that cannot end.
Stuck == gaveup /\ Running /\ reader /\ Len(pipe) = Pipe /\ child.left > 0

\* OSBuildProgressMonitor.run and cleanup: a run ends, whatever osbuild prints
\* and whichever step fails, but where the log cannot be written.
RunEnds == <>(pc = "exited" \/ Stuck)
===============================================================================
