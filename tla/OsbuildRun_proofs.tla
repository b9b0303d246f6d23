-------------------------- MODULE OsbuildRun_proofs --------------------------
(***************************************************************************)
(* What a run of osbuild promises, for any number of lines, any pipe and   *)
(* any file systems below one another: status 0 is honest, cleanup waits   *)
(* for osbuild, and a umount that fails endangers no other file system.    *)
(***************************************************************************)
EXTENDS OsbuildRun, TLAPS

-----------------------------------------------------------------------------
(* The run.                                                                *)

Cleaning == pc \in {"unmount", "rmrf", "exited"}

\* What is known of osbuild and of the result where the run is.
Phase ==
  /\ pc \in {"start", "spawn"} => child.state = "none" /\ mounted = {}
  /\ pc \in {"deliver", "mv", "convert", "chown"} => Exited /\ child.code = 0
  /\ pc = "chown" => out.of = "new"
  /\ pc = "close" => status # 0

\* What is known of them once cleanup began.
Ended ==
  Cleaning =>
    /\ Running => interrupted
    /\ status = 0 => Exited /\ child.code = 0 /\ out = Delivered
    /\ pc = "exited" /\ status = 0 => ~dir

\* A umount that fails endangers the file system and those it lies below.
Endangered(m) == m \in missed \/ \E n \in missed : <<n, m>> \in Below

\* What is mounted is on the list of what to unmount or endangered, and all of
\* it is endangered when files are removed.
Listed ==
  ~interrupted =>
    /\ pc = "unmount" => \A m \in mounted : m \in todo \/ Endangered(m)
    /\ pc = "rmrf" => \A m \in mounted : Endangered(m)

\* Only cleanup removes files, and only endangered ones where file systems are.
Spared ==
  /\ lost # {} => Cleaning
  /\ \A m \in lost : interrupted \/ Endangered(m)

Inv == TypeOK /\ Phase /\ Ended /\ Listed /\ Spared

LEMMA InitInv == Init => Inv
  <1> SUFFICES ASSUME Init PROVE Inv
    OBVIOUS
  <1>2. TypeOK
    <2>1. pipe \in Seq(Line) /\ Len(pipe) <= Pipe
      BY RunAssumption DEF Init
    <2>2. child \in [state : {"none", "running", "exited"}, code : {0, 1, -9},
                     left : 0..Lines]
      BY RunAssumption DEF Init
    <2>3. out \in Output
      BY DEF Init, Output, NoOutput
    <2>4. /\ {reader, gaveup, interrupted, dir} \subseteq BOOLEAN
          /\ mode \in Mode /\ progress \in BOOLEAN /\ job \in {"archive", "disk"}
      BY DEF Init
    <2>5. /\ {mounted, todo, missed, lost} \subseteq SUBSET Mount
          /\ status \in 0..255
          /\ pc = "start"
      BY DEF Init
    <2> QED BY <2>1, <2>2, <2>3, <2>4, <2>5 DEF TypeOK
  <1> QED
    BY <1>2 DEF Init, Inv, Phase, Ended, Listed, Spared, Cleaning, Running

\* What osbuild does leaves the rest alone: aib is then before the end of it, or
\* was interrupted.
LEMMA OsbuildInv == Inv /\ (Osbuild \/ OsbuildOther) => Inv'
  <1> SUFFICES ASSUME Inv, Osbuild \/ OsbuildOther PROVE Inv'
    OBVIOUS
  <1>1. /\ Running
        /\ UNCHANGED <<runVars, pc, reader, gaveup, interrupted, dir, listVars,
                       lost, out, status>>
    BY DEF Osbuild, OsbuildOther, PrintLine, Finish, MountOne, Killed
  <1>2. /\ child' \in [state : {"none", "running", "exited"},
                       code : {0, 1, -9}, left : 0..Lines]
        /\ child'.state \in {"running", "exited"}
    <2>1. child \in [state : {"none", "running", "exited"},
                     code : {0, 1, -9}, left : 0..Lines]
      BY DEF Inv, TypeOK
    <2>2. CASE PrintLine
      <3>1. child.left \in 0..Lines /\ child.left > 0 /\ Lines \in Nat
        BY <2>1, <2>2, RunAssumption DEF PrintLine
      <3>2. child.left - 1 \in 0..Lines
        BY <3>1
      <3>3. \/ child' = [child EXCEPT !.left = child.left - 1]
            \/ child' = [child EXCEPT !.state = "exited", !.code = 1]
        BY <2>2 DEF PrintLine
      <3> QED BY <2>1, <3>2, <3>3, <1>1 DEF Running
    <2>3. CASE Finish
      BY <2>1, <2>3 DEF Finish
    <2>4. CASE MountOne
      BY <2>1, <2>4, <1>1 DEF MountOne, Running
    <2>5. CASE Killed
      BY <2>1, <2>5 DEF Killed
    <2> QED BY <2>2, <2>3, <2>4, <2>5 DEF Osbuild, OsbuildOther
  <1>3. pipe' \in Seq(Line) /\ Len(pipe') <= Pipe
    <2>1. pipe \in Seq(Line) /\ Len(pipe) <= Pipe
      BY DEF Inv, TypeOK
    <2>2. CASE PrintLine
      <3>1. CASE UNCHANGED pipe
        BY <2>1, <3>1
      <3>2. CASE /\ Len(pipe) < Pipe
                 /\ \E l \in Line : pipe' = Append(pipe, l)
        BY <2>1, <3>2, RunAssumption
      <3> QED BY <2>2, <3>1, <3>2 DEF PrintLine
    <2> QED
      BY <2>1, <2>2 DEF Osbuild, OsbuildOther, Finish, MountOne, Killed
  <1>4. mounted' \subseteq Mount
    BY DEF Inv, TypeOK, Osbuild, OsbuildOther, PrintLine, Finish, MountOne,
           Killed, Leave
  <1>5. TypeOK'
    BY <1>1, <1>2, <1>3, <1>4
    DEF Inv, TypeOK, runVars, listVars
  <1>6. /\ pc \notin {"start", "spawn", "deliver", "mv", "convert", "chown"}
        /\ Cleaning => interrupted /\ status # 0
    BY <1>1 DEF Inv, Phase, Ended, Running, Exited
  <1>7. Phase' /\ Ended'
    BY <1>1, <1>6 DEF Inv, Phase, Ended, Cleaning
  <1>8. Listed' /\ Spared'
    BY <1>1, <1>6 DEF Inv, Listed, Spared, Cleaning, Endangered, listVars
  <1> QED BY <1>5, <1>7, <1>8 DEF Inv

\* The end of a with-block that is left with status s.
LEMMA UnwindInv ==
  ASSUME Inv, NEW s \in 0..255, Unwind(s),
         UNCHANGED <<runVars, pipe, gaveup, dir, lost>>,
         reader' \in BOOLEAN, interrupted' \in BOOLEAN,
         UNCHANGED childVars,
         out' \in Output,
         ~Cleaning,
         Running => interrupted',
         s = 0 => Exited /\ child.code = 0 /\ out' = Delivered
  PROVE  Inv'
  <1>1. /\ pc' = "unmount" /\ status' = s
        /\ todo' \in {mounted, {}} /\ missed' = mounted \ todo'
        /\ mounted' = mounted /\ child' = child /\ lost' = lost
    BY DEF Unwind, Goto, List, childVars
  <1>2. TypeOK'
    BY <1>1 DEF Inv, TypeOK, runVars
  <1>3. Phase' /\ Ended'
    BY <1>1 DEF Inv, Phase, Ended, Cleaning, Running, Exited
  <1>4. Listed' /\ Spared'
    BY <1>1 DEF Inv, Listed, Spared, Cleaning, Endangered
  <1> QED BY <1>2, <1>3, <1>4 DEF Inv

-----------------------------------------------------------------------------
(* aib.                                                                    *)

\* A step that only moves on, to a place before cleanup.
LEMMA GotoInv ==
  ASSUME Inv, ~Cleaning,
         NEW l \in {"spawn", "wait", "deliver", "mv"}, Goto(l),
         UNCHANGED <<runVars, childVars, gaveup, interrupted, dir, listVars, lost,
                     out, status, reader>>,
         l = "spawn" => pc = "start",
         l \in {"deliver", "mv"} => Exited /\ child.code = 0
  PROVE  Inv'
  <1>1. TypeOK'
    BY DEF Inv, TypeOK, Goto, runVars, childVars, listVars
  <1>2. Phase' /\ Ended' /\ Listed' /\ Spared'
    BY DEF Inv, Phase, Ended, Listed, Spared, Cleaning, Goto, childVars,
           Exited, Endangered
  <1> QED BY <1>1, <1>2 DEF Inv

LEMMA AuthenticateInv == Inv /\ Authenticate => Inv'
  <1> SUFFICES ASSUME Inv, Authenticate PROVE Inv'
    OBVIOUS
  <1>1. /\ pc = "start" /\ ~Cleaning /\ child.state = "none"
        /\ UNCHANGED <<runVars, childVars, interrupted, dir, lost, reader,
                       gaveup, out>>
        /\ out \in Output /\ reader \in BOOLEAN /\ interrupted \in BOOLEAN
    BY DEF Authenticate, UnchangedRun, Cleaning, Inv, Phase, TypeOK
  <1>2. CASE Goto("spawn") /\ UNCHANGED <<listVars, status>>
    BY <1>1, <1>2, GotoInv
  <1>3. CASE Unwind(1)
    BY <1>1, <1>3, UnwindInv DEF Running, runVars, childVars
  <1> QED BY <1>2, <1>3 DEF Authenticate

LEMMA SpawnInv == Inv /\ Spawn => Inv'
  <1> SUFFICES ASSUME Inv, Spawn PROVE Inv'
    OBVIOUS
  <1>1. /\ pc = "spawn" /\ ~Cleaning /\ child.state = "none" /\ mounted = {}
        /\ UNCHANGED <<runVars, pipe, mounted, gaveup, interrupted, dir, lost,
                       out>>
        /\ out \in Output /\ reader \in BOOLEAN
        /\ interrupted \in BOOLEAN /\ progress \in BOOLEAN
    BY DEF Spawn, Cleaning, Inv, Phase, TypeOK
  <1>2. CASE Unwind(1) /\ UNCHANGED <<child, reader>>
    BY <1>1, <1>2, UnwindInv DEF Running, runVars, childVars
  <1>3. CASE /\ \E n \in 0..Lines :
                  child' = [state |-> "running", code |-> 0, left |-> n]
             /\ reader' = progress
             /\ Goto(IF progress THEN "monitor" ELSE "wait")
             /\ UNCHANGED <<listVars, status>>
    <2>1. /\ child' \in [state : {"none", "running", "exited"},
                         code : {0, 1, -9}, left : 0..Lines]
          /\ child'.state = "running"
      BY <1>3
    <2>2. pc' \in {"monitor", "wait"}
      BY <1>3 DEF Goto
    <2>3. TypeOK'
      BY <1>1, <1>3, <2>1, <2>2 DEF Inv, TypeOK, runVars, listVars
    <2>4. Phase' /\ Ended' /\ Listed' /\ Spared'
      BY <1>1, <1>3, <2>1, <2>2
      DEF Inv, Phase, Ended, Listed, Spared, Cleaning, Endangered
    <2> QED BY <2>3, <2>4 DEF Inv
  <1> QED BY <1>2, <1>3 DEF Spawn

LEMMA MonitorInv == Inv /\ (ReadLine \/ EndOfOutput) => Inv'
  <1> SUFFICES ASSUME Inv, ReadLine \/ EndOfOutput PROVE Inv'
    OBVIOUS
  <1>1. /\ pc = "monitor"
        /\ UNCHANGED <<runVars, child, mounted, interrupted, dir, listVars,
                       lost, out>>
    BY DEF ReadLine, EndOfOutput, UnchangedRun, childVars
  <1>2. pipe' \in Seq(Line) /\ Len(pipe') <= Pipe
    <2>1. pipe \in Seq(Line) /\ Len(pipe) <= Pipe /\ Pipe \in Nat
      BY RunAssumption DEF Inv, TypeOK
    <2>2. pipe # <<>> =>
            Tail(pipe) \in Seq(Line) /\ Len(Tail(pipe)) <= Pipe
      BY <2>1
    <2>3. \/ pipe' = pipe
          \/ pipe # <<>> /\ pipe' = Tail(pipe)
          \/ pipe' = <<>>
      BY DEF ReadLine, EndOfOutput, UnchangedRun, childVars
    <2>4. <<>> \in Seq(Line) /\ Len(<<>>) <= Pipe
      BY <2>1
    <2>5. CASE pipe' = <<>>
      BY <2>4, <2>5, Zenon
    <2> QED BY <2>1, <2>2, <2>3, <2>5
  <1>3. /\ pc' \in {"monitor", "wait", "close"}
        /\ reader' \in BOOLEAN /\ gaveup' \in BOOLEAN
        /\ status' \in 0..255
        /\ pc' = "close" => status' # 0
    <2>1. reader \in BOOLEAN /\ gaveup \in BOOLEAN /\ status \in 0..255
      BY DEF Inv, TypeOK
    <2>2. CASE ReadLine
      <3>1. CASE UNCHANGED <<pc, reader, gaveup, status>>
        BY <1>1, <2>1, <3>1
      <3>2. CASE gaveup' = TRUE /\ pc' = "wait" /\ UNCHANGED <<reader, status>>
        BY <2>1, <3>2
      <3>3. CASE /\ reader' = FALSE /\ status' = 1 /\ pc' = "close"
                 /\ UNCHANGED gaveup
        <4>1. status' \in 0..255 /\ status' # 0
          BY <3>3
        <4>2. reader' \in BOOLEAN /\ gaveup' \in BOOLEAN
          BY <2>1, <3>3, Zenon
        <4> QED BY <3>3, <4>1, <4>2
      <3> QED
        BY <2>2, <3>1, <3>2, <3>3
        DEF ReadLine, Goto, AfterError, ReaderAfterError
    <2>3. CASE EndOfOutput
      BY <1>1, <2>1, <2>3 DEF EndOfOutput, Goto
    <2> QED BY <2>2, <2>3
  <1>4. TypeOK'
    BY <1>1, <1>2, <1>3 DEF Inv, TypeOK, runVars, listVars
  <1>5. Phase' /\ Ended' /\ Listed' /\ Spared'
    BY <1>1, <1>3
    DEF Inv, Phase, Ended, Listed, Spared, Cleaning, Endangered
  <1> QED BY <1>4, <1>5 DEF Inv

\* The 8 bits of a return code tell success from an error.
LEMMA ExitStatusHonest ==
  ASSUME NEW c \in {0, 1, -9}
  PROVE  ExitStatus(c) \in 0..255 /\ (ExitStatus(c) = 0 => c = 0)
  <1>1. c % 256 \in 0..255
    OBVIOUS
  <1>2. CASE c = 1
    <2>1. c % 256 = 1
      BY <1>2
    <2> QED BY <1>2, <2>1 DEF ExitStatus
  <1>3. CASE c = -9
    <2>1. c % 256 # 0
      BY <1>3
    <2> QED BY <1>1, <1>3, <2>1 DEF ExitStatus
  <1> QED BY <1>1, <1>2, <1>3 DEF ExitStatus

LEMMA WaitInv == Inv /\ (Wait \/ WaitClosed) => Inv'
  <1> SUFFICES ASSUME Inv, Wait \/ WaitClosed PROVE Inv'
    OBVIOUS
  <1>1. /\ pc \in {"wait", "close"} /\ ~Cleaning /\ Exited /\ ~Running
        /\ UNCHANGED <<runVars, childVars, interrupted, dir, lost, reader,
                       gaveup, out>>
        /\ child.code \in {0, 1, -9} /\ status \in 0..255
        /\ reader \in BOOLEAN /\ interrupted \in BOOLEAN /\ out \in Output
    BY DEF Wait, WaitClosed, UnchangedRun, Cleaning, Exited, Running, Inv, TypeOK
  <1>2. CASE WaitClosed
    <2>1. status # 0 /\ Unwind(status)
      BY <1>2 DEF WaitClosed, Inv, Phase
    <2> QED BY <1>1, <2>1, UnwindInv DEF runVars, childVars
  <1>3. CASE Wait
    <2> DEFINE s == ExitStatus(child.code)
    <2>1. s \in 0..255 /\ (s = 0 => child.code = 0)
      BY <1>1, ExitStatusHonest
    <2>2. \/ s = 0 /\ Goto("deliver") /\ UNCHANGED <<listVars, status>>
          \/ s # 0 /\ Unwind(s)
      BY <1>3 DEF Wait
    <2> HIDE DEF s
    <2>3. CASE s = 0 /\ Goto("deliver") /\ UNCHANGED <<listVars, status>>
      BY <1>1, <2>1, <2>3, GotoInv
    <2>4. CASE s # 0 /\ Unwind(s)
      BY <1>1, <2>1, <2>4, UnwindInv DEF runVars, childVars
    <2> QED BY <2>2, <2>3, <2>4
  <1> QED BY <1>2, <1>3

\* Ctrl-C: what osbuild does from here on is no longer aib's word.
LEMMA InterruptInv == Inv /\ Interrupt => Inv'
  <1> SUFFICES ASSUME Inv, Interrupt PROVE Inv'
    OBVIOUS
  <1>1. /\ pc \in {"monitor", "wait"} /\ interrupted' = TRUE /\ reader' = FALSE
        /\ pipe' = <<>>
        /\ UNCHANGED <<runVars, gaveup, dir, lost, out>>
    BY DEF Interrupt
  <1>2. /\ pc' \in {"unmount", "close"}
        /\ status' \in 1..255
        /\ todo' \in {todo, mounted', {}}
        /\ missed' = missed \/ missed' \subseteq mounted'
        /\ mounted' \subseteq mounted
        /\ child' \in {child, [child EXCEPT !.state = "exited", !.code = -9]}
    <2>1. CASE Unwind(130) /\ UNCHANGED <<child, mounted>>
      BY <2>1 DEF Unwind, Goto, List
    <2>2. CASE /\ Goto("close") /\ status' = 1
               /\ UNCHANGED <<child, mounted, listVars>>
      BY <2>2 DEF Goto, listVars
    <2>3. CASE /\ child' = [child EXCEPT !.state = "exited", !.code = -9]
               /\ Leave
               /\ status' = 130 /\ Goto("unmount") /\ List(mounted')
      <3>1. mounted' \subseteq mounted
        BY <2>3 DEF Leave
      <3>2. /\ todo' \in {todo, mounted', {}}
            /\ missed' = missed \/ missed' \subseteq mounted'
        BY <2>3 DEF List
      <3> QED BY <2>3, <3>1, <3>2 DEF Goto
    <2> QED BY <2>1, <2>2, <2>3 DEF Interrupt
  <1>3. pipe' \in Seq(Line) /\ Len(pipe') <= Pipe
    <2>1. <<>> \in Seq(Line) /\ Len(<<>>) <= Pipe
      BY RunAssumption
    <2> QED BY <1>1, <2>1, Zenon
  <1>4. child' \in [state : {"none", "running", "exited"}, code : {0, 1, -9},
                    left : 0..Lines]
    BY <1>2 DEF Inv, TypeOK
  <1>5. {reader', gaveup', interrupted', dir'} \subseteq BOOLEAN
    <2>1. {gaveup, dir} \subseteq BOOLEAN
      BY DEF Inv, TypeOK
    <2> QED BY <1>1, <2>1, Zenon
  <1>6. {mounted', todo', missed', lost'} \subseteq SUBSET Mount
    BY <1>1, <1>2 DEF Inv, TypeOK
  <1>7. TypeOK'
    BY <1>1, <1>2, <1>3, <1>4, <1>5, <1>6 DEF Inv, TypeOK, runVars
  <1>8. interrupted' /\ lost' = {}
    <2>1. lost = {}
      BY <1>1 DEF Inv, Spared, Cleaning
    <2> QED BY <1>1, <2>1, Zenon
  <1>9. Phase' /\ Ended'
    <2>1. pc' \in {"unmount", "close"} /\ status' # 0
      BY <1>2
    <2> QED BY <1>8, <2>1 DEF Phase, Ended
  <1>10. Listed' /\ Spared'
    BY <1>8 DEF Listed, Spared
  <1> QED BY <1>7, <1>9, <1>10 DEF Inv

-----------------------------------------------------------------------------
(* The result is handed over.                                              *)

\* What is known while a result is handed over, and what no step of it does.
Delivering ==
  /\ pc \in {"deliver", "mv", "convert", "chown"}
  /\ ~Cleaning /\ Exited /\ child.code = 0 /\ ~Running
  /\ reader \in BOOLEAN /\ interrupted \in BOOLEAN /\ out \in Output

LEMMA DeliveringHolds ==
  Inv /\ pc \in {"deliver", "mv", "convert", "chown"} => Delivering
  BY DEF Delivering, Cleaning, Inv, TypeOK, Phase, Exited, Running

LEMMA FailInv ==
  ASSUME Inv, Delivering, Fail, UnchangedDelivery
  PROVE  Inv'
  <1>1. Unwind(1) /\ UNCHANGED <<out, runVars, childVars, reader, gaveup,
                                 interrupted, dir, lost>>
    BY DEF Fail, UnchangedDelivery
  <1>2. UNCHANGED <<runVars, pipe, gaveup, dir, lost>>
    BY <1>1 DEF childVars
  <1>3. reader' \in BOOLEAN /\ interrupted' \in BOOLEAN /\ out' \in Output
    BY <1>1 DEF Delivering
  <1>4. ~Cleaning /\ ~Running
    BY DEF Delivering
  <1> QED BY <1>1, <1>2, <1>3, <1>4, UnwindInv

\* The result is in its place.
LEMMA DeliveredInv ==
  ASSUME Inv, Delivering, Unwind(0), out' = Delivered, UnchangedDelivery
  PROVE  Inv'
  <1>1. Delivered \in Output
    BY DEF Delivered, Output
  <1>2. /\ UNCHANGED <<runVars, pipe, gaveup, dir, lost>>
        /\ UNCHANGED childVars
        /\ UNCHANGED <<reader, interrupted>>
    BY DEF UnchangedDelivery, childVars
  <1>3. reader' \in BOOLEAN /\ interrupted' \in BOOLEAN /\ out' \in Output
    BY <1>1, <1>2 DEF Delivering
  <1>4. ~Cleaning /\ ~Running /\ Exited /\ child.code = 0
    BY DEF Delivering
  <1>5. 0 \in 0..255
    OBVIOUS
  <1> QED BY <1>2, <1>3, <1>4, <1>5, UnwindInv

\* The output changes on the way to convert and to chown.
LEMMA OutputInv ==
  ASSUME Inv, Delivering, UnchangedDelivery,
         UNCHANGED <<listVars, status>>, out' \in Output,
         NEW l \in {"convert", "chown"}, Goto(l),
         l = "chown" => out'.of = "new"
  PROVE  Inv'
  <1>1. /\ pc' = l /\ ~Cleaning /\ Exited /\ child.code = 0
        /\ UNCHANGED <<runVars, child, pipe, mounted, reader, gaveup,
                       interrupted, dir, lost>>
    BY DEF Goto, Delivering, UnchangedDelivery, childVars
  <1>2. TypeOK'
    BY <1>1 DEF Inv, TypeOK, runVars, listVars
  <1>3. Phase' /\ Ended' /\ Listed' /\ Spared'
    BY <1>1
    DEF Inv, Phase, Ended, Listed, Spared, Cleaning, Exited, Endangered
  <1> QED BY <1>2, <1>3 DEF Inv

LEMMA ArchiveInv == Inv /\ (ChownFirst \/ MoveByRoot \/ Move) => Inv'
  <1> SUFFICES ASSUME Inv, ChownFirst \/ MoveByRoot \/ Move PROVE Inv'
    OBVIOUS
  <1>1. Delivering /\ UnchangedDelivery
    BY DeliveringHolds DEF ChownFirst, MoveByRoot, Move
  <1>2. CASE ChownFirst
    <2>1. CASE Goto("mv") /\ UNCHANGED <<listVars, status, out>>
      <3>1. /\ UNCHANGED <<runVars, childVars, gaveup, interrupted, dir,
                           listVars, lost, out, status, reader>>
            /\ ~Cleaning /\ Exited /\ child.code = 0
        BY <1>1, <2>1 DEF Delivering, UnchangedDelivery
      <3> QED BY <2>1, <3>1, GotoInv
    <2> QED BY <1>1, <1>2, <2>1, FailInv DEF ChownFirst
  <1>3. CASE MoveByRoot
    BY <1>1, <1>3, FailInv, DeliveredInv DEF MoveByRoot
  <1>4. CASE Move
    BY <1>1, <1>4, FailInv, DeliveredInv DEF Move
  <1> QED BY <1>2, <1>3, <1>4

LEMMA DiskInv == Inv /\ (RemoveOld \/ Convert \/ ChownOutput) => Inv'
  <1> SUFFICES ASSUME Inv, RemoveOld \/ Convert \/ ChownOutput PROVE Inv'
    OBVIOUS
  <1>1. Delivering /\ UnchangedDelivery
    BY DeliveringHolds DEF RemoveOld, Convert, ChownOutput
  <1>2. NoOutput \in Output
    BY DEF NoOutput, Output
  <1>3. CASE RemoveOld
    <2>1. \/ Goto("convert") /\ out' = NoOutput /\ UNCHANGED <<listVars, status>>
          \/ Fail
      BY <1>3 DEF RemoveOld
    <2> QED BY <1>1, <1>2, <2>1, FailInv, OutputInv
  <1>4. CASE Convert
    <2>1. \/ /\ out' = [of |-> "new", owner |-> ToolOwner]
             /\ Goto("chown") /\ UNCHANGED <<listVars, status>>
          \/ Fail
      BY <1>4 DEF Convert
    <2>2. [of |-> "new", owner |-> ToolOwner] \in Output
      BY DEF ToolOwner, Output
    <2>3. out' = [of |-> "new", owner |-> ToolOwner] => out'.of = "new"
      OBVIOUS
    <2> QED BY <1>1, <2>1, <2>2, <2>3, FailInv, OutputInv
  <1>5. CASE ChownOutput
    <2>1. \/ Unwind(0) /\ out' = [out EXCEPT !.owner = "me"]
          \/ Fail
      BY <1>5 DEF ChownOutput
    <2>2. out \in Output /\ out.of = "new"
      BY <1>5 DEF ChownOutput, Inv, TypeOK, Phase
    <2>3. [out EXCEPT !.owner = "me"] = Delivered
      BY <2>2 DEF Output, Delivered
    <2> QED BY <1>1, <2>1, <2>3, FailInv, DeliveredInv
  <1> QED BY <1>3, <1>4, <1>5

-----------------------------------------------------------------------------
(* Cleanup.                                                                *)

\* The list is worked off from the deepest: what lies below the one that is
\* tried is not on the list any more, so it is there because a umount failed.
LEMMA UnmountInv == Inv /\ Unmount => Inv'
  <1> SUFFICES ASSUME Inv, Unmount PROVE Inv'
    OBVIOUS
  <1>1. PICK m \in todo :
          /\ Deepest(m)
          /\ todo' = todo \ {m}
          /\ \/ ~Covered(m) /\ mounted' = mounted \ {m} /\ UNCHANGED missed
             \/ ~Covered(m) /\ missed' = missed \cup {m} /\ UNCHANGED mounted
             \/ Covered(m) /\ UNCHANGED <<mounted, missed>>
    BY DEF Unmount
  <1>2. /\ pc = "unmount"
        /\ UNCHANGED <<runVars, child, pipe, reader, gaveup, interrupted, out,
                       pc, dir, lost, status>>
    BY DEF Unmount, UnchangedCleanup
  <1>3. /\ mounted' \subseteq mounted
        /\ missed \subseteq missed' /\ missed' \subseteq missed \cup {m}
        /\ {mounted, todo, missed} \subseteq SUBSET Mount
    BY <1>1 DEF Inv, TypeOK
  <1>4. {mounted', todo', missed'} \subseteq SUBSET Mount
    BY <1>1, <1>3
  <1>5. TypeOK'
    BY <1>2, <1>4 DEF Inv, TypeOK, runVars
  <1>6. Phase' /\ Ended'
    BY <1>2 DEF Inv, Phase, Ended, Cleaning, Running, Exited
  <1>7. Spared'
    BY <1>2, <1>3 DEF Inv, Spared, Cleaning, Endangered
  <1>8. Listed'
    <2> SUFFICES ASSUME ~interrupted, NEW k \in mounted'
                 PROVE  k \in todo' \/ Endangered(k)'
      BY <1>2 DEF Listed
    <2>1. \A l \in mounted : l \in todo \/ Endangered(l)
      BY <1>2 DEF Inv, Listed
    <2>2. k \in todo \/ Endangered(k)
      BY <1>3, <2>1
    <2>3. CASE Endangered(k)
      BY <1>3, <2>3 DEF Endangered
    <2>4. CASE k \in todo /\ k # m
      BY <1>1, <2>4
    <2>5. CASE k = m /\ ~Covered(m)
      BY <1>1, <2>5 DEF Endangered
    <2>6. CASE k = m /\ Covered(m)
      <3>1. PICK n \in mounted : <<n, m>> \in Below
        BY <2>6 DEF Covered
      <3>2. Endangered(n)
        BY <1>1, <2>1, <3>1 DEF Deepest
      <3>3. Endangered(m)
        <4>1. CASE n \in missed
          BY <3>1, <4>1 DEF Endangered
        <4>2. CASE \E l \in missed : <<l, n>> \in Below
          <5>1. PICK l \in missed : <<l, n>> \in Below
            BY <4>2
          <5>2. {l, n, m} \subseteq Mount
            BY <1>3
          <5>3. <<l, m>> \in Below
            BY <3>1, <5>1, <5>2, RunAssumption
          <5> QED BY <5>1, <5>3 DEF Endangered
        <4> QED BY <3>2, <4>1, <4>2 DEF Endangered
      <3> QED BY <1>3, <2>6, <3>3 DEF Endangered
    <2> QED BY <2>2, <2>3, <2>4, <2>5, <2>6
  <1> QED BY <1>5, <1>6, <1>7, <1>8 DEF Inv

LEMMA RemoveInv == Inv /\ (Rmtree \/ RmRf) => Inv'
  <1> SUFFICES ASSUME Inv, Rmtree \/ RmRf PROVE Inv'
    OBVIOUS
  <1>1. /\ Cleaning /\ pc # "exited" /\ (pc = "unmount" => todo = {})
        /\ UNCHANGED <<runVars, child, pipe, reader, gaveup, interrupted, out,
                       mounted, listVars>>
        /\ lost' = lost \cup mounted
    BY DEF Rmtree, RmRf, UnchangedCleanup, Cleaning
  <1>2. \/ Removed
        \/ NotRemoved
        \/ Goto("rmrf") /\ UNCHANGED <<dir, status>>
    BY DEF Rmtree, RmRf
  <1>3. /\ pc' \in {"rmrf", "exited"}
        /\ status' \in 0..255 /\ (status' = 0 => status = 0)
        /\ dir' \in BOOLEAN
        /\ pc' = "exited" /\ status' = 0 => ~dir'
    <2>1. status \in 0..255 /\ dir \in BOOLEAN
      BY DEF Inv, TypeOK
    <2>2. CASE Removed
      BY <2>1, <2>2 DEF Removed, Goto
    <2>3. CASE NotRemoved
      BY <2>1, <2>3 DEF NotRemoved, Goto
    <2>4. CASE Goto("rmrf") /\ UNCHANGED <<dir, status>>
      BY <2>1, <2>4 DEF Goto
    <2> QED BY <1>2, <2>2, <2>3, <2>4
  <1>4. TypeOK'
    BY <1>1, <1>3 DEF Inv, TypeOK, runVars, listVars
  <1>5. ~interrupted => \A m \in mounted : Endangered(m)
    BY <1>1 DEF Inv, Listed, Cleaning
  <1>6. Listed' /\ Spared'
    BY <1>1, <1>3, <1>5
    DEF Inv, Listed, Spared, Cleaning, Endangered, listVars
  <1>7. Phase' /\ Ended'
    BY <1>1, <1>3 DEF Inv, Phase, Ended, Cleaning, Running, Exited
  <1> QED BY <1>4, <1>6, <1>7 DEF Inv

-----------------------------------------------------------------------------
(* The theorems.                                                           *)

LEMMA StepInv == Inv /\ [Next]_vars => Inv'
  <1> SUFFICES ASSUME Inv, [Next]_vars PROVE Inv'
    OBVIOUS
  <1>1. CASE Aib
    BY <1>1, AuthenticateInv, SpawnInv, MonitorInv, WaitInv, ArchiveInv, DiskInv,
       UnmountInv, RemoveInv DEF Aib
  <1>2. CASE Osbuild \/ OsbuildOther
    BY <1>2, OsbuildInv
  <1>3. CASE Interrupt
    BY <1>3, InterruptInv
  <1>4. CASE UNCHANGED vars
    <2>1. UNCHANGED <<runVars, childVars, pc, reader, gaveup, interrupted, dir,
                     listVars, lost, out, status>>
      BY <1>4 DEF vars
    <2>2. TypeOK'
      BY <2>1 DEF Inv, TypeOK, runVars, childVars, listVars
    <2>3. Phase' /\ Ended' /\ Listed' /\ Spared'
      BY <2>1
      DEF Inv, Phase, Ended, Listed, Spared, Cleaning, Running, Exited,
          childVars, listVars, Endangered
    <2> QED BY <2>2, <2>3 DEF Inv
  <1> QED BY <1>1, <1>2, <1>3, <1>4 DEF Next

\* The inductive invariant of a run, and with it the types of its variables:
\* every step of Runner, of the monitor, of cleanup and of osbuild keeps it.
THEOREM RunInv == Spec => []Inv
  BY InitInv, StepInv, PTL DEF Spec

\* Runner and the with-blocks: status 0 tells that osbuild succeeded, that the
\* output is in its place and the user's, and that the directory is gone.
THEOREM StatusIsHonest == Spec => []SuccessIsHonest
  <1>1. Inv => SuccessIsHonest
    BY DEF Inv, Ended, Cleaning, SuccessIsHonest
  <1> QED BY <1>1, RunInv, PTL

\* _unmount_subdirs: however file systems are mounted below one another, one
\* that umount leaves mounted endangers itself and what it lies below, and no
\* other loses a file, unless osbuild runs on after Ctrl-C.
THEOREM DataIsSpared == Spec => []MountsSpared
  <1>1. Inv => MountsSpared
    BY DEF Inv, Spared, Endangered, MountsSpared
  <1> QED BY <1>1, RunInv, PTL

\* Popen's with-block: but for Ctrl-C, osbuild has ended when cleanup begins.
THEOREM CleanupWaits == Spec => []CleanupAfterChild
  <1>1. Inv => CleanupAfterChild
    BY DEF Inv, Ended, Cleaning, CleanupAfterChild
  <1> QED BY <1>1, RunInv, PTL
==============================================================================
