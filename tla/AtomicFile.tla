----------------------------- MODULE AtomicFile -----------------------------
(***************************************************************************)
(* What cache.size and cache.info promise their users: every update is     *)
(* applied in one step to the latest content, or refused, or, when its     *)
(* process dies, applied whole or not at all.                              *)
(***************************************************************************)
CONSTANTS Proc, Call, NoCall, Initial, Refused,
          After(_, _)  \* the content an update leaves, or Refused

VARIABLES
  value,   \* the content of the file
  call,    \* the update each process is in
  answer   \* what its last update returned

fileVars == <<value, call, answer>>

Init ==
  /\ value = Initial
  /\ call = [p \in Proc |-> NoCall]
  /\ answer = [p \in Proc |-> "none"]

Ask(p, c) ==
  /\ call[p] = NoCall
  /\ call' = [call EXCEPT ![p] = c]
  /\ answer' = [answer EXCEPT ![p] = "none"]
  /\ UNCHANGED value

Apply(p) ==
  /\ call[p] # NoCall
  /\ \/ /\ After(value, call[p]) # Refused
        /\ value' = After(value, call[p])
        /\ answer' = [answer EXCEPT ![p] = "done"]
     \/ /\ After(value, call[p]) = Refused
        /\ UNCHANGED value
        /\ answer' = [answer EXCEPT ![p] = "refused"]
  /\ call' = [call EXCEPT ![p] = NoCall]

\* The process was killed before its update took effect.
Abandon(p) ==
  /\ call' = [call EXCEPT ![p] = NoCall]
  /\ UNCHANGED <<value, answer>>

Next == \E p \in Proc : Apply(p) \/ Abandon(p) \/ \E c \in Call : Ask(p, c)

Spec == Init /\ [][Next]_fileVars
=============================================================================
