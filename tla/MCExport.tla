------------------------------ MODULE MCExport ------------------------------
(***************************************************************************)
(* DiskExport on a small instance: every file of seven units, and every    *)
(* partition of it that starts at one of two places.                       *)
(***************************************************************************)
EXTENDS DiskExport

MCInit == Init /\ start \in {0, 2}

MCSpec == MCInit /\ [][Next]_vars /\ WF_vars(Next)
=============================================================================
