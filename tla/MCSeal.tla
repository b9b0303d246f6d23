------------------------------- MODULE MCSeal -------------------------------
(***************************************************************************)
(* SealWorkflow on a small instance, and the properties it is checked for. *)
(***************************************************************************)
EXTENDS SealWorkflow, TLC

CONSTANTS n1, n2, d1, k1

J(cmd, src, dst, k, oci) ==
  [cmd |-> cmd, src |-> src, dst |-> dst, key |-> k, oci |-> oci, dir |-> d1]

\* Commands run side by side: the documented two-phase sequence n1 -> n2 ->
\* archive n2 with key k1, and the one-step reseal of n1 into n2.
MCJobs ==
  {J("prepare-reseal", n1, n2, k1, FALSE),
   J("extract-for-signing", n2, n2, NoKey, FALSE),
   J("inject-signed", n2, n2, k1, TRUE),
   J("reseal", n1, n2, NoKey, FALSE)}

\* The other forms of the commands, run one after the other while the images they
\* read are replaced.
MCOtherJobs ==
  {J("prepare-reseal", n1, n2, k1, FALSE),
   J("extract-for-signing", n2, n2, NoKey, FALSE),
   J("inject-signed", n1, n2, NoKey, FALSE),
   J("inject-signed", n2, n2, k1, FALSE),
   J("reseal", n2, n2, k1, FALSE),
   J("reseal", n1, n2, NoKey, TRUE)}

MCSymmetry == Permutations(Proc)
=============================================================================
