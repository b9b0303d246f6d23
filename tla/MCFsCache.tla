----------------------------- MODULE MCFsCache -----------------------------
(***************************************************************************)
(* FsCache with two processes.                                             *)
(***************************************************************************)
EXTENDS FsCache, TLC

MCSymmetry == Permutations(Proc) \cup Permutations(Name) \cup Permutations(Obj)
=============================================================================
