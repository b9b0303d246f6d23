----------------------------- MODULE MCOsbuildRun -----------------------------
(***************************************************************************)
(* Bounds: osbuild prints up to 3 lines into a pipe of 1; it mounts a      *)
(* store, a tree in it and a device file system in that tree, and one file *)
(* system aside of them.                                                   *)
(***************************************************************************)
EXTENDS OsbuildRun

MCMount == {"store", "tree", "dev", "other"}
MCBelow == {<<"tree", "store">>, <<"dev", "tree">>, <<"dev", "store">>}
===============================================================================
