---------------------------- MODULE CacheUpdates ----------------------------
(***************************************************************************)
(* What the updates of mpp/aibosbuild/util/fscache.py make of the file     *)
(* they lock and replace.                                                  *)
(***************************************************************************)
EXTENDS Integers

Unlimited == -1
TooBig    == -1  \* no size

\* Mutant: the counter may go below zero.
SizeAfterUncapped(size, c) ==
  IF c.max = Unlimited \/ size + c.diff <= c.max THEN size + c.diff ELSE TooBig

\* _update_cache_size: a shrinking cache is capped at 0, a growing one is
\* refused when it exceeds the maximum its process has read.
SizeAfter(size, c) ==
  CASE size + c.diff < 0 -> 0
    [] size + c.diff >= 0 /\ (c.max = Unlimited \/ size + c.diff <= c.max) ->
         size + c.diff
    [] OTHER -> TooBig
=============================================================================
