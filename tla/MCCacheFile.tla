---------------------------- MODULE MCCacheFile ----------------------------
(***************************************************************************)
(* CacheFile for cache.size, updated by processes with two maximum sizes.  *)
(***************************************************************************)
EXTENDS CacheFile, CacheUpdates

MCValue == 0..2
MCCall  == {[diff |-> 1, max |-> 2], [diff |-> 1, max |-> 1],
            [diff |-> -2, max |-> 1]}
=============================================================================
