---------------------------- MODULE MCLocalCache ----------------------------
(* The lock with the constants of MCLocalCache.cfg: three requests, a lease *)
(* of three ticks, a poll every second tick, three tries.                   *)
EXTENDS LocalCache
=============================================================================
