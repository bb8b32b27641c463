---------------------------- MODULE MCMergeLock ----------------------------
(* MergeLock for TLC: callers are model values, mutexes numbers. *)
EXTENDS MergeLock
=============================================================================
