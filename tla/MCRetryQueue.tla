---------------------------- MODULE MCRetryQueue ----------------------------
(* RetryQueue for TLC. *)
EXTENDS RetryQueue, TLC

FlusherSymmetry == Permutations(Writes) \cup Permutations(Flushers)
=============================================================================
