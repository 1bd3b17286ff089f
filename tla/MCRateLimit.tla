---------------------------- MODULE MCRateLimit ----------------------------
(* RateLimit for TLC. *)
EXTENDS RateLimit, TLC

Symmetric == Permutations(Req) \cup Permutations(Keys)
============================================================================
