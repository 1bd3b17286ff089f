--------------------------- MODULE MCIdempotency ---------------------------
(* Instances of Idempotency for TLC. *)
EXTENDS Idempotency, TLC

\* Requests are interchangeable: Init gives them every key and payload.
ReqSymmetry == Permutations(Req)
============================================================================
