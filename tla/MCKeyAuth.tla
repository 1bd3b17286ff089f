----------------------------- MODULE MCKeyAuth -----------------------------
(* KeyAuth for TLC. *)
EXTENDS KeyAuth, TLC

CONSTANTS k1, k2, t1, t2

\* One good token of the first key; the minted keys are not used.
OneToken == t1 :> k1
\* And one with a wrong secret, of a key that may not exist.
WrongToken == t1 :> k1 @@ t2 :> k2

ReqSymmetry == Permutations(Req)
============================================================================
