----------------------------- MODULE MCKeyMint -----------------------------
(* KeyMint for TLC. *)
EXTENDS KeyMint, TLC

MintSymmetry == Permutations(Mints)
=============================================================================
