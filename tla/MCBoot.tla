------------------------------- MODULE MCBoot -------------------------------
(* Boot for TLC. *)
EXTENDS Boot, TLC

ProcSymmetry == Permutations(Proc)
============================================================================
