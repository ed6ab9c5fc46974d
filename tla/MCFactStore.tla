---------------------------- MODULE MCFactStore ----------------------------
(* Small instances of FactStore for TLC. *)
EXTENDS FactStore, TLC

FactSymmetry == Permutations(Facts)
=============================================================================
