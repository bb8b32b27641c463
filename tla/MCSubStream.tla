---------------------------- MODULE MCSubStream ----------------------------
(* Small instances of SubStream for TLC. *)
EXTENDS SubStream, TLC

Symmetry == Permutations(Callers)
=============================================================================
