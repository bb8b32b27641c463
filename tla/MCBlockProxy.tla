---------------------------- MODULE MCBlockProxy ----------------------------
(* Small instances of BlockProxy for TLC. *)
EXTENDS BlockProxy, TLC

Symmetry == Permutations(Requests)
=============================================================================
