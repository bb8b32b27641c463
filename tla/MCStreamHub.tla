---------------------------- MODULE MCStreamHub ----------------------------
(* Small instances of StreamHub for TLC. *)
EXTENDS StreamHub, TLC

Symmetry ==
    Permutations(Slots) \cup Permutations(Callers) \cup Permutations(Producers)
        \cup Permutations(VideoIds)
=============================================================================
