---------------------------- MODULE MCGRoute ----------------------------
(* Symmetry for the safety runs of GRoute. *)
EXTENDS GRoute, TLC

Symmetry == Permutations(Fd) \cup Permutations(Inst) \cup Permutations(Job)
            \cup Permutations(Switcher)
=============================================================================
