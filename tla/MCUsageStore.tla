-------------------------- MODULE MCUsageStore --------------------------
(* UsageStore for TLC; the names of configs are interchangeable. *)
EXTENDS UsageStore, TLC

Symmetry == Permutations(Name)
=============================================================================
