------------------------ MODULE MCTunnelService ------------------------
(* Symmetry for the safety runs of TunnelService. *)
EXTENDS TunnelService, TLC

Symmetry == Permutations(Fd) \cup Permutations(Inst) \cup Permutations(Job)
=============================================================================
