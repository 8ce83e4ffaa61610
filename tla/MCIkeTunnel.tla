----------------------------- MODULE MCIkeTunnel -----------------------------
(* Instances of IkeTunnel for TLC. *)
EXTENDS IkeTunnel
=============================================================================
