------------------------------- MODULE MCIpsec -------------------------------
(* Instances of Ipsec for TLC. *)
EXTENDS Ipsec
=============================================================================
