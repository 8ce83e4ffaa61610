----------------------------- MODULE MCSaManager -----------------------------
(* Instances of SaManager for TLC. *)
EXTENDS SaManager
=============================================================================
