------------------------------- MODULE MCCafe -------------------------------
(* Instances of Cafe for TLC. *)
EXTENDS Cafe
=============================================================================
