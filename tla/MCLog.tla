------------------------------- MODULE MCLog -------------------------------
(* The instance of Log for TLC. *)
EXTENDS Log
=============================================================================
