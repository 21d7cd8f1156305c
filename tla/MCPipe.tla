------------------------------- MODULE MCPipe -------------------------------
(* Instances of Pipe for TLC. *)
EXTENDS Pipe, TLC

CONSTANTS w1, w2

\* Six bytes in all, more than the counters can tell apart.
MCText == w1 :> <<1, 2, 3>> @@ w2 :> <<4, 5, 6>>
=============================================================================
