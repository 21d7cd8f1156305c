----------------------------- MODULE ByteStream -----------------------------
(***************************************************************************)
(* What a pipe promises about bytes: a bounded first-in first-out queue.   *)
(***************************************************************************)
EXTENDS Naturals, Sequences

CONSTANTS Byte, Capacity

VARIABLE queue

Init == queue = <<>>
Put == \E b \in Byte : Len(queue) < Capacity /\ queue' = Append(queue, b)
Get == queue # <<>> /\ queue' = Tail(queue)

Spec == Init /\ [][Put \/ Get]_queue
=============================================================================
