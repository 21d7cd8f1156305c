------------------------------ MODULE Terminal ------------------------------
(***************************************************************************)
(* What the console promises: typed characters are edited in a line, which *)
(* becomes ready as a whole; reads take what is ready from the front; what *)
(* is written comes out in the order in which it was accepted.             *)
(***************************************************************************)
EXTENDS Sequences, Naturals

CONSTANTS Reader, Size, Plain, NewLine, CtrlD, Chars

VARIABLES ready, line, got, out

vars == <<ready, line, got, out>>

Init == ready = <<>> /\ line = <<>> /\ got = [p \in Reader |-> <<>>] /\ out = <<>>

\* The line is ready at its end, or when there is no more room.
Key(c) ==
  /\ Len(ready) + Len(line) < Size
  /\ IF c \in {NewLine, CtrlD} \/ Len(ready) + Len(line) + 1 = Size
     THEN ready' = ready \o Append(line, c) /\ line' = <<>>
     ELSE line' = Append(line, c) /\ UNCHANGED ready
  /\ UNCHANGED <<got, out>>

Rub ==
  /\ line # <<>>
  /\ line' = SubSeq(line, 1, Len(line) - 1)
  /\ UNCHANGED <<ready, got, out>>

\* A read takes characters up to the end of a line.  The end of a file is taken
\* only by a read that returns nothing else.
Get(p) ==
  \E j \in 0 .. Len(ready) :
    /\ \A i \in 1 .. j : \/ ready[i] \notin {NewLine, CtrlD}
                         \/ ready[i] = NewLine /\ i = j
                         \/ ready[i] = CtrlD /\ j = 1 /\ got[p] = <<>>
    /\ ready' = SubSeq(ready, j + 1, Len(ready))
    /\ \/ got' = [got EXCEPT ![p] = <<>>]
       \/ /\ \A i \in 1 .. j : ready[i] \notin {NewLine, CtrlD}
          /\ got' = [got EXCEPT ![p] = @ \o SubSeq(ready, 1, j)]
    /\ UNCHANGED <<line, out>>

Put(c) == out' = Append(out, c) /\ UNCHANGED <<ready, line, got>>
Show == out # <<>> /\ out' = Tail(out) /\ UNCHANGED <<ready, line, got>>

Next ==
  \/ \E c \in Plain : Key(c)
  \/ Rub
  \/ \E p \in Reader : Get(p)
  \/ \E c \in Chars : Put(c)
  \/ Show

Spec == Init /\ [][Next]_vars
=============================================================================
