----------------------------- MODULE MCConsole ------------------------------
(* Instances of Console for TLC. *)
EXTENDS Console

\* More keys than the indices of the input ring can tell apart, or more output than
\* its ring holds while a line is typed.
MCLoads == {[text |-> [p \in Writer |-> <<>>], keys |-> 5],
            [text |-> [p \in Writer |-> <<"x", "y", "x", "y">>], keys |-> 2]}
MCRequests == {[n |-> 2, m |-> 2], [n |-> 1, m |-> 0]}
=============================================================================
