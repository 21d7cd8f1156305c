----------------------------- MODULE AtomicDisk -----------------------------
(***************************************************************************)
(* What the log promises to the file system: operations write blocks, and  *)
(* a crash takes the disk back to a moment at which no operation was in    *)
(* progress, so that the writes of an operation survive together or not at *)
(* all.                                                                    *)
(***************************************************************************)
EXTENDS Naturals

CONSTANTS Block, Val

VARIABLES view,    \* what readers of blocks see
          stable,  \* what a crash at this moment would leave
          open     \* number of operations in progress

vars == <<view, stable, open>>

Init == view \in [Block -> Val] /\ stable = view /\ open = 0

Begin == open' = open + 1 /\ UNCHANGED <<view, stable>>

Write == /\ open > 0
         /\ \E b \in Block, v \in Val : view' = [view EXCEPT ![b] = v]
         /\ UNCHANGED <<stable, open>>

End == open > 0 /\ open' = open - 1 /\ UNCHANGED <<view, stable>>

Commit == open = 0 /\ stable' = view /\ UNCHANGED <<view, open>>

Crash == view' = stable /\ open' = 0 /\ UNCHANGED stable

Next == Begin \/ Write \/ End \/ Commit \/ Crash

Spec == Init /\ [][Next]_vars
=============================================================================
