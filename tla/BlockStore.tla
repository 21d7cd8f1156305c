----------------------------- MODULE BlockStore -----------------------------
(***************************************************************************)
(* What the buffer cache promises: every block has one current content, a  *)
(* thread that has a block has it alone, and only that thread changes it.  *)
(***************************************************************************)
CONSTANTS Thread, Block, Val, NoBlock

VARIABLES current,  \* the content of each block
          has       \* the block that a thread has locked and may use

vars == <<current, has>>

Init == current \in [Block -> Val] /\ has = [t \in Thread |-> NoBlock]

Get(t, k) ==
  /\ has[t] = NoBlock /\ \A u \in Thread : has[u] # k
  /\ has' = [has EXCEPT ![t] = k]
  /\ UNCHANGED current

Change(t, v) ==
  /\ has[t] # NoBlock
  /\ current' = [current EXCEPT ![has[t]] = v]
  /\ UNCHANGED has

Put(t) ==
  /\ has[t] # NoBlock
  /\ has' = [has EXCEPT ![t] = NoBlock]
  /\ UNCHANGED current

Next == \E t \in Thread : (\E k \in Block : Get(t, k)) \/ (\E v \in Val : Change(t, v)) \/ Put(t)

Spec == Init /\ [][Next]_vars
=============================================================================
