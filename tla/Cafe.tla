-------------------------------- MODULE Cafe --------------------------------
(***************************************************************************)
(* The cafe simulation of concurrency/1.c.  Customers and baristas are     *)
(* threads in a ring of semaphores: each waits for its predecessor, does   *)
(* its part of the current tick under sem_lock, and posts its own          *)
(* semaphore; customer 0 closes the round and advances the clock.  A       *)
(* thread stops when it sees, without a lock, that all orders are settled. *)
(***************************************************************************)
EXTENDS Integers, FiniteSets, FiniteSetsExt

CONSTANTS N,           \* customers
          Baristas,    \* inputs: values of B, and of the times of a customer;
          Arrivals, Tolerances, Times  \* the times to make are positive

ASSUME CafeAssumption ==
  /\ N \in Nat \ {0} /\ Baristas \subseteq Nat \ {0} /\ IsFiniteSet(Baristas) /\ Baristas # {}
  /\ Arrivals \subseteq Nat /\ Tolerances \subseteq Nat /\ Times \subseteq Nat \ {0}

VARIABLES
  B,          \* the number of baristas
  input,      \* what main has read about each customer
  ticks, counter, thread_closed,
  order,      \* orders[i] is that of customer i
  making,     \* barista->order; NoOrder when is_free
  wasted,     \* barista->coffee_wasted
  sem, pc, tmp, over

Customer == 0 .. N - 1
Barista == 0 .. B - 1
Thread == 0 .. N + B - 1      \* customers, then baristas
Prev(t) == (t - 1) % (N + B)  \* the thread whose semaphore t waits for
Nobody == -1
NoOrder == -1

shop == <<ticks, counter, order, making, wasted>>
vars == <<B, input, shop, thread_closed, sem, pc, tmp, over>>

Init ==
  /\ B \in Baristas
  /\ input \in [Customer -> [arrival : Arrivals, tolerance : Tolerances, make : Times]]
  /\ ticks = 0 /\ counter = 0 /\ thread_closed = 0
  /\ order = [i \in Customer |->
       [barista |-> Nobody, taken |-> -1, completed |-> FALSE, present |-> TRUE, given |-> FALSE,
        considered |-> TRUE, printed |-> FALSE, departure |-> input[i].arrival + input[i].tolerance]]
  /\ making = [b \in Barista |-> NoOrder]
  /\ wasted = [b \in Barista |-> 0]
  /\ sem = [t \in Thread |-> IF t = 0 THEN 1 ELSE 0]
  /\ pc = [t \in Thread |-> "test"]
  /\ tmp = [t \in Thread |-> 0]
  /\ over = FALSE

Goto(t, l) == pc' = [pc EXCEPT ![t] = l]
-----------------------------------------------------------------------------
(***************************************************************************)
(* The part of a tick that a barista does                                  *)
(***************************************************************************)
Waiting(i) == order[i].considered /\ order[i].barista = Nobody

CanTake(i) == Waiting(i) /\ ticks >= input[i].arrival + 1

NextOrder(S) == Min(S)

Take(b) ==
  LET i == NextOrder({j \in Customer : CanTake(j)})
  IN /\ order' = [order EXCEPT ![i].barista = b, ![i].taken = ticks]
     /\ making' = [making EXCEPT ![b] = i]
     /\ UNCHANGED <<counter, wasted>>

Finish(b) ==
  LET i == making[b]
  IN /\ order' = [order EXCEPT ![i].completed = TRUE, ![i].given = @ \/ order[i].present,
                               ![i].present = FALSE, ![i].considered = FALSE]
     /\ wasted' = [wasted EXCEPT ![b] = IF order[i].present THEN @ ELSE @ + 1]
     /\ counter' = counter + 1
     /\ making' = [making EXCEPT ![b] = NoOrder]

Ready(b) == ticks - order[making[b]].taken = input[making[b]].make

barista_func(b) ==
  /\ UNCHANGED ticks
  /\ IF making[b] = NoOrder
     THEN IF \E i \in Customer : CanTake(i) THEN Take(b)
          ELSE UNCHANGED <<counter, order, making, wasted>>
     ELSE IF Ready(b) THEN Finish(b) ELSE UNCHANGED <<counter, order, making, wasted>>
-----------------------------------------------------------------------------
(***************************************************************************)
(* The part of a customer                                                  *)
(***************************************************************************)
\* Variant: a customer leaves a tick earlier.
Patient_Shorter(i) == ticks # input[i].arrival + input[i].tolerance

Patient(i) == ticks # input[i].arrival + input[i].tolerance + 1

\* Variant: the order of a customer who leaves is always settled.
LeaveUnserved_Always(i) ==
  /\ order' = [order EXCEPT ![i].present = FALSE, ![i].departure = ticks, ![i].considered = FALSE]
  /\ counter' = counter + 1

\* The customer gives up; the order is settled unless a barista is at it.
LeaveUnserved(i) ==
  /\ order' = [order EXCEPT ![i].present = FALSE, ![i].departure = ticks,
                            ![i].considered = @ /\ order[i].barista # Nobody]
  /\ counter' = IF order[i].barista = Nobody THEN counter + 1 ELSE counter

Receive(i) ==
  /\ order' = [order EXCEPT ![i].printed = TRUE, ![i].departure = order[i].taken + input[i].make,
                            ![i].present = @ /\ Patient(i)]
  /\ UNCHANGED counter

customer_func(i) ==
  /\ IF ~Patient(i) /\ ~order[i].completed
     THEN LeaveUnserved(i)
     ELSE IF order[i].given /\ ~order[i].printed
     THEN Receive(i)
     ELSE order' = [order EXCEPT ![i].present = @ /\ Patient(i)] /\ UNCHANGED counter
  /\ ticks' = IF i = 0 THEN ticks + 1 ELSE ticks
  /\ UNCHANGED <<making, wasted>>
-----------------------------------------------------------------------------
(***************************************************************************)
(* The loop of a thread                                                    *)
(***************************************************************************)
\* Variant: the last order is not waited for.
Test_OffByOne(t) ==
  /\ pc[t] = "test"
  /\ Goto(t, IF counter >= N - 1 THEN "close" ELSE "wait")
  /\ UNCHANGED <<B, input, shop, thread_closed, sem, tmp, over>>

\* The test at the head of the loop, outside of sem_lock.
Test(t) ==
  /\ pc[t] = "test"
  /\ Goto(t, IF counter = N THEN "close" ELSE "wait")
  /\ UNCHANGED <<B, input, shop, thread_closed, sem, tmp, over>>

Wait(t) ==
  /\ pc[t] = "wait" /\ sem[Prev(t)] > 0
  /\ sem' = [sem EXCEPT ![Prev(t)] = @ - 1]
  /\ Goto(t, "body")
  /\ UNCHANGED <<B, input, shop, thread_closed, tmp, over>>

\* The section under sem_lock.
Body(t) ==
  /\ pc[t] = "body"
  /\ IF t < N THEN customer_func(t) ELSE barista_func(t - N)
  /\ Goto(t, "post")
  /\ UNCHANGED <<B, input, thread_closed, sem, tmp, over>>

Post(t) ==
  /\ pc[t] = "post"
  /\ sem' = [sem EXCEPT ![t] = @ + 1]
  /\ Goto(t, "test")
  /\ UNCHANGED <<B, input, shop, thread_closed, tmp, over>>

\* thread_closed++ is a load and a store.
Load(t) ==
  /\ pc[t] = "close"
  /\ tmp' = [tmp EXCEPT ![t] = thread_closed]
  /\ Goto(t, "store")
  /\ UNCHANGED <<B, input, shop, thread_closed, sem, over>>

Store(t) ==
  /\ pc[t] = "store"
  /\ thread_closed' = tmp[t] + 1
  /\ Goto(t, "done")
  /\ UNCHANGED <<B, input, shop, sem, tmp, over>>

\* The loop of main: it spins until all is done.
MainEnds ==
  /\ ~over /\ thread_closed = B + N /\ counter = N
  /\ over' = TRUE
  /\ UNCHANGED <<B, input, shop, thread_closed, sem, pc, tmp>>

MainSpins == UNCHANGED vars
-----------------------------------------------------------------------------
Step(t) == Test(t) \/ Wait(t) \/ Body(t) \/ Post(t) \/ Load(t) \/ Store(t)
Next == MainEnds \/ MainSpins \/ \E t \in Thread : Step(t)

AnyThread == 0 .. N + Max(Baristas) - 1
Spec == Init /\ [][Next]_vars

\* The operating system runs every thread.
FairSpec == Spec /\ WF_vars(MainEnds) /\ \A t \in AnyThread : WF_vars(t \in Thread /\ Step(t))
-----------------------------------------------------------------------------
\* is_to_be_considered_counter counts the settled orders, whoever settles them,
\* and each coffee that was made was either given away or counted as wasted.
EachOrderSettledOnce ==
  /\ counter = Cardinality({i \in Customer : ~order[i].considered})
  /\ \A b \in Barista : wasted[b] = Cardinality({i \in Customer :
       order[i].barista = b /\ order[i].completed /\ ~order[i].given})
  /\ \A i \in Customer : ~order[i].considered => order[i].completed \/ order[i].barista = Nobody

NoWaste == \A b \in Barista : wasted[b] = 0

\* What README.md says of so many baristas that one is always free: "Assuming that all
\* customers are having tolerance time >= time to prepare the coffee, the coffee wastage
\* would be 0."
NoWasteIfTolerant ==
  B >= N /\ (\A i \in Customer : input[i].tolerance >= input[i].make) => NoWaste

\* What the code guarantees instead: ordering takes a tick, and in the tick of a
\* customer's departure the customer acts before the baristas, so no coffee is wasted
\* when the tolerance exceeds the time to prepare it.
NoWasteWithSlack ==
  B >= N /\ (\A i \in Customer : input[i].tolerance > input[i].make) => NoWaste

\* Every order is settled in the end.
AllSettled == <>(counter = N)
=============================================================================
