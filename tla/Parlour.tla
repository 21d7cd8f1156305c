------------------------------ MODULE Parlour ------------------------------
(***************************************************************************)
(* The ice cream parlour of concurrency/2.c.  Customers and machines are   *)
(* threads in a ring of semaphores: each waits for its predecessor, does   *)
(* its part of the current tick under mutex and posts its own semaphore;   *)
(* customer 0 closes the round and advances the clock.  A thread stops     *)
(* when it sees, without a lock, that the day is over.                     *)
(***************************************************************************)
EXTENDS Integers, Sequences, FiniteSets, FiniteSetsExt, SequencesExt

CONSTANTS N, C, T,   \* machines, customers and kinds of toppings
          Seats,     \* inputs: values of K,
          Windows,   \* working times [start, end] of the machines,
          Stocks,    \* quantities of the toppings; -1 is unlimited,
          Arrivals,  \* arrival times,
          Menus,     \* orders of a customer: sequences of [make, tops]
          Horizon    \* a tick after all that the inputs mention

Unlimited == -1

\* Machine m also writes row m + 1 of machine_reject_which_order, so fewer machines than
\* MAX_ICECREAM_MACHINES rows.  Every flavour takes some time.
ASSUME ParlourAssumption ==
  /\ N \in 1 .. 9 /\ C \in Nat \ {0} /\ T \in Nat /\ Seats \subseteq Nat
  /\ Stocks \subseteq [1 .. T -> Nat \cup {Unlimited}] /\ Horizon \in Nat
  /\ \A w \in Windows : \A m \in 1 .. N : w[m].start \in Nat /\ w[m].end \in 0 .. Horizon - 1
  /\ Arrivals \subseteq 0 .. Horizon - 1
  /\ \A m \in Menus : m # <<>> /\ \A i \in 1 .. Len(m) :
       m[i].make \in Nat \ {0} /\ \A j \in 1 .. Len(m[i].tops) : m[i].tops[j] \in 1 .. T

VARIABLES
  K, window, arrival, menu, stock0,   \* what main has read
  ticks, toppings, sitting, orders_considered, machines_stopped, super,
  order,          \* orders[]
  rejects,        \* machine_reject_which_order
  left,           \* customer->leaves
  making,         \* icecream_machine->order while is_busy
  sem, pc, tmp, threads_closed, over

Customer == 0 .. C - 1
Machine == 1 .. N
Topping == 1 .. T
Thread == 0 .. C + N - 1      \* customers, then machines
Prev(t) == (t - 1) % (C + N)  \* the thread whose semaphore t waits for
Order == DOMAIN menu
Idle == 0

read == <<K, window, arrival, menu, stock0>>
shop == <<ticks, toppings, sitting, orders_considered, machines_stopped, super, order, rejects, left, making>>
vars == <<read, shop, sem, pc, tmp, threads_closed, over>>

\* main reads the customers one by one; the toppings of an ice cream are sorted.
Numbered(m) == FlattenSeq([c \in 1 .. C |-> [i \in 1 .. Len(m[c]) |->
  [owner |-> c - 1, make |-> m[c][i].make, tops |-> SortSeq(m[c][i].tops, <)]]])

Input ==
  /\ K \in Seats
  /\ window \in Windows
  /\ stock0 \in Stocks
  /\ arrival \in [Customer -> Arrivals]
  /\ \E m \in [1 .. C -> Menus] : menu = Numbered(m)

Init ==
  /\ Input
  /\ ticks = 0 /\ sitting = 0 /\ orders_considered = 0 /\ machines_stopped = 0 /\ super = FALSE
  /\ toppings = stock0
  /\ order = [o \in Order |-> [considered |-> TRUE, placed |-> -1, machine |-> Idle, start |-> -1,
                completed |-> FALSE, rejected |-> FALSE, short |-> FALSE, refused |-> 0]]
  /\ rejects = [m \in 1 .. N + 1 |-> {}]
  /\ left = [c \in Customer |-> FALSE]
  /\ making = [m \in Machine |-> Idle]
  /\ sem = [t \in Thread |-> IF t = 0 THEN 1 ELSE 0]
  /\ pc = [t \in Thread |-> "test"]
  /\ tmp = [t \in Thread |-> 0]
  /\ threads_closed = 0 /\ over = FALSE

Goto(t, l) == pc' = [pc EXCEPT ![t] = l]
Count(s, x) == Cardinality({j \in DOMAIN s : s[j] = x})
-----------------------------------------------------------------------------
(***************************************************************************)
(* The part of a machine                                                   *)
(***************************************************************************)
\* Variant: an order may end in the tick in which the machine stops.
TooLong_Late(m, o) == ticks + menu[o].make > window[m].end

TooLong(m, o) == ticks + menu[o].make >= window[m].end

\* Variant: the stock is not looked at again when the preparation starts.
Enough_Unchecked(o) == TRUE

\* The check at preparation counts the first T toppings of the ice cream.
Enough(o) ==
  LET counted == SubSeq(menu[o].tops, 1, Min({T, Len(menu[o].tops)}))
  IN \A x \in Topping : toppings[x] = Unlimited \/ toppings[x] >= Count(counted, x)

\* All the toppings are taken off one by one, as long as the quantity is not -1.
Deducted(q, k) == Max({q - k, Unlimited})

Pending == {o \in Order : order[o].considered /\ order[o].machine = Idle /\ order[o].placed # -1}

\* The loop over the orders stops at the first order that the machine takes.
\* Refusals for time are counted once per machine; the row that remembers a
\* refusal for a shortage is that of the next machine.
LookForOrder(m) ==
  LET fits     == {o \in Pending : ~TooLong(m, o)}
      takes    == {o \in fits : Enough(o)}
      visited  == {o \in Pending : takes = {} \/ o <= Min(takes)}
      late     == {o \in visited \ rejects[m] : TooLong(m, o)}
      nobody   == {o \in visited : TooLong(m, o) /\
                     order[o].refused + (IF o \in late THEN 1 ELSE 0) = N}
      shortage == {o \in (visited \cap fits) \ rejects[m + 1] : ~Enough(o)}
      taken    == visited \cap takes
  IN /\ order' = [o \in Order |-> [order[o] EXCEPT
          !.refused    = IF o \in late THEN @ + 1 ELSE @,
          !.short      = @ \/ o \in shortage,
          !.rejected   = @ \/ o \in nobody \cup shortage,
          !.considered = @ /\ o \notin nobody \cup shortage,
          !.machine    = IF o \in taken THEN m ELSE @,
          !.start      = IF o \in taken THEN ticks ELSE @]]
     /\ rejects' = [rejects EXCEPT ![m] = @ \cup late, ![m + 1] = @ \cup shortage]
     /\ orders_considered' = orders_considered + Cardinality(nobody \cup shortage)
     /\ making' = IF taken = {} THEN making ELSE [making EXCEPT ![m] = Min(taken)]
     /\ toppings' = IF taken = {} THEN toppings ELSE
          [x \in Topping |-> Deducted(toppings[x], Count(menu[Min(taken)].tops, x))]

\* The order is complete when exactly its time has passed.
Finish(m) ==
  LET o == making[m]
  IN /\ IF order[o].start + menu[o].make = ticks
        THEN /\ order' = [order EXCEPT ![o].completed = TRUE, ![o].considered = FALSE]
             /\ orders_considered' = orders_considered + 1
             /\ making' = [making EXCEPT ![m] = Idle]
        ELSE UNCHANGED <<order, orders_considered, making>>
     /\ UNCHANGED <<rejects, toppings>>

icecream_machine_func(m) ==
  /\ IF window[m].start <= ticks /\ window[m].end > ticks
     THEN IF making[m] = Idle THEN LookForOrder(m) ELSE Finish(m)
     ELSE UNCHANGED <<order, rejects, orders_considered, making, toppings>>
  /\ machines_stopped' = machines_stopped + (IF window[m].end = ticks THEN 1 ELSE 0)
  /\ UNCHANGED <<ticks, sitting, left, super>>
-----------------------------------------------------------------------------
(***************************************************************************)
(* The part of a customer                                                  *)
(***************************************************************************)
Own(c) == {o \in Order : menu[o].owner = c}
Possible(c) == \A x \in Topping : toppings[x] = Unlimited
                 \/ toppings[x] >= MapThenSumSet(LAMBDA o : Count(menu[o].tops, x), Own(c))

\* No seat, or a shortage at placement: the orders are rejected and counted.
TurnedAway(c) ==
  /\ order' = [o \in Order |-> IF o \in Own(c)
                 THEN [order[o] EXCEPT !.rejected = TRUE, !.considered = FALSE] ELSE order[o]]
  /\ orders_considered' = orders_considered + Cardinality(Own(c))
  /\ left' = [left EXCEPT ![c] = TRUE]
  /\ UNCHANGED sitting

Arrive(c) ==
  IF sitting = K \/ ~Possible(c)
  THEN TurnedAway(c)
  ELSE /\ order' = [o \in Order |-> IF o \in Own(c) THEN [order[o] EXCEPT !.placed = ticks] ELSE order[o]]
       /\ sitting' = sitting + 1
       /\ UNCHANGED <<orders_considered, left>>

\* Variant: the seat stays taken.
GiveUp_KeepsSeat(c) ==
  /\ order' = [o \in Order |-> IF o \in Own(c)
       THEN [order[o] EXCEPT !.rejected = TRUE, !.considered = FALSE] ELSE order[o]]
  /\ left' = [left EXCEPT ![c] = TRUE]
  /\ UNCHANGED <<orders_considered, sitting>>

\* One refused order makes the customer leave; the other orders are withdrawn
\* and not counted, also the one that a machine is at.
GiveUp(c) ==
  LET noService == \E o \in Own(c) : order[o].refused = N
  IN /\ order' = [o \in Order |-> IF o \in Own(c)
          THEN [order[o] EXCEPT !.rejected = TRUE, !.considered = FALSE,
                                !.refused = IF noService THEN N ELSE @, !.short = @ \/ ~noService]
          ELSE order[o]]
     /\ left' = [left EXCEPT ![c] = TRUE]
     /\ sitting' = sitting - 1
     /\ UNCHANGED orders_considered

LeaveServed(c) ==
  /\ left' = [left EXCEPT ![c] = TRUE]
  /\ sitting' = sitting - 1
  /\ UNCHANGED <<order, orders_considered>>

Refused(c) == \E o \in Own(c) : order[o].short \/ order[o].refused = N

customer_func(c) ==
  /\ IF arrival[c] = ticks THEN Arrive(c)
     ELSE IF arrival[c] < ticks /\ ~left[c] /\ Refused(c) THEN GiveUp(c)
     ELSE IF ~left[c] /\ \A o \in Own(c) : order[o].completed THEN LeaveServed(c)
     ELSE UNCHANGED <<order, orders_considered, left, sitting>>
  /\ IF c = 0
     THEN /\ ticks' = Min({ticks + 1, Horizon})
          /\ super' = (super \/ \A x \in Topping : toppings[x] \in {Unlimited, 0})
     ELSE UNCHANGED <<ticks, super>>
  /\ UNCHANGED <<toppings, machines_stopped, rejects, making>>
-----------------------------------------------------------------------------
(***************************************************************************)
(* The loop of a thread                                                    *)
(***************************************************************************)
\* Variant: the machines need not have stopped.
DayOver_Early == orders_considered = Cardinality(Order) \/ super

DayOver == (orders_considered = Cardinality(Order) /\ machines_stopped = N) \/ super

\* The test at the head of the loop, outside of mutex.
Test(t) ==
  /\ pc[t] = "test"
  /\ Goto(t, IF DayOver THEN "close" ELSE "wait")
  /\ UNCHANGED <<read, shop, sem, tmp, threads_closed>>

Wait(t) ==
  /\ pc[t] = "wait" /\ sem[Prev(t)] > 0
  /\ sem' = [sem EXCEPT ![Prev(t)] = @ - 1]
  /\ Goto(t, "body")
  /\ UNCHANGED <<read, shop, tmp, threads_closed>>

\* The section under mutex.
Body(t) ==
  /\ pc[t] = "body"
  /\ IF t < C THEN customer_func(t) ELSE icecream_machine_func(t - C + 1)
  /\ Goto(t, "post")
  /\ UNCHANGED <<read, sem, tmp, threads_closed>>

Post(t) ==
  /\ pc[t] = "post"
  /\ sem' = [sem EXCEPT ![t] = @ + 1]
  /\ Goto(t, "test")
  /\ UNCHANGED <<read, shop, tmp, threads_closed>>

\* threads_closed++ is a load and a store.
Load(t) ==
  /\ pc[t] = "close"
  /\ tmp' = [tmp EXCEPT ![t] = threads_closed]
  /\ Goto(t, "store")
  /\ UNCHANGED <<read, shop, sem, threads_closed>>

Store(t) ==
  /\ pc[t] = "store"
  /\ threads_closed' = tmp[t] + 1
  /\ Goto(t, "done")
  /\ UNCHANGED <<read, shop, sem, tmp>>

\* The loop of main: it spins until all is done; its return ends the threads.
MainEnds ==
  /\ ~over
  /\ (threads_closed = N + C /\ orders_considered = Cardinality(Order)) \/ super
  /\ over' = TRUE
  /\ UNCHANGED <<read, shop, sem, pc, tmp, threads_closed>>

MainSpins == UNCHANGED vars
-----------------------------------------------------------------------------
Step(t) == /\ ~over
           /\ Test(t) \/ Wait(t) \/ Body(t) \/ Post(t) \/ Load(t) \/ Store(t)
           /\ UNCHANGED over

Next == MainEnds \/ MainSpins \/ \E t \in Thread : Step(t)

Spec == Init /\ [][Next]_vars
-----------------------------------------------------------------------------
\* customers_sitting_in_parlour counts the customers who have placed orders and
\* have not left, on each of the ways out, and is never more than K.
SeatsExact ==
  /\ sitting = Cardinality({c \in Customer : ~left[c] /\ \E o \in Own(c) : order[o].placed # -1})
  /\ sitting <= K

Taken == {o \in Order : order[o].machine # Idle}
Used(x) == MapThenSumSet(LAMBDA o : Count(menu[o].tops, x), Taken)

\* An ice cream with more than T toppings, x among those that the check at preparation
\* does not count.
Uncounted(o, x) == \E j \in T + 1 .. Len(menu[o].tops) : menu[o].tops[j] = x

\* Every topping that is gone is in an order that a machine has taken, and no more is
\* used than there was.  The exception are ice creams with more than T toppings, which
\* are checked for the first T and deducted in full: then the quantity may reach -1,
\* which makes the topping an unlimited one, and it stays there.
StockExact ==
  \A x \in Topping : IF stock0[x] = Unlimited THEN toppings[x] = Unlimited
    ELSE /\ toppings[x] = Max({stock0[x] - Used(x), Unlimited})
         /\ Used(x) <= stock0[x] \/ \E o \in Taken : Uncounted(o, x)

\* When the threads stop because orders_considered has reached total_orders, every
\* customer has left and every order is completed or rejected.
NobodyForgotten ==
  (\E t \in Thread : pc[t] \in {"close", "store", "done"}) /\ ~super =>
    /\ \A c \in Customer : left[c]
    /\ \A o \in Order : order[o].completed \/ order[o].rejected

\* A machine that has reached its end time is not in the middle of an order: it
\* gets one turn in each tick, so that time_to_finish == ticks is never missed.
IdleAtEnd ==
  \A m \in Machine : making[m] # Idle =>
    /\ order[making[m]].machine = m /\ ~order[making[m]].completed
    /\ ticks < window[m].end
    /\ ticks <= order[making[m]].start + menu[making[m]].make
=============================================================================
