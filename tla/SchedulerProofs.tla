-------------------------- MODULE SchedulerProofs --------------------------
(***************************************************************************)
(* Proofs that no kernel stack is ever used by two CPUs and that every     *)
(* scan picks the best of what it has seen, for any number of slots, CPUs  *)
(* and priorities.                                                         *)
(***************************************************************************)
EXTENDS Scheduler, TLAPS

\* The dynamic priority that dp_priority computes is an integer.
LEMMA DpInt ==
  ASSUME TypeOK, NEW p \in Proc
  PROVE  dp_priority(p) \in Int
<1>1. static[p] \in Int /\ rtime[p] \in Nat /\ wtime[p] \in Nat /\ stime[p] \in Nat
  BY DEF TypeOK
<1>2. PICK r, w, s, x : /\ r = rtime[p] /\ w = wtime[p] /\ s = stime[p] /\ x = static[p]
                        /\ r \in Nat /\ w \in Nat /\ s \in Nat /\ x \in Int
  BY <1>1
<1>3. (3 * r - w - s) * 50 \in Int /\ 1 + r + s + w \in Nat \ {0}
  BY <1>2
<1>4. ((3 * r - w - s) * 50) \div (1 + r + s + w) \in Int
  BY <1>3
<1>5. rbi(r, w, s) \in Int BY <1>4 DEF rbi, larger
<1>. QED BY <1>2, <1>5 DEF dp_priority, smaller

\* The priority of a process is at most 100, and not below its static one
\* unless that exceeds 100: waiting and sleeping never beat the static priority.
THEOREM DpBounds ==
  ASSUME TypeOK, NEW p \in Proc
  PROVE  /\ dp_priority(p) <= 100
         /\ static[p] <= 100 => static[p] <= dp_priority(p)
<1>1. static[p] \in Int /\ rtime[p] \in Nat /\ wtime[p] \in Nat /\ stime[p] \in Nat
  BY DEF TypeOK
<1>2. PICK r, w, s, x : /\ r = rtime[p] /\ w = wtime[p] /\ s = stime[p] /\ x = static[p]
                        /\ r \in Nat /\ w \in Nat /\ s \in Nat /\ x \in Int
  BY <1>1
<1>3. ((3 * r - w - s) * 50) \div (1 + r + s + w) \in Int
  <2>1. (3 * r - w - s) * 50 \in Int /\ 1 + r + s + w \in Nat \ {0} BY <1>2
  <2>. QED BY <2>1
<1>4. rbi(r, w, s) \in Int /\ rbi(r, w, s) >= 0 BY <1>3 DEF rbi, larger
<1>. QED BY <1>2, <1>4 DEF dp_priority, smaller

\* The priority of a process only depends on its own accounts.
LEMMA DpSame ==
  ASSUME NEW p, static'[p] = static[p], rtime'[p] = rtime[p],
         wtime'[p] = wtime[p], stime'[p] = stime[p]
  PROVE  dp_priority(p)' = dp_priority(p)
BY DEF dp_priority

\* Keys compare as the lexicographic order they are meant to be.
LEMMA BeforeTrans ==
  ASSUME TypeOK, NEW q \in Proc, NEW p \in Proc, NEW b \in Proc,
         Before(q, p),
         dp_priority(p) < dp_priority(b) \/ (dp_priority(p) = dp_priority(b) /\ FewerOrOlder(p, b))
  PROVE  Before(q, b)
<1>1. dp_priority(q) \in Int /\ dp_priority(p) \in Int /\ dp_priority(b) \in Int
  BY DpInt
<1>2. /\ sched[p] \in Nat /\ sched[q] \in Nat /\ sched[b] \in Nat
      /\ ctime[p] \in Nat /\ ctime[q] \in Nat /\ ctime[b] \in Nat
  BY DEF TypeOK
<1>. QED BY <1>1, <1>2 DEF Before, FewerOrOlder, Proc
\* Nothing that the scheduler looks at changes for slot q.
Same(q) == /\ static'[q] = static[q] /\ rtime'[q] = rtime[q] /\ wtime'[q] = wtime[q]
           /\ stime'[q] = stime[q] /\ sched'[q] = sched[q] /\ ctime'[q] = ctime[q]
           /\ state'[q] = state[q]

\* Slots that do not change compare as before.
LEMMA BeforeSame ==
  ASSUME NEW q, NEW p, Same(q), Same(p)
  PROVE  Before(q, p)' <=> Before(q, p)
<1>1. dp_priority(q)' = dp_priority(q) /\ dp_priority(p)' = dp_priority(p)
  BY DpSame DEF Same
<1>2. /\ sched'[q] = sched[q] /\ ctime'[q] = ctime[q]
      /\ sched'[p] = sched[p] /\ ctime'[p] = ctime[p]
  BY DEF Same
<1>. QED BY <1>1, <1>2 DEF Before, FewerOrOlder

\* A step that moves no lock and no scan, and that changes only slots that
\* nobody holds and that it takes out of every seen set, keeps the invariant:
\* wakeup, fork, wait, setpriority and the clock interrupt.
LEMMA SlotStep ==
  ASSUME SInv, TypeOK',
         UNCHANGED <<lock, at, best, prio, cur>>,
         \A c \in CPU : pc'[c] = pc[c] \/ {pc[c], pc'[c]} \subseteq {"run", "yield"},
         \A c \in CPU : seen'[c] \subseteq seen[c],
         \A c \in CPU : \A q \in seen'[c] : Same(q),
         \A q \in Proc : lock[q] # NoCpu => Same(q),
         \A q \in Proc : state'[q] = "RUNNING" <=> state[q] = "RUNNING"
  PROVE  SInv'
<1>1. \A c \in CPU, p \in Proc : lock'[p] = c <=> LockHeld(c, p)'
  <2>. SUFFICES ASSUME NEW c \in CPU, NEW p \in Proc PROVE lock'[p] = c <=> LockHeld(c, p)'
    OBVIOUS
  <2>1. lock[p] = c <=> LockHeld(c, p) BY DEF SInv
  <2>2. pc'[c] = pc[c] \/ {pc[c], pc'[c]} \subseteq {"run", "yield"} OBVIOUS
  <2>. QED BY <2>1, <2>2 DEF LockHeld
<1>2. \A c \in CPU : pc[c] = "scan" /\ best[c] # NoProc => best[c] \in Proc /\ Same(best[c])
  <2>. SUFFICES ASSUME NEW c \in CPU, pc[c] = "scan", best[c] # NoProc
                PROVE  best[c] \in Proc /\ Same(best[c])
    OBVIOUS
  <2>1. best[c] \in Proc BY DEF SInv, TypeOK
  <2>2. lock[best[c]] = c BY <2>1 DEF SInv, LockHeld
  <2>3. lock[best[c]] # NoCpu BY <2>2, SchedulerAssumption
  <2>. QED BY <2>1, <2>3
<1>3. \A c \in CPU : CpuOK(c)'
  <2>. SUFFICES ASSUME NEW c \in CPU PROVE CpuOK(c)'
    OBVIOUS
  <2>1. CpuOK(c) /\ cur[c] \in Proc \cup {NoProc} BY DEF SInv, TypeOK
  <2>2. pc'[c] = pc[c] \/ {pc[c], pc'[c]} \subseteq {"run", "yield"} OBVIOUS
  <2>3. pc'[c] = "scan" <=> cur'[c] = NoProc BY <2>1, <2>2 DEF CpuOK
  <2>4. pc'[c] # "scan" => cur[c] \in Proc BY <2>1, <2>3
  <2>5. pc'[c] \in {"start", "run", "yield"} => state'[cur'[c]] = "RUNNING"
    BY <2>1, <2>2, <2>4 DEF CpuOK
  <2>6. pc'[c] = "switch" => state'[cur'[c]] # "RUNNING"
    BY <2>1, <2>2, <2>4 DEF CpuOK
  <2>7. \A q \in seen'[c] : q < at'[c] BY <2>1 DEF CpuOK
  <2>8. pc'[c] = "scan" /\ best'[c] # NoProc => best'[c] < at'[c] /\ prio'[c] = dp_priority(best[c])'
    <3>. SUFFICES ASSUME pc'[c] = "scan", best'[c] # NoProc
                  PROVE  best'[c] < at'[c] /\ prio'[c] = dp_priority(best[c])'
      OBVIOUS
    <3>1. pc[c] = "scan" /\ Same(best[c]) BY <1>2, <2>2
    <3>2. PICK b : b = best[c] OBVIOUS
    <3>3. dp_priority(b)' = dp_priority(b) BY <3>1, <3>2, DpSame DEF Same
    <3>. QED BY <2>1, <3>1, <3>2, <3>3 DEF CpuOK
  <2>9. pc'[c] = "scan" /\ best'[c] = NoProc => seen'[c] = {} BY <2>1, <2>2 DEF CpuOK
  <2>. QED BY <2>3, <2>5, <2>6, <2>7, <2>8, <2>9 DEF CpuOK
<1>4. OneStack' BY ZenonT(60) DEF SInv, OneStack
<1>5. PickIsBest'
  <2>. SUFFICES ASSUME NEW c \in CPU, pc'[c] = "scan", best'[c] # NoProc
                PROVE  /\ state'[best'[c]] = "RUNNABLE"
                       /\ \A q \in seen'[c] : ~Before(q, best[c])'
    BY DEF PickIsBest
  <2>1. pc[c] = "scan" /\ best[c] # NoProc OBVIOUS
  <2>2. PICK b : b = best[c] /\ b = best'[c] OBVIOUS
  <2>3. Same(b) BY <1>2, <2>1, <2>2
  <2>4. state[b] = "RUNNABLE" /\ \A q \in seen[c] : ~Before(q, b)
    BY <2>1, <2>2 DEF SInv, PickIsBest
  <2>5. ASSUME NEW q \in seen'[c] PROVE ~Before(q, b)'
    <3>1. Same(q) /\ ~Before(q, b) BY <2>4
    <3>. QED BY <2>3, <3>1, BeforeSame
  <2>. QED BY <2>2, <2>3, <2>4, <2>5 DEF Same
<1>. QED BY <1>1, <1>3, <1>4, <1>5 DEF SInv
\* A CPU takes a step that moves locks only between itself and nobody: the
\* other CPUs keep their locks, and what they have seen still compares alike.
LEMMA OthersKeep ==
  ASSUME SInv, NEW c \in CPU, NEW d \in CPU \ {c},
         pc'[d] = pc[d], at'[d] = at[d], best'[d] = best[d], prio'[d] = prio[d], cur'[d] = cur[d],
         seen'[d] \subseteq seen[d],
         \A q \in seen'[d] : Same(q),
         pc[d] = "scan" /\ best[d] # NoProc => Same(best[d]),
         pc[d] # "scan" => state'[cur[d]] = state[cur[d]]
  PROVE  /\ CpuOK(d)'
         /\ pc'[d] = "scan" /\ best'[d] # NoProc =>
              /\ state'[best'[d]] = "RUNNABLE"
              /\ \A q \in seen'[d] : ~Before(q, best[d])'
<1>1. CpuOK(d) BY DEF SInv
<1>2. PICK b : b = best[d] /\ b = best'[d] OBVIOUS
<1>3. pc[d] = "scan" /\ b # NoProc => dp_priority(b)' = dp_priority(b)
  BY ZenonT(60), <1>2, DpSame DEF Same
<1>4. pc'[d] = "scan" /\ best'[d] # NoProc => best'[d] < at'[d] /\ prio'[d] = dp_priority(b)'
  BY <1>1, <1>2, <1>3 DEF CpuOK
<1>5. CpuOK(d)' BY <1>1, <1>2, <1>4 DEF CpuOK
<1>6. ASSUME pc'[d] = "scan", best'[d] # NoProc
      PROVE  /\ state'[best'[d]] = "RUNNABLE"
             /\ \A q \in seen'[d] : ~Before(q, best[d])'
  <2>1. pc[d] = "scan" /\ b # NoProc /\ Same(b) BY <1>2, <1>6
  <2>2. state[b] = "RUNNABLE" /\ \A q \in seen[d] : ~Before(q, b)
    BY <1>2, <2>1 DEF SInv, PickIsBest
  <2>3. ASSUME NEW q \in seen'[d] PROVE ~Before(q, b)'
    <3>1. Same(q) /\ ~Before(q, b) BY <2>2
    <3>. QED BY ZenonT(60), <2>1, <3>1, BeforeSame
  <2>. QED BY ZenonT(60), <1>2, <2>1, <2>2, <2>3 DEF Same
<1>. QED BY <1>5, <1>6

\* A lock is held by at most the one CPU that the invariant names, so a slot
\* whose lock is free is nobody's candidate and nobody's process in swtch.
LEMMA FreeSlot ==
  ASSUME SInv, NEW p \in Proc, lock[p] = NoCpu, NEW d \in CPU
  PROVE  ~LockHeld(d, p)
BY SchedulerAssumption DEF SInv

\* A RUNNABLE slot whose lock the CPU holds, or that nobody holds, is on no CPU.
LEMMA NotRunning ==
  ASSUME SInv, NEW p \in Proc, state[p] = "RUNNABLE", NEW d \in CPU, ~LockHeld(d, p)
  PROVE  cur[d] # p
<1>1. CpuOK(d) /\ pc[d] \in {"scan", "start", "run", "yield", "switch"} /\ p # NoProc
  BY SMTT(60), Z3T(60) DEF SInv, TypeOK, Proc, NoProc
<1>. QED BY <1>1 DEF CpuOK, LockHeld

\* The process releases the lock that it got from the scheduler.
LEMMA StartStep ==
  ASSUME SInv, NEW c \in CPU, Start(c)
  PROVE  SInv'
<1>0. PICK p : p = cur[c] OBVIOUS
<1>1. /\ pc[c] = "start"
      /\ lock' = [lock EXCEPT ![p] = NoCpu]
      /\ chan' = [chan EXCEPT ![p] = "none"]
      /\ pc' = [pc EXCEPT ![c] = "run"]
      /\ UNCHANGED <<state, dyn, accounts, at, best, prio, cur, callVars, clockVars, seen>>
  BY <1>0 DEF Start
<1>2. TypeOK /\ CpuOK(c) /\ OneStack BY ZenonT(60) DEF SInv
<1>3. p \in Proc /\ p # NoProc BY ZenonT(60), <1>0, <1>1, <1>2 DEF CpuOK, TypeOK
<1>4. TypeOK' BY ZenonT(60), <1>1, <1>2, <1>3 DEF TypeOK, accounts, callVars, clockVars
<1>5. /\ \A q : Same(q) /\ pc'[c] = "run" /\ \A d \in CPU \ {c} : pc'[d] = pc[d]
  BY <1>1, <1>2 DEF Same, TypeOK, accounts
<1>6. ASSUME NEW d \in CPU, NEW q \in Proc PROVE lock'[q] = d <=> LockHeld(d, q)'
  <2>1. lock[q] = d <=> LockHeld(d, q) BY ZenonT(60) DEF SInv
  <2>2. lock[p] = c BY ZenonT(60), <1>0, <1>1, <1>3 DEF SInv, LockHeld
  <2>3. lock'[p] = NoCpu /\ d # NoCpu /\ \A r \in Proc \ {p} : lock'[r] = lock[r]
    BY ZenonT(60), <1>1, <1>2, <1>3, SchedulerAssumption DEF TypeOK
  <2>4. CASE d = c BY ZenonT(60), <1>0, <1>1, <1>5, <2>1, <2>2, <2>3, <2>4 DEF LockHeld
  <2>5. CASE d # c BY ZenonT(60), <1>0, <1>1, <1>5, <2>1, <2>2, <2>3, <2>5 DEF LockHeld
  <2>. QED BY <2>4, <2>5
<1>7. CpuOK(c)' BY <1>0, <1>1, <1>2, <1>3, <1>5 DEF CpuOK
<1>8. OneStack' BY ZenonT(60), <1>1, <1>2 DEF OneStack
<1>9. ASSUME NEW d \in CPU \ {c}
      PROVE  /\ CpuOK(d)'
             /\ pc'[d] = "scan" /\ best'[d] # NoProc =>
                  /\ state'[best'[d]] = "RUNNABLE"
                  /\ \A q \in seen'[d] : ~Before(q, best[d])'
  BY ZenonT(60), <1>1, <1>5, OthersKeep
<1>10. PickIsBest' BY ZenonT(60), <1>5, <1>9 DEF PickIsBest
<1>. QED BY <1>4, <1>6, <1>7, <1>8, <1>9, <1>10 DEF SInv
\* The scheduler thread takes over from the process that has been saved.
LEMMA SwitchBackStep ==
  ASSUME SInv, NEW c \in CPU, SwitchBack(c)
  PROVE  SInv'
<1>0. PICK p : p = cur[c] OBVIOUS
<1>1. /\ pc[c] = "switch"
      /\ lock' = [lock EXCEPT ![p] = NoCpu]
      /\ cur' = [cur EXCEPT ![c] = NoProc]
      /\ best' = [best EXCEPT ![c] = NoProc]
      /\ prio' = [prio EXCEPT ![c] = 101]
      /\ at' = [at EXCEPT ![c] = 0]
      /\ pc' = [pc EXCEPT ![c] = "scan"]
      /\ seen' = [seen EXCEPT ![c] = {}]
      /\ UNCHANGED <<state, chan, dyn, accounts, callVars, clockVars>>
  BY ZenonT(60), <1>0 DEF SwitchBack
<1>2. TypeOK /\ CpuOK(c) /\ OneStack BY DEF SInv
<1>3. p \in Proc /\ p # NoProc BY ZenonT(60), <1>0, <1>1, <1>2 DEF CpuOK, TypeOK
<1>4. TypeOK' BY SMTT(60), Z3T(60), <1>1, <1>2, <1>3, SchedulerAssumption DEF TypeOK, accounts, callVars, clockVars
<1>5. /\ \A q : Same(q)
      /\ pc'[c] = "scan" /\ cur'[c] = NoProc /\ best'[c] = NoProc /\ seen'[c] = {}
      /\ \A d \in CPU \ {c} : /\ pc'[d] = pc[d] /\ at'[d] = at[d] /\ best'[d] = best[d]
                              /\ prio'[d] = prio[d] /\ cur'[d] = cur[d] /\ seen'[d] = seen[d]
  BY ZenonT(60), <1>1, <1>2 DEF Same, TypeOK, accounts
<1>6. ASSUME NEW d \in CPU, NEW q \in Proc PROVE lock'[q] = d <=> LockHeld(d, q)'
  <2>1. lock[q] = d <=> LockHeld(d, q) BY DEF SInv
  <2>2. lock[p] = c BY ZenonT(60), <1>0, <1>1, <1>3 DEF SInv, LockHeld
  <2>3. lock'[p] = NoCpu /\ d # NoCpu /\ \A r \in Proc \ {p} : lock'[r] = lock[r]
    BY <1>1, <1>2, <1>3, SchedulerAssumption DEF TypeOK
  <2>4. q # NoProc BY SMTT(60), Z3T(60) DEF Proc, NoProc
  <2>5. CASE d = c BY ZenonT(60), <1>0, <1>1, <1>5, <2>1, <2>2, <2>3, <2>4, <2>5 DEF LockHeld
  <2>6. CASE d # c BY ZenonT(60), <1>0, <1>1, <1>5, <2>1, <2>2, <2>3, <2>6 DEF LockHeld
  <2>. QED BY <2>5, <2>6
<1>7. CpuOK(c)' BY ZenonT(60), <1>5 DEF CpuOK
<1>8. OneStack' BY SMTT(60), Z3T(60), <1>2, <1>5 DEF OneStack
<1>9. ASSUME NEW d \in CPU \ {c}
      PROVE  /\ CpuOK(d)'
             /\ pc'[d] = "scan" /\ best'[d] # NoProc =>
                  /\ state'[best'[d]] = "RUNNABLE"
                  /\ \A q \in seen'[d] : ~Before(q, best[d])'
  BY ZenonT(60), <1>1, <1>5, OthersKeep
<1>10. PickIsBest' BY ZenonT(60), <1>5, <1>9 DEF PickIsBest
<1>. QED BY <1>4, <1>6, <1>7, <1>8, <1>9, <1>10 DEF SInv

\* A process takes its own lock, changes its state and enters sched().
LEMMA LeaveStep ==
  ASSUME SInv, NEW c \in CPU, NEW s \in {"RUNNABLE", "SLEEPING", "ZOMBIE"},
         NEW ch \in {"none", "ticks", "event"}, pc[c] \in {"run", "yield"}, Leave(c, s, ch)
  PROVE  SInv'
<1>0. PICK p : p = cur[c] BY ZenonT(60)
<1>1. /\ lock[p] = NoCpu
      /\ lock' = [lock EXCEPT ![p] = c]
      /\ state' = [state EXCEPT ![p] = s]
      /\ chan' = [chan EXCEPT ![p] = ch]
      /\ pc' = [pc EXCEPT ![c] = "switch"]
      /\ seen' = [d \in CPU |-> seen[d] \ {p}]
      /\ UNCHANGED <<dyn, accounts, at, best, prio, cur, callVars, clockVars>>
  BY <1>0 DEF Leave, Touch
<1>2. TypeOK /\ CpuOK(c) /\ OneStack BY DEF SInv
<1>3. p \in Proc /\ p # NoProc BY ZenonT(60), <1>0, <1>2 DEF CpuOK, TypeOK
<1>4. TypeOK'
  <2>1. state' \in [Proc -> {"UNUSED", "USED", "SLEEPING", "RUNNABLE", "RUNNING", "ZOMBIE"}]
        /\ chan' \in [Proc -> {"none", "ticks", "event"}]
    BY ZenonT(60), <1>1, <1>2 DEF TypeOK
  <2>2. seen' \in [CPU -> SUBSET Proc] BY <1>1, <1>2 DEF TypeOK
  <2>. QED BY ZenonT(60), <1>1, <1>2, <1>3, <2>1, <2>2 DEF TypeOK, accounts, callVars, clockVars
<1>5. /\ \A q \in Proc \ {p} : Same(q)
      /\ pc'[c] = "switch" /\ state'[p] # "RUNNING"
      /\ \A d \in CPU : p \notin seen'[d] /\ seen'[d] \subseteq seen[d] /\ seen'[d] \subseteq Proc
      /\ \A d \in CPU \ {c} : pc'[d] = pc[d]
  BY <1>1, <1>2, <1>3 DEF Same, TypeOK, accounts
<1>6. ASSUME NEW d \in CPU, NEW q \in Proc PROVE lock'[q] = d <=> LockHeld(d, q)'
  <2>1. (lock[q] = d <=> LockHeld(d, q)) /\ ~LockHeld(d, p) BY ZenonT(60), <1>1, <1>3, FreeSlot DEF SInv
  <2>2. lock'[p] = c /\ \A r \in Proc \ {p} : lock'[r] = lock[r]
    BY ZenonT(60), <1>1, <1>2, <1>3 DEF TypeOK
  <2>3. cur'[d] = cur[d] /\ best'[d] = best[d] /\ cur[c] = p BY ZenonT(60), <1>0, <1>1
  <2>4. CASE d = c
    <3>1. LockHeld(d, q)' <=> q = p BY ZenonT(60), <1>5, <2>3, <2>4 DEF LockHeld
    <3>2. q # p => lock[q] # c BY ZenonT(60), <2>1, <2>3, <2>4 DEF LockHeld
    <3>. QED BY ZenonT(60), <2>2, <2>4, <3>1, <3>2
  <2>5. CASE d # c
    <3>1. LockHeld(d, q)' <=> LockHeld(d, q) BY ZenonT(60), <1>5, <2>3, <2>5 DEF LockHeld
    <3>. QED BY ZenonT(60), <2>1, <2>2, <2>5, <3>1
  <2>. QED BY ZenonT(60), <2>4, <2>5
<1>7. CpuOK(c)'
  <2>1. \A q \in seen'[c] : q < at'[c] BY ZenonT(60), <1>1, <1>2, <1>5 DEF CpuOK
  <2>. QED BY ZenonT(60), <1>0, <1>1, <1>3, <1>5, <2>1 DEF CpuOK
<1>8. OneStack' BY ZenonT(60), <1>1, <1>2 DEF OneStack
<1>9. ASSUME NEW d \in CPU \ {c}
      PROVE  /\ CpuOK(d)'
             /\ pc'[d] = "scan" /\ best'[d] # NoProc =>
                  /\ state'[best'[d]] = "RUNNABLE"
                  /\ \A q \in seen'[d] : ~Before(q, best[d])'
  <2>1. ~LockHeld(d, p) /\ cur[d] # p
    BY ZenonT(60), <1>0, <1>1, <1>2, <1>3, FreeSlot DEF OneStack
  <2>2. best[d] \in Proc \cup {NoProc} /\ cur[d] \in Proc \cup {NoProc} /\ CpuOK(d)
    BY ZenonT(60) DEF SInv, TypeOK
  <2>3. pc[d] = "scan" /\ best[d] # NoProc => Same(best[d])
    BY ZenonT(60), <1>5, <2>1, <2>2 DEF LockHeld
  <2>4. pc[d] # "scan" => state'[cur[d]] = state[cur[d]]
    BY ZenonT(60), <1>5, <2>1, <2>2 DEF CpuOK, Same
  <2>5. \A q \in seen'[d] : Same(q) BY ZenonT(60), <1>5
  <2>6. /\ pc'[d] = pc[d] /\ at'[d] = at[d] /\ best'[d] = best[d] /\ prio'[d] = prio[d]
        /\ cur'[d] = cur[d] /\ seen'[d] \subseteq seen[d]
    BY ZenonT(60), <1>1, <1>5
  <2>. QED BY ZenonT(60), <2>3, <2>4, <2>5, <2>6, OthersKeep
<1>10. PickIsBest' BY ZenonT(60), <1>5, <1>9 DEF PickIsBest
<1>. QED BY ZenonT(60), <1>4, <1>6, <1>7, <1>8, <1>9, <1>10 DEF SInv
\* The winner runs: it was RUNNABLE and locked by this CPU, so it is on no
\* other CPU and in no swtch.
LEMMA DispatchStep ==
  ASSUME SInv, NEW c \in CPU, Dispatch(c)
  PROVE  SInv'
<1>0. PICK p : p = best[c] OBVIOUS
<1>1. TypeOK /\ CpuOK(c) /\ OneStack /\ pc[c] = "scan" BY ZenonT(60) DEF SInv, Dispatch
<1>2. CASE p = NoProc
  <2>1. /\ at' = [at EXCEPT ![c] = 0]
        /\ seen' = [seen EXCEPT ![c] = {}]
        /\ UNCHANGED <<state, chan, dyn, accounts, lock, pc, best, prio, cur, callVars, clockVars>>
    BY ZenonT(60), <1>0, <1>2 DEF Dispatch, accounts
  <2>2. TypeOK' BY SMTT(60), Z3T(60), <1>1, <2>1, SchedulerAssumption DEF TypeOK, accounts, callVars, clockVars
  <2>3. /\ \A q : Same(q) /\ seen'[c] = {}
        /\ \A d \in CPU \ {c} : at'[d] = at[d] /\ seen'[d] = seen[d]
    BY ZenonT(60), <1>1, <2>1 DEF Same, TypeOK, accounts
  <2>4. \A d \in CPU, q \in Proc : lock'[q] = d <=> LockHeld(d, q)'
    BY ZenonT(60), <2>1 DEF SInv, LockHeld
  <2>5. CpuOK(c)' BY ZenonT(60), <1>0, <1>1, <1>2, <2>1, <2>3 DEF CpuOK
  <2>6. ASSUME NEW d \in CPU \ {c}
        PROVE  /\ CpuOK(d)'
               /\ pc'[d] = "scan" /\ best'[d] # NoProc =>
                    /\ state'[best'[d]] = "RUNNABLE"
                    /\ \A q \in seen'[d] : ~Before(q, best[d])'
    BY ZenonT(60), <2>1, <2>3, OthersKeep
  <2>7. OneStack' BY ZenonT(60), <1>1, <2>1 DEF OneStack
  <2>8. PickIsBest' BY ZenonT(60), <1>0, <1>2, <2>1, <2>6 DEF PickIsBest
  <2>. QED BY ZenonT(60), <2>2, <2>4, <2>5, <2>6, <2>7, <2>8 DEF SInv
<1>3. CASE p # NoProc
  <2>1. /\ state' = [state EXCEPT ![p] = "RUNNING"]
        /\ cur' = [cur EXCEPT ![c] = p]
        /\ sched' = [sched EXCEPT ![p] = smaller(MaxSched, sched[p] + 1)]
        /\ rtime' = [rtime EXCEPT ![p] = 0]
        /\ wtime' = [wtime EXCEPT ![p] = 0]
        /\ stime' = [stime EXCEPT ![p] = 0]
        /\ pc' = [pc EXCEPT ![c] = "start"]
        /\ seen' = [d \in CPU |-> seen[d] \ {p}]
        /\ UNCHANGED <<chan, static, dyn, ctime, lock, at, best, prio, callVars, clockVars>>
    BY ZenonT(60), <1>0, <1>3 DEF Dispatch, Touch
  <2>2. p \in Proc /\ lock[p] = c /\ state[p] = "RUNNABLE"
    BY SMTT(60), Z3T(60), <1>0, <1>1, <1>3 DEF SInv, TypeOK, LockHeld, PickIsBest
  <2>3. TypeOK'
    <3>1. state' \in [Proc -> {"UNUSED", "USED", "SLEEPING", "RUNNABLE", "RUNNING", "ZOMBIE"}]
      BY ZenonT(60), <1>1, <2>1 DEF TypeOK
    <3>2. smaller(MaxSched, sched[p] + 1) \in Nat
      BY <1>1, <2>2, SchedulerAssumption DEF TypeOK, smaller
    <3>3. seen' \in [CPU -> SUBSET Proc] BY ZenonT(60), <1>1, <2>1 DEF TypeOK
    <3>4. sched' \in [Proc -> Nat] BY ZenonT(60), <1>1, <2>1, <3>2 DEF TypeOK
    <3>. QED BY ZenonT(60), <1>1, <2>1, <2>2, <3>1, <3>3, <3>4 DEF TypeOK, callVars, clockVars
  <2>4. /\ \A q \in Proc \ {p} : Same(q)
        /\ state'[p] = "RUNNING" /\ pc'[c] = "start" /\ cur'[c] = p
        /\ \A d \in CPU : p \notin seen'[d] /\ seen'[d] \subseteq seen[d] /\ seen'[d] \subseteq Proc
        /\ \A d \in CPU \ {c} : pc'[d] = pc[d] /\ cur'[d] = cur[d]
    BY ZenonT(60), <1>1, <2>1, <2>2 DEF Same, TypeOK
  <2>5. \A d \in CPU \ {c} : ~LockHeld(d, p) /\ cur[d] # p
    <3>1. \A d \in CPU \ {c} : ~LockHeld(d, p) BY ZenonT(60), <2>2 DEF SInv
    <3>. QED BY <2>2, <3>1, NotRunning
  <2>6. ASSUME NEW d \in CPU, NEW q \in Proc PROVE lock'[q] = d <=> LockHeld(d, q)'
    <3>1. (lock[q] = d <=> LockHeld(d, q)) /\ lock'[q] = lock[q] /\ best'[d] = best[d]
      BY ZenonT(60), <2>1 DEF SInv
    <3>2. CASE d = c
      BY ZenonT(60), <1>0, <1>1, <2>4, <3>1, <3>2 DEF LockHeld, CpuOK
    <3>3. CASE d # c BY ZenonT(60), <2>4, <3>1, <3>3 DEF LockHeld
    <3>. QED BY <3>2, <3>3
  <2>7. CpuOK(c)'
    <3>1. \A q \in seen'[c] : q < at'[c] BY ZenonT(60), <1>1, <2>1, <2>4 DEF CpuOK
    <3>. QED BY ZenonT(60), <1>3, <2>4, <3>1 DEF CpuOK
  <2>8. OneStack' BY SMTT(60), Z3T(60), <1>1, <2>4, <2>5 DEF OneStack
  <2>9. ASSUME NEW d \in CPU \ {c}
        PROVE  /\ CpuOK(d)'
               /\ pc'[d] = "scan" /\ best'[d] # NoProc =>
                    /\ state'[best'[d]] = "RUNNABLE"
                    /\ \A q \in seen'[d] : ~Before(q, best[d])'
    <3>1. best[d] \in Proc \cup {NoProc} /\ cur[d] \in Proc \cup {NoProc} /\ CpuOK(d)
      BY ZenonT(60) DEF SInv, TypeOK
    <3>2. pc[d] = "scan" /\ best[d] # NoProc => Same(best[d])
      BY ZenonT(60), <2>4, <2>5, <3>1 DEF LockHeld
    <3>3. pc[d] # "scan" => state'[cur[d]] = state[cur[d]]
      BY ZenonT(60), <2>4, <2>5, <3>1 DEF CpuOK, Same
    <3>4. \A q \in seen'[d] : Same(q) BY ZenonT(60), <2>4
    <3>5. /\ pc'[d] = pc[d] /\ at'[d] = at[d] /\ best'[d] = best[d] /\ prio'[d] = prio[d]
          /\ cur'[d] = cur[d] /\ seen'[d] \subseteq seen[d]
      BY ZenonT(60), <2>1, <2>4
    <3>. QED BY ZenonT(60), <3>2, <3>3, <3>4, <3>5, OthersKeep
  <2>10. PickIsBest' BY ZenonT(60), <2>4, <2>9 DEF PickIsBest
  <2>. QED BY <2>3, <2>6, <2>7, <2>8, <2>9, <2>10 DEF SInv
<1>. QED BY ZenonT(60), <1>2, <1>3

\* A round of the scan.
LEMMA ScanStep ==
  ASSUME SInv, NEW c \in CPU, Scan(c)
  PROVE  SInv'
<1>0. PICK p, x : p = at[c] /\ x = dp_priority(p) BY ZenonT(60)
<1>1. /\ pc[c] = "scan" /\ p < NPROC /\ lock[p] = NoCpu
      /\ at' = [at EXCEPT ![c] = p + 1]
      /\ UNCHANGED <<state, chan, accounts, pc, cur, callVars, clockVars>>
  BY <1>0 DEF Scan
<1>2. TypeOK /\ CpuOK(c) /\ OneStack BY DEF SInv
<1>3. p \in Proc /\ p + 1 \in 0 .. NPROC /\ p \in Int
  <2>1. p \in 0 .. NPROC /\ p < NPROC /\ NPROC \in Nat
    BY ZenonT(60), <1>0, <1>1, <1>2, SchedulerAssumption DEF TypeOK
  <2>. QED BY SMTT(60), Z3T(60), <2>1 DEF Proc
<1>4. x \in Int BY ZenonT(60), <1>0, <1>2, <1>3, DpInt
<1>5. \A q : Same(q) BY ZenonT(60), <1>1 DEF Same, accounts
<1>6. at'[c] = p + 1 /\ \A d \in CPU \ {c} : at'[d] = at[d] BY ZenonT(60), <1>1, <1>2 DEF TypeOK
<1>7. \A d \in CPU : ~LockHeld(d, p) BY ZenonT(60), <1>1, <1>3, FreeSlot
<1>8. OneStack' BY ZenonT(60), <1>1, <1>2 DEF OneStack
<1>9. ASSUME \A d \in CPU \ {c} : best'[d] = best[d] /\ prio'[d] = prio[d] /\ seen'[d] = seen[d],
             NEW d \in CPU \ {c}
      PROVE  /\ CpuOK(d)'
             /\ pc'[d] = "scan" /\ best'[d] # NoProc =>
                  /\ state'[best'[d]] = "RUNNABLE"
                  /\ \A q \in seen'[d] : ~Before(q, best[d])'
  BY ZenonT(60), <1>1, <1>5, <1>6, <1>9, OthersKeep
<1>10. CASE state[p] # "RUNNABLE"
  <2>1. UNCHANGED <<dyn, seen, best, prio, lock>> BY ZenonT(60), <1>0, <1>10 DEF Scan
  <2>2. TypeOK' BY ZenonT(60), <1>1, <1>2, <1>3, <2>1 DEF TypeOK, accounts, callVars, clockVars
  <2>3. \A d \in CPU, q \in Proc : lock'[q] = d <=> LockHeld(d, q)'
    BY SMTT(60), Z3T(60), <1>1, <2>1 DEF SInv, LockHeld
  <2>4. \A d \in CPU \ {c} : CpuOK(d)' BY ZenonT(60), <1>9, <2>1
  <2>5. CpuOK(c)'
    <3>1. \A q \in seen'[c] : q < p + 1
      BY SMTT(60), Z3T(60), <1>0, <1>2, <1>3, <2>1 DEF CpuOK, TypeOK, Proc
    <3>2. PICK b : b = best[c] OBVIOUS
    <3>3. b # NoProc => b < p + 1 /\ prio[c] = dp_priority(b)
      BY SMTT(60), Z3T(60), <1>0, <1>1, <1>2, <1>3, <3>2 DEF CpuOK, TypeOK, Proc
    <3>4. dp_priority(b)' = dp_priority(b) BY ZenonT(60), <1>5, DpSame DEF Same
    <3>. QED BY ZenonT(60), <1>1, <1>2, <1>6, <2>1, <3>1, <3>2, <3>3, <3>4 DEF CpuOK
  <2>6. PickIsBest'
    <3>1. PICK b : b = best[c] OBVIOUS
    <3>2. b # NoProc => state[b] = "RUNNABLE" /\ \A q \in seen[c] : ~Before(q, b)
      BY ZenonT(60), <1>1, <3>1 DEF SInv, PickIsBest
    <3>3. \A q : Before(q, b)' <=> Before(q, b) BY ZenonT(60), <1>5, BeforeSame
    <3>. QED BY ZenonT(60), <1>1, <1>9, <2>1, <3>1, <3>2, <3>3 DEF PickIsBest
  <2>. QED BY ZenonT(60), <1>8, <2>2, <2>3, <2>4, <2>5, <2>6 DEF SInv
<1>11. CASE state[p] = "RUNNABLE" /\ ~Wins(c, p, x)
  <2>1. /\ dyn' = [dyn EXCEPT ![p] = x]
        /\ seen' = [seen EXCEPT ![c] = seen[c] \cup {p}]
        /\ UNCHANGED <<best, prio, lock>>
    BY ZenonT(60), <1>0, <1>11 DEF Scan
  <2>2. TypeOK'
    <3>1. /\ dyn' \in [Proc -> Int] /\ at' \in [CPU -> 0 .. NPROC]
      BY ZenonT(60), <1>1, <1>2, <1>3, <1>4, <2>1 DEF TypeOK
    <3>2. seen' \in [CPU -> SUBSET Proc] BY ZenonT(60), <1>2, <1>3, <2>1 DEF TypeOK
    <3>3. /\ best' \in [CPU -> Proc \cup {NoProc}] /\ prio' \in [CPU -> Int]
          /\ lock' \in [Proc -> CPU \cup {NoCpu}]
      BY ZenonT(60), <1>2, <1>3, <1>4, <2>1 DEF TypeOK
    <3>. QED BY ZenonT(60), <1>1, <1>2, <3>1, <3>2, <3>3 DEF TypeOK, accounts, callVars, clockVars
  <2>3. \A d \in CPU, q \in Proc : lock'[q] = d <=> LockHeld(d, q)'
    BY SMTT(60), Z3T(60), <1>1, <2>1 DEF SInv, LockHeld
  <2>4. seen'[c] = seen[c] \cup {p} /\ \A d \in CPU \ {c} : seen'[d] = seen[d]
    BY <1>2, <2>1 DEF TypeOK
  <2>5. \A d \in CPU \ {c} : best'[d] = best[d] /\ prio'[d] = prio[d] /\ seen'[d] = seen[d]
    BY <2>1, <2>4
  <2>6. \A d \in CPU \ {c} : CpuOK(d)' BY ZenonT(60), <1>9, <2>5
  <2>7. PICK b : b = best[c] OBVIOUS
  <2>8. b \in Proc /\ b < p /\ prio[c] = dp_priority(b)
    BY ZenonT(60), <1>0, <1>1, <1>2, <1>11, <2>7 DEF Wins, CpuOK, TypeOK
  <2>9. CpuOK(c)'
    <3>0. seen[c] \subseteq Proc /\ \A q \in seen[c] : q < p BY ZenonT(60), <1>0, <1>2 DEF CpuOK, TypeOK
    <3>1. \A q \in seen'[c] : q < p + 1
      BY SMTT(60), Z3T(60), <1>3, <2>4, <3>0 DEF Proc
    <3>2. dp_priority(b)' = dp_priority(b) BY ZenonT(60), <1>5, DpSame DEF Same
    <3>3. b < p + 1 BY SMTT(60), Z3T(60), <1>3, <2>8 DEF Proc
    <3>4. pc'[c] = "scan" /\ cur'[c] = NoProc /\ best'[c] = b /\ b # NoProc
      BY ZenonT(60), <1>1, <1>2, <1>11, <2>1, <2>7 DEF CpuOK, Wins
    <3>. QED BY ZenonT(60), <1>6, <2>1, <2>8, <3>1, <3>2, <3>3, <3>4 DEF CpuOK
  <2>10. PickIsBest'
    <3>1. state[b] = "RUNNABLE" /\ \A q \in seen[c] : ~Before(q, b)
      BY ZenonT(60), <1>1, <1>11, <2>7 DEF SInv, PickIsBest, Wins
    <3>2. ~Before(p, b)
      <4>1. ~(x < prio[c]) /\ ~(x = prio[c] /\ FewerOrOlder(p, b)) BY ZenonT(60), <1>11, <2>7 DEF Wins
      <4>2. prio[c] \in Int BY <1>2 DEF TypeOK
      <4>3. ~(p < b) BY SMTT(60), Z3T(60), <1>3, <2>8 DEF Proc
      <4>. QED BY ZenonT(60), <1>0, <1>4, <2>8, <4>1, <4>2, <4>3 DEF Before
    <3>3. \A q : Before(q, b)' <=> Before(q, b) BY <1>5, BeforeSame
    <3>4. \A q \in seen'[c] : ~Before(q, b)' BY ZenonT(60), <2>4, <3>1, <3>2, <3>3
    <3>5. \A d \in CPU \ {c} : pc'[d] = "scan" /\ best'[d] # NoProc =>
                  /\ state'[best'[d]] = "RUNNABLE"
                  /\ \A q \in seen'[d] : ~Before(q, best[d])'
      BY ZenonT(60), <1>9, <2>5
    <3>. QED BY ZenonT(60), <1>1, <2>1, <2>7, <3>1, <3>4, <3>5 DEF PickIsBest
  <2>. QED BY ZenonT(60), <1>8, <2>2, <2>3, <2>6, <2>9, <2>10 DEF SInv
<1>12. CASE state[p] = "RUNNABLE" /\ Wins(c, p, x)
  <2>0. PICK b : b = best[c] OBVIOUS
  <2>1. /\ dyn' = [dyn EXCEPT ![p] = x]
        /\ seen' = [seen EXCEPT ![c] = seen[c] \cup {p}]
        /\ best' = [best EXCEPT ![c] = p]
        /\ prio' = [prio EXCEPT ![c] = x]
        /\ lock' = [q \in Proc |-> IF q = p THEN c ELSE IF q = b THEN NoCpu ELSE lock[q]]
    BY ZenonT(60), <1>0, <1>12, <2>0 DEF Scan, Prefer
  <2>2. TypeOK'
    <3>1. /\ dyn' \in [Proc -> Int] /\ at' \in [CPU -> 0 .. NPROC]
      BY ZenonT(60), <1>1, <1>2, <1>3, <1>4, <2>1 DEF TypeOK
    <3>2. seen' \in [CPU -> SUBSET Proc] BY ZenonT(60), <1>2, <1>3, <2>1 DEF TypeOK
    <3>3. /\ best' \in [CPU -> Proc \cup {NoProc}] /\ prio' \in [CPU -> Int]
          /\ lock' \in [Proc -> CPU \cup {NoCpu}]
      BY ZenonT(60), <1>2, <1>3, <1>4, <2>1 DEF TypeOK
    <3>. QED BY ZenonT(60), <1>1, <1>2, <3>1, <3>2, <3>3 DEF TypeOK, accounts, callVars, clockVars
  <2>3. /\ seen'[c] = seen[c] \cup {p} /\ best'[c] = p /\ prio'[c] = x
        /\ \A d \in CPU \ {c} : best'[d] = best[d] /\ prio'[d] = prio[d] /\ seen'[d] = seen[d]
    BY ZenonT(60), <1>2, <2>1 DEF TypeOK
  <2>4. ASSUME NEW d \in CPU, NEW q \in Proc PROVE lock'[q] = d <=> LockHeld(d, q)'
    <3>1. (lock[q] = d <=> LockHeld(d, q)) /\ pc'[d] = pc[d] /\ cur'[d] = cur[d] /\ d # NoCpu
      BY ZenonT(60), <1>1, SchedulerAssumption DEF SInv
    <3>2. lock'[q] = IF q = p THEN c ELSE IF q = b THEN NoCpu ELSE lock[q] BY ZenonT(60), <2>1
    <3>3. q = b => lock[q] = c BY ZenonT(60), <1>1, <2>0 DEF SInv, LockHeld
    <3>4. CASE d = c
      BY ZenonT(60), <1>1, <2>0, <2>3, <3>1, <3>2, <3>4 DEF LockHeld
    <3>5. CASE d # c
      <4>1. LockHeld(d, q)' <=> LockHeld(d, q) BY ZenonT(60), <2>3, <3>1, <3>5 DEF LockHeld
      <4>2. ~LockHeld(d, p) BY ZenonT(60), <1>7
      <4>. QED BY ZenonT(60), <3>1, <3>2, <3>3, <3>5, <4>1, <4>2
    <3>. QED BY <3>4, <3>5
  <2>5. \A d \in CPU \ {c} : CpuOK(d)' BY ZenonT(60), <1>9, <2>3
  <2>6. CpuOK(c)'
    <3>0. seen[c] \subseteq Proc /\ \A q \in seen[c] : q < p BY <1>0, <1>2 DEF CpuOK, TypeOK
    <3>1. \A q \in seen'[c] : q < p + 1
      BY SMTT(60), Z3T(60), <1>3, <2>3, <3>0 DEF Proc
    <3>2. dp_priority(p)' = x BY ZenonT(60), <1>0, <1>5, DpSame DEF Same
    <3>3. p < p + 1 BY SMTT(60), Z3T(60), <1>3
    <3>4. pc'[c] = "scan" /\ cur'[c] = NoProc /\ p # NoProc
      BY SMTT(60), Z3T(60), <1>1, <1>2, <1>3, SchedulerAssumption DEF CpuOK, NoProc, Proc
    <3>. QED BY ZenonT(60), <1>6, <2>3, <3>1, <3>2, <3>3, <3>4 DEF CpuOK
  <2>7. PickIsBest'
    <3>1. \A q : Before(q, p)' <=> Before(q, p) BY <1>5, BeforeSame
    <3>2. ~Before(p, p)
      <4>1. /\ dp_priority(p) \in Int /\ sched[p] \in Nat /\ ctime[p] \in Nat
        BY ZenonT(60), <1>0, <1>2, <1>3, <1>4 DEF TypeOK
      <4>. QED BY <1>3, <4>1 DEF Before, FewerOrOlder
    <3>3. ASSUME NEW q \in seen[c] PROVE ~Before(q, p)
      <4>1. CASE b = NoProc
        BY ZenonT(60), <1>1, <1>2, <2>0, <3>3, <4>1 DEF CpuOK
      <4>2. CASE b # NoProc
        <5>1. b \in Proc /\ q \in Proc /\ ~Before(q, b) /\ prio[c] = dp_priority(b)
          BY SMTT(60), Z3T(60), <1>1, <1>2, <2>0, <4>2 DEF SInv, PickIsBest, CpuOK, TypeOK
        <5>2. x < prio[c] \/ (x = prio[c] /\ FewerOrOlder(p, b)) BY ZenonT(60), <1>12, <2>0, <4>2 DEF Wins
        <5>. QED BY ZenonT(60), <1>0, <1>2, <1>3, <5>1, <5>2, BeforeTrans
      <4>. QED BY ZenonT(60), <4>1, <4>2
    <3>4. \A q \in seen'[c] : ~Before(q, p)' BY ZenonT(60), <2>3, <3>1, <3>2, <3>3
    <3>5. \A d \in CPU \ {c} : pc'[d] = "scan" /\ best'[d] # NoProc =>
                  /\ state'[best'[d]] = "RUNNABLE"
                  /\ \A q \in seen'[d] : ~Before(q, best[d])'
      BY ZenonT(60), <1>9, <2>3
    <3>. QED BY ZenonT(60), <1>1, <1>12, <2>3, <3>4, <3>5 DEF PickIsBest
  <2>. QED BY ZenonT(60), <1>8, <2>2, <2>4, <2>5, <2>6, <2>7 DEF SInv
<1>. QED BY <1>10, <1>11, <1>12
\* Nothing is held, run or seen when the kernel starts scheduling.
LEMMA InitSInv ==
  ASSUME Init
  PROVE  SInv
<1>1. TypeOK
  <2>1. state \in [Proc -> {"UNUSED", "USED", "SLEEPING", "RUNNABLE", "RUNNING", "ZOMBIE"}] BY ZenonT(60) DEF Init
  <2>2. static \in [Proc -> Int] /\ lock \in [Proc -> CPU \cup {NoCpu}] BY SMTT(60), Z3T(60) DEF Init
  <2>3. /\ chan \in [Proc -> {"none", "ticks", "event"}] /\ dyn \in [Proc -> Int]
        /\ rtime \in [Proc -> Nat] /\ wtime \in [Proc -> Nat] /\ stime \in [Proc -> Nat]
        /\ sched \in [Proc -> Nat] /\ ctime \in [Proc -> Nat]
    BY SMTT(60), Z3T(60) DEF Init
  <2>4. 0 \in 0 .. NPROC BY SMTT(60), Z3T(60), SchedulerAssumption
  <2>5. /\ pc \in [CPU -> {"scan", "start", "run", "yield", "switch"}]
        /\ at \in [CPU -> 0 .. NPROC]
        /\ best \in [CPU -> Proc \cup {NoProc}] /\ prio \in [CPU -> Int]
        /\ cur \in [CPU -> Proc \cup {NoProc}]
        /\ call \in [Proc -> {"none", "setpriority", "fork"}] /\ target \in [Proc -> Proc \cup {NoProc}]
        /\ seen \in [CPU -> SUBSET Proc]
    BY SMTT(60), Z3T(60), <2>4 DEF Init
  <2>6. ticks \in Nat /\ clk \in {"idle", "update", "wake"} /\ ci \in 0 .. NPROC
    BY <2>4 DEF Init
  <2>. QED BY ZenonT(60), <2>1, <2>2, <2>3, <2>5, <2>6 DEF TypeOK
<1>2. \A p \in Proc : p # NoProc BY SMTT(60), Z3T(60), SchedulerAssumption DEF Proc, NoProc
<1>3. \A c \in CPU : pc[c] = "scan" /\ best[c] = NoProc /\ cur[c] = NoProc /\ seen[c] = {} /\ c # NoCpu
  BY ZenonT(60), SchedulerAssumption DEF Init
<1>4. \A c \in CPU, p \in Proc : lock[p] = c <=> LockHeld(c, p)
  BY ZenonT(60), <1>2, <1>3 DEF Init, LockHeld
<1>5. \A c \in CPU : CpuOK(c) BY ZenonT(60), <1>3 DEF CpuOK
<1>6. OneStack /\ PickIsBest BY ZenonT(60), <1>3 DEF OneStack, PickIsBest
<1>. QED BY ZenonT(60), <1>1, <1>4, <1>5, <1>6 DEF SInv

\* A slot that a step changes under a free lock: everything that SlotStep asks
\* for, stated about the slot.
LEMMA OneSlotStep ==
  ASSUME SInv, TypeOK', NEW p \in Proc, lock[p] = NoCpu,
         UNCHANGED <<lock, at, best, prio, cur>>,
         \A c \in CPU : pc'[c] = pc[c] \/ {pc[c], pc'[c]} \subseteq {"run", "yield"},
         Touch({p}),
         \A q \in Proc \ {p} : Same(q),
         state'[p] = "RUNNING" <=> state[p] = "RUNNING"
  PROVE  SInv'
<1>1. \A c \in CPU : seen'[c] \subseteq seen[c] /\ seen'[c] \subseteq Proc \ {p}
  BY ZenonT(60) DEF SInv, TypeOK, Touch
<1>2. \A q \in Proc : lock[q] # NoCpu => Same(q) BY ZenonT(60)
<1>3. \A q \in Proc : state'[q] = "RUNNING" <=> state[q] = "RUNNING" BY ZenonT(60) DEF Same
<1>4. \A c \in CPU : \A q \in seen'[c] : Same(q) BY ZenonT(60), <1>1
<1>. QED BY ZenonT(60), <1>1, <1>2, <1>3, <1>4, SlotStep

\* Entering a call, or returning from it, only names the call and its slot.
LEMMA EnterTypes ==
  ASSUME TypeOK, NEW c \in CPU, NEW what \in {"none", "setpriority", "fork"},
         NEW p \in Proc \cup {NoProc}, Enter(c, what, p)
  PROVE  /\ call' \in [Proc -> {"none", "setpriority", "fork"}]
         /\ target' \in [Proc -> Proc \cup {NoProc}]
BY ZenonT(60) DEF TypeOK, Enter

\* wakeup, fork, wait and setpriority change one slot, under its lock.
LEMMA BehaviourStep ==
  ASSUME SInv, load \in Loads, NEW c \in CPU, NEW p \in Proc,
         Wakeup(c, p) \/ Fork(c, p) \/ Reap(c, p) \/ \E new \in load.statics : SetStatic(c, p, new)
  PROVE  SInv'
<1>0. TypeOK BY ZenonT(60) DEF SInv
<1>1. CASE Wakeup(c, p)
  <2>1. TypeOK'
    <3>1. seen' \in [CPU -> SUBSET Proc] BY ZenonT(60), <1>0, <1>1 DEF TypeOK, Wakeup, Touch
    <3>2. state' \in [Proc -> {"UNUSED", "USED", "SLEEPING", "RUNNABLE", "RUNNING", "ZOMBIE"}]
      BY ZenonT(60), <1>0, <1>1 DEF TypeOK, Wakeup
    <3>. QED BY ZenonT(60), <1>0, <1>1, <3>1, <3>2 DEF TypeOK, Wakeup, accounts, cpuVars, callVars, clockVars
  <2>2. /\ lock[p] = NoCpu /\ Touch({p})
        /\ UNCHANGED <<lock, pc, at, best, prio, cur>>
        /\ state'[p] # "RUNNING" /\ state[p] # "RUNNING"
    BY ZenonT(60), <1>0, <1>1 DEF Wakeup, cpuVars, TypeOK
  <2>3. \A q \in Proc \ {p} : Same(q) BY ZenonT(60), <1>0, <1>1 DEF Wakeup, Same, accounts, TypeOK
  <2>. QED BY ZenonT(60), <2>1, <2>2, <2>3, OneSlotStep
<1>2. CASE Fork(c, p)
  <2>1. TypeOK'
    <3>1. seen' \in [CPU -> SUBSET Proc] BY ZenonT(60), <1>0, <1>2 DEF TypeOK, Fork, Touch
    <3>2. state' \in [Proc -> {"UNUSED", "USED", "SLEEPING", "RUNNABLE", "RUNNING", "ZOMBIE"}]
      BY ZenonT(60), <1>0, <1>2 DEF TypeOK, Fork
    <3>3. /\ static' \in [Proc -> Int] /\ dyn' \in [Proc -> Int]
          /\ rtime' \in [Proc -> Nat] /\ wtime' \in [Proc -> Nat] /\ stime' \in [Proc -> Nat]
          /\ sched' \in [Proc -> Nat] /\ ctime' \in [Proc -> Nat]
      <4>1. 0 \in Nat /\ 0 \in Int /\ 50 \in Int BY SMT
      <4>2. static' \in [Proc -> Int] /\ dyn' \in [Proc -> Int]
        BY ZenonT(60), <1>0, <1>2, <4>1 DEF TypeOK, Fork
      <4>3. rtime' \in [Proc -> Nat] /\ wtime' \in [Proc -> Nat] /\ stime' \in [Proc -> Nat]
        BY ZenonT(60), <1>0, <1>2, <4>1 DEF TypeOK, Fork
      <4>4. sched' \in [Proc -> Nat] /\ ctime' \in [Proc -> Nat]
        BY ZenonT(60), <1>0, <1>2, <4>1 DEF TypeOK, Fork
      <4>. QED BY ZenonT(60), <4>2, <4>3, <4>4
    <3>4. call' \in [Proc -> {"none", "setpriority", "fork"}] /\ target' \in [Proc -> Proc \cup {NoProc}]
      BY ZenonT(60), <1>0, <1>2, EnterTypes DEF Fork
    <3>. QED BY ZenonT(60), <1>0, <1>2, <3>1, <3>2, <3>3, <3>4 DEF TypeOK, Fork, cpuVars, clockVars
  <2>2. /\ lock[p] = NoCpu /\ Touch({p})
        /\ UNCHANGED <<lock, pc, at, best, prio, cur>>
        /\ state'[p] # "RUNNING" /\ state[p] # "RUNNING"
    BY ZenonT(60), <1>0, <1>2 DEF Fork, TypeOK, cpuVars
  <2>3. \A q \in Proc \ {p} : Same(q) BY ZenonT(60), <1>0, <1>2 DEF Fork, Same, TypeOK
  <2>. QED BY ZenonT(60), <2>1, <2>2, <2>3, OneSlotStep
<1>3. CASE Reap(c, p)
  <2>1. TypeOK'
    <3>1. seen' \in [CPU -> SUBSET Proc] BY ZenonT(60), <1>0, <1>3 DEF TypeOK, Reap, Touch
    <3>2. state' \in [Proc -> {"UNUSED", "USED", "SLEEPING", "RUNNABLE", "RUNNING", "ZOMBIE"}]
      BY ZenonT(60), <1>0, <1>3 DEF TypeOK, Reap
    <3>3. /\ static' \in [Proc -> Int] /\ dyn' \in [Proc -> Int]
          /\ rtime' \in [Proc -> Nat] /\ wtime' \in [Proc -> Nat] /\ stime' \in [Proc -> Nat]
          /\ sched' \in [Proc -> Nat]
      <4>1. 0 \in Nat /\ 0 \in Int /\ 50 \in Int BY SMT
      <4>2. static' \in [Proc -> Int] /\ dyn' \in [Proc -> Int]
        BY ZenonT(60), <1>0, <1>3, <4>1 DEF TypeOK, Reap
      <4>3. rtime' \in [Proc -> Nat] /\ wtime' \in [Proc -> Nat] /\ stime' \in [Proc -> Nat]
        BY ZenonT(60), <1>0, <1>3, <4>1 DEF TypeOK, Reap
      <4>4. sched' \in [Proc -> Nat]
        BY ZenonT(60), <1>0, <1>3, <4>1 DEF TypeOK, Reap
      <4>. QED BY ZenonT(60), <4>2, <4>3, <4>4
    <3>4. target' \in [Proc -> Proc \cup {NoProc}] BY ZenonT(60), <1>0, <1>3 DEF TypeOK, Reap
    <3>. QED BY ZenonT(60), <1>0, <1>3, <3>1, <3>2, <3>3, <3>4 DEF TypeOK, Reap, cpuVars, clockVars
  <2>2. /\ lock[p] = NoCpu /\ Touch({p})
        /\ UNCHANGED <<lock, pc, at, best, prio, cur>>
        /\ state'[p] # "RUNNING" /\ state[p] # "RUNNING"
    BY ZenonT(60), <1>0, <1>3 DEF Reap, TypeOK, cpuVars
  <2>3. \A q \in Proc \ {p} : Same(q) BY ZenonT(60), <1>0, <1>3 DEF Reap, Same, TypeOK
  <2>. QED BY ZenonT(60), <2>1, <2>2, <2>3, OneSlotStep
<1>4. ASSUME NEW new \in load.statics, SetStatic(c, p, new) PROVE SInv'
  <2>1. TypeOK'
    <3>1. seen' \in [CPU -> SUBSET Proc] BY ZenonT(60), <1>0, <1>4 DEF TypeOK, SetStatic, Touch
    <3>2. static' \in [Proc -> Int]
      BY ZenonT(60), <1>0, <1>4, SchedulerAssumption DEF TypeOK, SetStatic
    <3>3. call' \in [Proc -> {"none", "setpriority", "fork"}] /\ target' \in [Proc -> Proc \cup {NoProc}]
      <4>1. CASE UNCHANGED callVars BY ZenonT(60), <1>0, <4>1 DEF TypeOK, callVars
      <4>2. CASE Enter(c, "setpriority", p) BY ZenonT(60), <1>0, <4>2, EnterTypes
      <4>. QED BY ZenonT(60), <1>4, <4>1, <4>2 DEF SetStatic
    <3>. QED BY ZenonT(60), <1>0, <1>4, <3>1, <3>2, <3>3 DEF TypeOK, SetStatic, cpuVars, clockVars
  <2>2. /\ lock[p] = NoCpu /\ Touch({p})
        /\ UNCHANGED <<state, lock, pc, at, best, prio, cur>>
    BY ZenonT(60), <1>4 DEF SetStatic, cpuVars
  <2>3. \A q \in Proc \ {p} : Same(q) BY ZenonT(60), <1>0, <1>4 DEF SetStatic, Same, TypeOK
  <2>. QED BY ZenonT(60), <2>1, <2>2, <2>3, OneSlotStep
<1>. QED BY ZenonT(60), <1>1, <1>2, <1>3, <1>4
\* A step that changes nothing the scheduler compares: the clock between its
\* loops, and the end of sys_setpriority, which only writes the cached priority.
LEMMA QuietStep ==
  ASSUME SInv, TypeOK',
         UNCHANGED <<state, accounts, lock, at, best, prio, cur, seen>>,
         \A c \in CPU : pc'[c] = pc[c] \/ {pc[c], pc'[c]} \subseteq {"run", "yield"}
  PROVE  SInv'
<1>1. \A q : Same(q) BY ZenonT(60) DEF Same, accounts
<1>. QED BY ZenonT(60), <1>1, SlotStep

\* The clock interrupt takes the lock of each slot that it accounts or wakes.
LEMMA ClockStep ==
  ASSUME SInv, load \in Loads, Clock
  PROVE  SInv'
<1>0. TypeOK /\ Cpu0 \in CPU /\ load.maxTick \in Nat BY ZenonT(60), SchedulerAssumption DEF SInv
<1>1. CASE ClockStart
  <2>1. ticks' \in Nat /\ clk' \in {"idle", "update", "wake"} /\ ci' \in 0 .. NPROC
    BY SMTT(60), Z3T(60), <1>0, <1>1, SchedulerAssumption DEF ClockStart, TypeOK, smaller
  <2>2. TypeOK' BY ZenonT(60), <1>0, <1>1, <2>1 DEF TypeOK, ClockStart, accounts, cpuVars, callVars
  <2>3. UNCHANGED <<state, accounts, lock, pc, at, best, prio, cur, seen>>
    BY ZenonT(60), <1>1 DEF ClockStart, cpuVars
  <2>. QED BY ZenonT(60), <2>2, <2>3, QuietStep
<1>2. CASE ClockUpdate
  <2>0. PICK p : p = ci BY ZenonT(60)
  <2>1. /\ p \in Proc /\ lock[p] = NoCpu /\ p + 1 \in 0 .. NPROC
    <3>1. p \in 0 .. NPROC /\ p < NPROC /\ NPROC \in Nat
      BY ZenonT(60), <1>0, <1>2, <2>0, SchedulerAssumption DEF ClockUpdate, TypeOK
    <3>. QED BY SMTT(60), Z3T(60), <1>2, <2>0, <3>1 DEF ClockUpdate, Proc
  <2>2. ASSUME NEW t \in [Proc -> Nat]
        PROVE  /\ Count(t, p) \in [Proc -> Nat]
               /\ \A q \in Proc \ {p} : Count(t, p)[q] = t[q]
    <3>1. smaller(load.maxTick, t[p] + 1) \in Nat BY <1>0, <2>1 DEF smaller
    <3>2. Count(t, p) = [t EXCEPT ![p] = smaller(load.maxTick, t[p] + 1)] BY DEF Count
    <3>. QED BY ZenonT(60), <3>1, <3>2
  <2>3. /\ rtime' \in {rtime, Count(rtime, p)} /\ wtime' \in {wtime, Count(wtime, p)}
        /\ stime' \in {stime, Count(stime, p)}
        /\ ci' = p + 1 /\ Touch({p})
        /\ UNCHANGED <<state, chan, dyn, static, sched, ctime, lock, cpuVars, callVars, ticks, clk>>
    BY ZenonT(60), <1>2, <2>0 DEF ClockUpdate
  <2>4. rtime \in [Proc -> Nat] /\ wtime \in [Proc -> Nat] /\ stime \in [Proc -> Nat]
    BY ZenonT(60), <1>0 DEF TypeOK
  <2>5. /\ rtime' \in [Proc -> Nat] /\ \A q \in Proc \ {p} : rtime'[q] = rtime[q]
    BY ZenonT(60), <2>2, <2>3, <2>4
  <2>6. /\ wtime' \in [Proc -> Nat] /\ \A q \in Proc \ {p} : wtime'[q] = wtime[q]
    BY ZenonT(60), <2>2, <2>3, <2>4
  <2>7. /\ stime' \in [Proc -> Nat] /\ \A q \in Proc \ {p} : stime'[q] = stime[q]
    BY ZenonT(60), <2>2, <2>3, <2>4
  <2>8. seen' \in [CPU -> SUBSET Proc] BY ZenonT(60), <1>0, <2>3 DEF TypeOK, Touch
  <2>9. TypeOK' BY ZenonT(60), <1>0, <2>1, <2>3, <2>5, <2>6, <2>7, <2>8 DEF TypeOK, cpuVars, callVars
  <2>10. \A q \in Proc \ {p} : Same(q) BY ZenonT(60), <2>3, <2>5, <2>6, <2>7 DEF Same
  <2>11. UNCHANGED <<state, lock, pc, at, best, prio, cur>> BY ZenonT(60), <2>3 DEF cpuVars
  <2>. QED BY ZenonT(60), <2>1, <2>3, <2>9, <2>10, <2>11, OneSlotStep
<1>3. CASE ClockWakeStart
  <2>1. clk' \in {"idle", "update", "wake"} /\ ci' \in 0 .. NPROC
    BY SMTT(60), Z3T(60), <1>3, SchedulerAssumption DEF ClockWakeStart
  <2>2. TypeOK' BY ZenonT(60), <1>0, <1>3, <2>1 DEF TypeOK, ClockWakeStart, accounts, cpuVars, callVars
  <2>3. UNCHANGED <<state, accounts, lock, pc, at, best, prio, cur, seen>>
    BY ZenonT(60), <1>3 DEF ClockWakeStart, cpuVars
  <2>. QED BY <2>2, <2>3, QuietStep
<1>4. CASE ClockWake
  <2>0. PICK p : p = ci OBVIOUS
  <2>1. /\ p \in Proc /\ p + 1 \in 0 .. NPROC
    <3>1. p \in 0 .. NPROC /\ p < NPROC /\ NPROC \in Nat
      BY ZenonT(60), <1>0, <1>4, <2>0, SchedulerAssumption DEF ClockWake, TypeOK
    <3>. QED BY SMTT(60), Z3T(60), <3>1 DEF Proc
  <2>2. ci' = p + 1 /\ UNCHANGED <<chan, dyn, accounts, lock, cpuVars, callVars, ticks, clk>>
    BY ZenonT(60), <1>4, <2>0 DEF ClockWake
  <2>3. CASE UNCHANGED <<state, seen>>
    <3>1. TypeOK' BY ZenonT(60), <1>0, <2>1, <2>2, <2>3 DEF TypeOK, accounts, cpuVars, callVars
    <3>2. UNCHANGED <<state, accounts, lock, pc, at, best, prio, cur, seen>>
      BY ZenonT(60), <2>2, <2>3 DEF cpuVars
    <3>. QED BY <3>1, <3>2, QuietStep
  <2>4. CASE /\ lock[p] = NoCpu /\ state[p] = "SLEEPING"
             /\ state' = [state EXCEPT ![p] = "RUNNABLE"] /\ Touch({p})
    <3>1. seen' \in [CPU -> SUBSET Proc] BY ZenonT(60), <1>0, <2>4 DEF TypeOK, Touch
    <3>2. state' \in [Proc -> {"UNUSED", "USED", "SLEEPING", "RUNNABLE", "RUNNING", "ZOMBIE"}]
      BY ZenonT(60), <1>0, <2>4 DEF TypeOK
    <3>3. TypeOK' BY ZenonT(60), <1>0, <2>1, <2>2, <3>1, <3>2 DEF TypeOK, accounts, cpuVars, callVars
    <3>4. UNCHANGED <<lock, pc, at, best, prio, cur>> BY ZenonT(60), <2>2 DEF cpuVars
    <3>5. \A q \in Proc \ {p} : Same(q) BY ZenonT(60), <1>0, <2>2, <2>4 DEF Same, accounts, TypeOK
    <3>6. state'[p] # "RUNNING" /\ state[p] # "RUNNING" BY ZenonT(60), <1>0, <2>1, <2>4 DEF TypeOK
    <3>. QED BY ZenonT(60), <2>1, <2>4, <3>3, <3>4, <3>5, <3>6, OneSlotStep
  <2>. QED BY ZenonT(60), <1>4, <2>0, <2>3, <2>4 DEF ClockWake
<1>5. CASE ClockEnd
  <2>1. clk' \in {"idle", "update", "wake"} /\ ci' \in 0 .. NPROC
    BY SMTT(60), Z3T(60), <1>5, SchedulerAssumption DEF ClockEnd
  <2>2. pc' = [pc EXCEPT ![Cpu0] = IF pc[Cpu0] = "run" THEN "yield" ELSE pc[Cpu0]]
    BY ZenonT(60), <1>5 DEF ClockEnd
  <2>3. pc' \in [CPU -> {"scan", "start", "run", "yield", "switch"}]
    BY ZenonT(60), <1>0, <2>2 DEF TypeOK
  <2>4. TypeOK' BY ZenonT(60), <1>0, <1>5, <2>1, <2>3 DEF TypeOK, ClockEnd, accounts, callVars
  <2>5. \A d \in CPU : pc'[d] = pc[d] \/ {pc[d], pc'[d]} \subseteq {"run", "yield"}
    BY ZenonT(60), <1>0, <2>2 DEF TypeOK
  <2>6. UNCHANGED <<state, accounts, lock, at, best, prio, cur, seen>> BY ZenonT(60), <1>5 DEF ClockEnd
  <2>. QED BY ZenonT(60), <2>4, <2>5, <2>6, QuietStep
<1>. QED BY ZenonT(60), <1>1, <1>2, <1>3, <1>4, <1>5 DEF Clock

\* A CPU that runs a process has one.
LEMMA RunningProc ==
  ASSUME SInv, NEW c \in CPU, pc[c] # "scan"
  PROVE  cur[c] \in Proc
<1>1. CpuOK(c) /\ cur[c] \in Proc \cup {NoProc} BY ZenonT(60) DEF SInv, TypeOK
<1>. QED BY ZenonT(60), <1>1 DEF CpuOK

\* The unlocked rest of sys_setpriority.
LEMMA SetDynamicStep ==
  ASSUME SInv, NEW c \in CPU, SetDynamic(c)
  PROVE  SInv'
<1>0. TypeOK BY ZenonT(60) DEF SInv
<1>1. PICK p, y : p = target[cur[c]] /\ y \in {"yield", "run"} /\ pc' = [pc EXCEPT ![c] = y]
  BY ZenonT(60) DEF SetDynamic
<1>2. /\ pc[c] = "run"
      /\ call' \in [Proc -> {"none", "setpriority", "fork"}] /\ target' \in [Proc -> Proc \cup {NoProc}]
  BY ZenonT(60), <1>0, EnterTypes DEF SetDynamic, Return
<1>3. cur[c] \in Proc BY ZenonT(60), <1>0, <1>2, RunningProc
<1>4. dyn' \in [Proc -> Int]
  <2>1. CASE p = NoProc BY ZenonT(60), <1>0, <1>1, <2>1 DEF SetDynamic, TypeOK
  <2>2. CASE p # NoProc
    <3>1. p \in Proc BY <1>0, <1>1, <1>3, <2>2 DEF TypeOK
    <3>2. dp_priority(p) \in Int BY ZenonT(60), <1>0, <3>1, DpInt
    <3>3. dyn' = [dyn EXCEPT ![p] = dp_priority(p)] BY ZenonT(60), <1>1, <2>2 DEF SetDynamic
    <3>. QED BY ZenonT(60), <1>0, <3>1, <3>2, <3>3 DEF TypeOK
  <2>. QED BY ZenonT(60), <2>1, <2>2
<1>5. pc' \in [CPU -> {"scan", "start", "run", "yield", "switch"}]
  BY ZenonT(60), <1>0, <1>1 DEF TypeOK
<1>6. UNCHANGED <<state, chan, accounts, lock, at, best, prio, cur, clockVars, seen>>
  BY ZenonT(60) DEF SetDynamic
<1>7. TypeOK' BY ZenonT(60), <1>0, <1>2, <1>4, <1>5, <1>6 DEF TypeOK, accounts, callVars, clockVars
<1>8. \A d \in CPU : pc'[d] = pc[d] \/ {pc[d], pc'[d]} \subseteq {"run", "yield"}
  BY ZenonT(60), <1>0, <1>1, <1>2 DEF TypeOK
<1>. QED BY ZenonT(60), <1>6, <1>7, <1>8, QuietStep

\* The end of fork moves a slot that only this fork can move.
LEMMA ForkDoneStep ==
  ASSUME SInv, ForkOK, NEW c \in CPU, ForkDone(c)
  PROVE  SInv'
<1>0. PICK p : p = target[cur[c]] BY ZenonT(60)
<1>1. TypeOK /\ cur[c] \in Proc BY ZenonT(60), RunningProc DEF SInv, ForkDone
<1>2. p \in Proc /\ state[p] = "USED" BY ZenonT(60), <1>0, <1>1 DEF ForkOK, ForkDone
<1>3. /\ lock[p] = NoCpu
      /\ state' = [state EXCEPT ![p] = "RUNNABLE"]
      /\ Return(c) /\ Touch({p})
      /\ UNCHANGED <<chan, dyn, accounts, lock, cpuVars, clockVars>>
  BY ZenonT(60), <1>0 DEF ForkDone
<1>4. TypeOK'
  <2>1. seen' \in [CPU -> SUBSET Proc] BY ZenonT(60), <1>1, <1>3 DEF TypeOK, Touch
  <2>2. state' \in [Proc -> {"UNUSED", "USED", "SLEEPING", "RUNNABLE", "RUNNING", "ZOMBIE"}]
    BY ZenonT(60), <1>1, <1>3 DEF TypeOK
  <2>3. call' \in [Proc -> {"none", "setpriority", "fork"}] /\ target' \in [Proc -> Proc \cup {NoProc}]
    BY ZenonT(60), <1>1, <1>3, EnterTypes DEF Return
  <2>. QED BY ZenonT(60), <1>1, <1>3, <2>1, <2>2, <2>3 DEF TypeOK, accounts, cpuVars, clockVars
<1>5. \A q \in Proc \ {p} : Same(q) BY ZenonT(60), <1>1, <1>3 DEF Same, accounts, TypeOK
<1>6. state'[p] # "RUNNING" /\ state[p] # "RUNNING" BY ZenonT(60), <1>1, <1>2, <1>3 DEF TypeOK
<1>7. UNCHANGED <<lock, pc, at, best, prio, cur>> BY ZenonT(60), <1>3 DEF cpuVars
<1>. QED BY ZenonT(60), <1>2, <1>3, <1>4, <1>5, <1>6, <1>7, OneSlotStep

\* A step that starts no fork and leaves USED slots alone keeps every fork's
\* hold on its slot.
LEMMA ForksKeep ==
  ASSUME ForkOK,
         \A p \in Proc : call'[p] = "fork" => call[p] = "fork" /\ target'[p] = target[p],
         \A q \in Proc : state[q] = "USED" =>
           state'[q] = "USED" \/ \A p \in Proc : call'[p] = "fork" => target[p] # q
  PROVE  ForkOK'
BY SMTT(60), Z3T(60) DEF ForkOK

\* A step that neither enters nor leaves a call and moves no USED slot.
LEMMA NoCallKeeps ==
  ASSUME ForkOK, UNCHANGED callVars, \A q \in Proc : state[q] = "USED" => state'[q] = "USED"
  PROVE  ForkOK'
BY ZenonT(60), ForksKeep DEF callVars

\* What each step does to forks in progress.
LEMMA NextForkOK ==
  ASSUME SInv, ForkOK, [Next]_vars
  PROVE  ForkOK'
<1>0. TypeOK BY DEF SInv
<1>1. CASE UNCHANGED vars
  BY ZenonT(60), <1>1, NoCallKeeps DEF vars
<1>2. ASSUME NEW c \in CPU, Scan(c) \/ Start(c) \/ SwitchBack(c) PROVE ForkOK'
  BY ZenonT(60), <1>2, NoCallKeeps DEF Scan, Start, SwitchBack
<1>3. ASSUME NEW c \in CPU, Dispatch(c) PROVE ForkOK'
  <2>1. best[c] # NoProc => state[best[c]] = "RUNNABLE" BY ZenonT(60), <1>3 DEF SInv, PickIsBest, Dispatch
  <2>2. \A q \in Proc : state[q] = "USED" => state'[q] = "USED"
    BY ZenonT(60), <1>0, <1>3, <2>1 DEF Dispatch, TypeOK
  <2>. QED BY ZenonT(60), <1>3, <2>2, NoCallKeeps DEF Dispatch
<1>4. ASSUME NEW c \in CPU, SetDynamic(c) PROVE ForkOK'
  <2>1. UNCHANGED state /\ \A p \in Proc : call'[p] = "fork" => call[p] = "fork" /\ target'[p] = target[p]
    BY ZenonT(60), <1>0, <1>4 DEF SetDynamic, Return, Enter, TypeOK
  <2>. QED BY ZenonT(60), <2>1, ForksKeep
<1>5. ASSUME NEW c \in CPU, ForkDone(c) PROVE ForkOK'
  <2>1. cur[c] \in Proc /\ call[cur[c]] = "fork" BY ZenonT(60), <1>5, RunningProc DEF ForkDone
  <2>2. \A p \in Proc : call'[p] = "fork" => p # cur[c] /\ call[p] = "fork" /\ target'[p] = target[p]
    BY ZenonT(60), <1>0, <1>5, <2>1 DEF ForkDone, Return, Enter, TypeOK
  <2>3. ASSUME NEW q \in Proc, state[q] = "USED"
        PROVE  state'[q] = "USED" \/ \A p \in Proc : call'[p] = "fork" => target[p] # q
    <3>1. CASE q = target[cur[c]] BY ZenonT(60), <2>1, <2>2, <3>1 DEF ForkOK
    <3>2. CASE q # target[cur[c]] BY ZenonT(60), <1>0, <1>5, <2>3, <3>2 DEF ForkDone, TypeOK
    <3>. QED BY ZenonT(60), <3>1, <3>2
  <2>. QED BY ZenonT(60), <2>2, <2>3, ForksKeep
<1>6. ASSUME NEW c \in CPU, NEW s, NEW ch, pc[c] \in {"run", "yield"}, Leave(c, s, ch) PROVE ForkOK'
  <2>1. CpuOK(c) BY ZenonT(60) DEF SInv
  <2>2. state[cur[c]] = "RUNNING" BY ZenonT(60), <1>6, <2>1 DEF CpuOK
  <2>3. \A q \in Proc : state[q] = "USED" => state'[q] = "USED"
    BY ZenonT(60), <1>0, <1>6, <2>2 DEF Leave, TypeOK
  <2>. QED BY ZenonT(60), <1>6, <2>3, NoCallKeeps DEF Leave
<1>7. ASSUME NEW c \in CPU, NEW p \in Proc,
             Wakeup(c, p) \/ Reap(c, p) \/ \E new \in load.statics : SetStatic(c, p, new)
      PROVE  ForkOK'
  <2>1. \A q \in Proc : state[q] = "USED" => state'[q] = "USED"
    BY ZenonT(60), <1>0, <1>7 DEF Wakeup, Reap, SetStatic, TypeOK
  <2>2. \A q \in Proc : call'[q] = "fork" => call[q] = "fork" /\ target'[q] = target[q]
    <3>1. CASE Wakeup(c, p) BY ZenonT(60), <3>1 DEF Wakeup, callVars
    <3>2. CASE Reap(c, p) BY ZenonT(60), <1>0, <3>2 DEF Reap, ForkOK, TypeOK
    <3>3. ASSUME NEW new \in load.statics, SetStatic(c, p, new)
          PROVE  \A q \in Proc : call'[q] = "fork" => call[q] = "fork" /\ target'[q] = target[q]
      <4>1. CASE UNCHANGED callVars BY ZenonT(60), <4>1 DEF callVars
      <4>2. CASE Enter(c, "setpriority", p) BY ZenonT(60), <1>0, <4>2 DEF Enter, TypeOK
      <4>. QED BY ZenonT(60), <3>3, <4>1, <4>2 DEF SetStatic
    <3>. QED BY ZenonT(60), <1>7, <3>1, <3>2, <3>3
  <2>. QED BY ZenonT(60), <2>1, <2>2, ForksKeep
<1>8. ASSUME NEW c \in CPU, NEW p \in Proc, Fork(c, p) PROVE ForkOK'
  <2>0. cur[c] \in Proc BY ZenonT(60), <1>8, RunningProc DEF Fork, Ready
  <2>1. PICK r \in Proc : r = cur[c] BY ZenonT(60), <2>0
  <2>2. /\ call'[r] = "fork" /\ target'[r] = p /\ state'[p] = "USED" /\ state[p] = "UNUSED"
        /\ \A q \in Proc \ {p} : state'[q] = state[q]
        /\ \A q \in Proc \ {r} : call'[q] = call[q] /\ target'[q] = target[q]
    BY ZenonT(60), <1>0, <1>8, <2>1 DEF Fork, Enter, TypeOK
  <2>3. \A q \in Proc \ {r} : call'[q] = "fork" => target[q] # p /\ target[q] \in Proc
    BY ZenonT(60), <2>2 DEF ForkOK
  <2>. QED BY SMTT(60), Z3T(60), <2>2, <2>3 DEF ForkOK
<1>9. CASE Clock
  <2>1. UNCHANGED callVars
    BY ZenonT(60), <1>9 DEF Clock, ClockStart, ClockUpdate, ClockWakeStart, ClockWake, ClockEnd
  <2>2. \A q \in Proc : state[q] = "USED" => state'[q] = "USED"
    BY ZenonT(60), <1>0, <1>9 DEF Clock, ClockStart, ClockUpdate, ClockWakeStart, ClockWake, ClockEnd, TypeOK
  <2>. QED BY ZenonT(60), <2>1, <2>2, NoCallKeeps
<1>10. ASSUME NEW c \in CPU, CpuStep(c) \/ Yield(c) PROVE ForkOK'
  BY SMTT(60), Z3T(60), <1>2, <1>3, <1>4, <1>5, <1>6, <1>10 DEF CpuStep, Yield
<1>11. ASSUME NEW c \in CPU, Behaviour(c) PROVE ForkOK'
  <2>1. ASSUME NEW ch, Sleep(c, ch) PROVE ForkOK' BY SMTT(60), Z3T(60), <1>6, <2>1 DEF Sleep, Ready
  <2>2. CASE Exit(c) BY SMTT(60), Z3T(60), <1>6, <2>2 DEF Exit, Ready
  <2>. QED BY ZenonT(60), <1>7, <1>8, <1>11, <2>1, <2>2 DEF Behaviour
<1>. QED BY <1>1, <1>9, <1>10, <1>11 DEF Next

\* Every step of every CPU keeps the invariant.
LEMMA NextSInv ==
  ASSUME SInv, ForkOK, load \in Loads, [Next]_vars
  PROVE  SInv'
<1>1. CASE UNCHANGED vars
  <2>1. UNCHANGED <<state, accounts, lock, pc, at, best, prio, cur, seen>>
    BY ZenonT(60), <1>1 DEF vars, cpuVars
  <2>2. TypeOK' BY ZenonT(60), <1>1 DEF SInv, TypeOK, vars, accounts, cpuVars, callVars, clockVars
  <2>. QED BY ZenonT(60), <2>1, <2>2, QuietStep
<1>2. ASSUME NEW c \in CPU, CpuStep(c) PROVE SInv'
  BY ZenonT(60), <1>2, ScanStep, DispatchStep, StartStep, SwitchBackStep, SetDynamicStep, ForkDoneStep DEF CpuStep
<1>3. ASSUME NEW c \in CPU, Yield(c) PROVE SInv'
  BY ZenonT(60), <1>3, LeaveStep DEF Yield
<1>4. ASSUME NEW c \in CPU, Behaviour(c) PROVE SInv'
  <2>1. ASSUME NEW ch \in {"ticks", "event"}, Sleep(c, ch) PROVE SInv'
    BY ZenonT(60), <2>1, LeaveStep DEF Sleep, Ready
  <2>2. CASE Exit(c) BY ZenonT(60), <2>2, LeaveStep DEF Exit, Ready
  <2>3. ASSUME NEW p \in Proc,
               Wakeup(c, p) \/ Fork(c, p) \/ Reap(c, p) \/ \E new \in load.statics : SetStatic(c, p, new)
        PROVE  SInv'
    BY <2>3, BehaviourStep
  <2>. QED BY ZenonT(60), <1>4, <2>1, <2>2, <2>3 DEF Behaviour
<1>. QED BY ZenonT(60), <1>1, <1>2, <1>3, <1>4, ClockStep DEF Next

\* The invariant of the scheduler holds for any number of slots and CPUs and
\* any static priorities.
THEOREM SchedulerInvariance == Spec => []SchedInv
<1>1. Init => SchedInv BY ZenonT(60), InitSInv DEF SchedInv, ForkOK, Init
<1>2. SchedInv /\ [Next]_vars => SchedInv' BY ZenonT(60), NextSInv, NextForkOK DEF SchedInv, Next, vars
<1>. QED BY <1>1, <1>2, PTL DEF Spec

\* No kernel stack is in use on two CPUs: the lock handed over across swtch by
\* scheduler() and sched() is enough.
THEOREM StacksAlone == Spec => []OneStack
<1>1. SchedInv => OneStack BY ZenonT(60) DEF SchedInv, SInv
<1>. QED BY <1>1, SchedulerInvariance, PTL

\* The scan of every CPU ends with the best slot of those it has seen, by
\* priority, number of runs, age and slot, whatever other CPUs do meanwhile.
THEOREM BestPicked == Spec => []PickIsBest
<1>1. SchedInv => PickIsBest BY ZenonT(60) DEF SchedInv, SInv
<1>. QED BY <1>1, SchedulerInvariance, PTL

\* The accounts, priorities and per-CPU state keep their types.
THEOREM SchedulerTypes == Spec => []TypeOK
<1>1. SchedInv => TypeOK BY DEF SchedInv, SInv
<1>. QED BY <1>1, SchedulerInvariance, PTL
=============================================================================
