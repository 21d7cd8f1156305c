----------------------------- MODULE Scheduler -----------------------------
(***************************************************************************)
(* The priority scheduler of proc.c (built with PBS): every CPU scans the  *)
(* process table, holding the lock of its best candidate while it takes    *)
(* the locks of later slots, and switches to the winner with that lock     *)
(* held.  Around it: yield, sleep, wakeup and exit up to the switch back,  *)
(* the clock interrupt that accounts time, setpriority, and the reset of   *)
(* the accounts when a slot is freed and used again.                       *)
(*                                                                         *)
(* A section under a single p->lock is one step.  The locks that outlive a *)
(* step are those of candidates and of processes in swtch.                 *)
(***************************************************************************)
EXTENDS Integers, FiniteSets

CONSTANTS NPROC,     \* slots of the process table
          CPU, Cpu0, \* the harts; the clock interrupt is served by Cpu0
          NoCpu,
          MaxSched,  \* pbs_num_sched stops counting here
          Loads      \* what the programs do, see load

Proc == 0 .. NPROC - 1
NoProc == NPROC

ASSUME SchedulerAssumption ==
  /\ NPROC \in Nat \ {0} /\ MaxSched \in Nat
  /\ Cpu0 \in CPU /\ NoCpu \notin CPU
  /\ \A l \in Loads : l.maxTick \in Nat /\ l.statics \subseteq Int

VARIABLES
  load,  \* never changes: ops, what running processes do besides computing; statics, the
         \* priorities for setpriority; maxTick, where ticks and accounts stop counting
  state, chan, static, dyn,         \* struct proc
  rtime, wtime, stime, sched, ctime, \* pbs_rtime, ..., pbs_num_sched, ctime
  lock,                             \* holder of p->lock
  pc, at, best, prio, cur,          \* each CPU: its scheduler thread and c->proc
  call, target,                     \* each process: the call it is in and the slot that is about
  ticks, clk, ci,                   \* the clock interrupt in progress
  seen    \* slots that the scan of a CPU has found RUNNABLE and nobody changed since

accounts == <<static, rtime, wtime, stime, sched, ctime>>
cpuVars == <<pc, at, best, prio, cur>>
callVars == <<call, target>>
clockVars == <<ticks, clk, ci>>
vars == <<load, state, chan, dyn, accounts, lock, cpuVars, callVars, clockVars, seen>>

\* No CPU can rely any more on what it has seen of the slots in S.
Touch(S) == seen' = [c \in CPU |-> seen[c] \ S]

Init ==
  /\ load \in Loads
  /\ state = [p \in Proc |-> IF p = 0 THEN "RUNNABLE" ELSE "UNUSED"]
  /\ chan = [p \in Proc |-> "none"]
  /\ static = [p \in Proc |-> IF p = 0 THEN 50 ELSE 0]
  /\ dyn = [p \in Proc |-> 0]
  /\ rtime = [p \in Proc |-> 0] /\ wtime = [p \in Proc |-> 0] /\ stime = [p \in Proc |-> 0]
  /\ sched = [p \in Proc |-> 0] /\ ctime = [p \in Proc |-> 0]
  /\ lock = [p \in Proc |-> NoCpu]
  /\ pc = [c \in CPU |-> "scan"]
  /\ at = [c \in CPU |-> 0]
  /\ best = [c \in CPU |-> NoProc] /\ prio = [c \in CPU |-> 101]
  /\ cur = [c \in CPU |-> NoProc]
  /\ call = [p \in Proc |-> "none"] /\ target = [p \in Proc |-> NoProc]
  /\ ticks = 0 /\ clk = "idle" /\ ci = 0
  /\ seen = [c \in CPU |-> {}]
-----------------------------------------------------------------------------
(***************************************************************************)
(* The dynamic priority                                                    *)
(***************************************************************************)
larger(a, b) == IF a > b THEN a ELSE b
smaller(a, b) == IF a < b THEN a ELSE b

\* C truncates and \div rounds down; both are at most 0 for a negative dividend.
rbi(r, w, s) == larger(0, ((3 * r - w - s) * 50) \div (1 + r + s + w))
dp_priority(p) == smaller(100, static[p] + rbi(rtime[p], wtime[p], stime[p]))

\* The tie break of the scan: fewer runs first, then the older process.
FewerOrOlder(p, q) == \/ sched[p] < sched[q]
                      \/ sched[p] = sched[q] /\ ctime[p] < ctime[q]
-----------------------------------------------------------------------------
(***************************************************************************)
(* scheduler()                                                             *)
(***************************************************************************)
\* CPU 0 does nothing else while it serves the clock interrupt.
Free(c) == c = Cpu0 => clk = "idle"

\* The slot that the scan has reached becomes the candidate: its lock is kept
\* and that of the old candidate released.
Prefer(c, p, dp) ==
  /\ best' = [best EXCEPT ![c] = p]
  /\ prio' = [prio EXCEPT ![c] = dp]
  /\ lock' = [q \in Proc |-> IF q = p THEN c ELSE IF q = best[c] THEN NoCpu ELSE lock[q]]

Wins(c, p, dp) == \/ best[c] = NoProc
                  \/ dp < prio[c]
                  \/ dp = prio[c] /\ FewerOrOlder(p, best[c])

\* One round of the loop over the table.
Scan(c) ==
  LET p == at[c]
      dp == dp_priority(p)
  IN /\ Free(c) /\ pc[c] = "scan" /\ p < NPROC
     /\ lock[p] = NoCpu
     /\ at' = [at EXCEPT ![c] = p + 1]
     /\ IF state[p] = "RUNNABLE"
        THEN /\ dyn' = [dyn EXCEPT ![p] = dp]
             /\ seen' = [seen EXCEPT ![c] = @ \cup {p}]
             /\ IF Wins(c, p, dp) THEN Prefer(c, p, dp) ELSE UNCHANGED <<best, prio, lock>>
        ELSE UNCHANGED <<dyn, seen, best, prio, lock>>
     /\ UNCHANGED <<state, chan, accounts, pc, cur, callVars, clockVars>>

\* After the loop: run the winner, or start again.
Dispatch(c) ==
  LET p == best[c]
  IN /\ Free(c) /\ pc[c] = "scan" /\ at[c] = NPROC
     /\ IF p = NoProc
        THEN /\ at' = [at EXCEPT ![c] = 0]
             /\ seen' = [seen EXCEPT ![c] = {}]
             /\ UNCHANGED <<state, rtime, wtime, stime, sched, pc, cur>>
        ELSE /\ state' = [state EXCEPT ![p] = "RUNNING"]
             /\ cur' = [cur EXCEPT ![c] = p]
             /\ sched' = [sched EXCEPT ![p] = smaller(MaxSched, @ + 1)]
             /\ rtime' = [rtime EXCEPT ![p] = 0]
             /\ wtime' = [wtime EXCEPT ![p] = 0]
             /\ stime' = [stime EXCEPT ![p] = 0]
             /\ pc' = [pc EXCEPT ![c] = "start"]
             /\ Touch({p})
             /\ UNCHANGED at
     /\ UNCHANGED <<chan, static, dyn, ctime, lock, best, prio, callVars, clockVars>>

\* The process runs on its own stack and releases the lock that the scheduler
\* took: forkret, yield and sleep.
Start(c) ==
  /\ Free(c) /\ pc[c] = "start"
  /\ lock' = [lock EXCEPT ![cur[c]] = NoCpu]
  /\ chan' = [chan EXCEPT ![cur[c]] = "none"]
  /\ pc' = [pc EXCEPT ![c] = "run"]
  /\ UNCHANGED <<state, dyn, accounts, at, best, prio, cur, callVars, clockVars, seen>>

\* swtch has saved the process; its CPU is back in scheduler().
SwitchBack(c) ==
  /\ Free(c) /\ pc[c] = "switch"
  /\ lock' = [lock EXCEPT ![cur[c]] = NoCpu]
  /\ cur' = [cur EXCEPT ![c] = NoProc]
  /\ best' = [best EXCEPT ![c] = NoProc]
  /\ prio' = [prio EXCEPT ![c] = 101]
  /\ at' = [at EXCEPT ![c] = 0]
  /\ pc' = [pc EXCEPT ![c] = "scan"]
  /\ seen' = [seen EXCEPT ![c] = {}]
  /\ UNCHANGED <<state, chan, dyn, accounts, callVars, clockVars>>
-----------------------------------------------------------------------------
(***************************************************************************)
(* The running process                                                     *)
(***************************************************************************)
\* Variant: p->lock is released before the switch.
Leave_Unlocked(c, s, ch) ==
  /\ lock[cur[c]] = NoCpu
  /\ state' = [state EXCEPT ![cur[c]] = s]
  /\ chan' = [chan EXCEPT ![cur[c]] = ch]
  /\ pc' = [pc EXCEPT ![c] = "switch"]
  /\ Touch({cur[c]})
  /\ UNCHANGED <<dyn, accounts, lock, at, best, prio, cur, callVars, clockVars>>

\* Acquire p->lock, change the state and call sched().
Leave(c, s, ch) ==
  LET p == cur[c]
  IN /\ lock[p] = NoCpu
     /\ lock' = [lock EXCEPT ![p] = c]
     /\ state' = [state EXCEPT ![p] = s]
     /\ chan' = [chan EXCEPT ![p] = ch]
     /\ pc' = [pc EXCEPT ![c] = "switch"]
     /\ Touch({p})
     /\ UNCHANGED <<dyn, accounts, at, best, prio, cur, callVars, clockVars>>

\* yield(), after the clock interrupt or by sys_setpriority; the timer of any
\* other CPU only makes it yield.  It comes in the middle of a call too.
Yield(c) == /\ Free(c)
            /\ pc[c] = "yield" \/ (c # Cpu0 /\ pc[c] = "run")
            /\ Leave(c, "RUNNABLE", "none")

\* The process of the CPU runs and is at the start of a call.
Ready(c) == Free(c) /\ pc[c] = "run" /\ call[cur[c]] = "none"

\* sleep() until the next tick (sys_sleep) or until some other event.
Sleep(c, ch) == Ready(c) /\ Leave(c, "SLEEPING", ch)

\* The end of exit().
Exit(c) == Ready(c) /\ Leave(c, "ZOMBIE", "none")

\* A CPU with interrupts on: in user or kernel code of a process, or in the
\* scheduler while it holds no candidate.
Interruptible(c) == pc[c] = "run" \/ (pc[c] = "scan" /\ best[c] = NoProc)

\* The process of the CPU enters the window of a call that is about slot p, or leaves it.
Enter(c, what, p) ==
  /\ call' = [call EXCEPT ![cur[c]] = what]
  /\ target' = [target EXCEPT ![cur[c]] = p]
Return(c) == Enter(c, "none", NoProc)

\* wakeup() of one sleeper, by a process or by a device interrupt.
Wakeup(c, p) ==
  /\ Free(c) /\ Interruptible(c) /\ p # cur[c]
  /\ lock[p] = NoCpu /\ state[p] = "SLEEPING" /\ chan[p] = "event"
  /\ state' = [state EXCEPT ![p] = "RUNNABLE"]
  /\ Touch({p})
  /\ UNCHANGED <<chan, dyn, accounts, lock, cpuVars, callVars, clockVars>>

\* fork(): allocproc resets the accounts; the slot stays USED while its lock is
\* free and fork() sets the parent.
Fork(c, p) ==
  /\ Ready(c) /\ lock[p] = NoCpu /\ state[p] = "UNUSED"
  /\ state' = [state EXCEPT ![p] = "USED"]
  /\ static' = [static EXCEPT ![p] = 50]
  /\ dyn' = [dyn EXCEPT ![p] = 0]
  /\ rtime' = [rtime EXCEPT ![p] = 0]
  /\ wtime' = [wtime EXCEPT ![p] = 0]
  /\ stime' = [stime EXCEPT ![p] = 0]
  /\ sched' = [sched EXCEPT ![p] = 0]
  /\ ctime' = [ctime EXCEPT ![p] = ticks]
  /\ Enter(c, "fork", p)
  /\ Touch({p})
  /\ UNCHANGED <<chan, lock, cpuVars, clockVars>>

\* The end of fork(): the child becomes RUNNABLE.
ForkDone(c) ==
  LET p == target[cur[c]]
  IN /\ Free(c) /\ pc[c] = "run" /\ call[cur[c]] = "fork" /\ lock[p] = NoCpu
     /\ state' = [state EXCEPT ![p] = "RUNNABLE"]
     /\ Return(c)
     /\ Touch({p})
     /\ UNCHANGED <<chan, dyn, accounts, lock, cpuVars, clockVars>>

\* wait() finds a zombie and calls freeproc().
Reap(c, p) ==
  /\ Ready(c) /\ lock[p] = NoCpu /\ state[p] = "ZOMBIE"
  /\ state' = [state EXCEPT ![p] = "UNUSED"]
  /\ static' = [static EXCEPT ![p] = 0]
  /\ dyn' = [dyn EXCEPT ![p] = 0]
  /\ rtime' = [rtime EXCEPT ![p] = 0]
  /\ wtime' = [wtime EXCEPT ![p] = 0]
  /\ stime' = [stime EXCEPT ![p] = 0]
  /\ sched' = [sched EXCEPT ![p] = 0]
  \* the pid that a setpriority in progress looks for is gone
  /\ target' = [q \in Proc |-> IF target[q] = p THEN NoProc ELSE target[q]]
  /\ Touch({p})
  /\ UNCHANGED <<chan, ctime, lock, cpuVars, call, clockVars>>

\* Variant: setpriority does not take p->lock.
SetStatic_Unlocked(c, p, new) ==
  /\ Ready(c) /\ state[p] # "UNUSED"
  /\ static' = [static EXCEPT ![p] = new]
  /\ IF static[p] = -1 THEN UNCHANGED callVars ELSE Enter(c, "setpriority", p)
  /\ Touch({p})
  /\ UNCHANGED <<state, chan, dyn, rtime, wtime, stime, sched, ctime, lock, cpuVars, clockVars>>

\* setpriority() under the lock of the slot with the pid.  An old priority of -1 is taken
\* for "not found".  Pid 0, which is that of the free slots, is left out: allocproc sets
\* the priorities of such a slot before anybody looks at them.
SetStatic(c, p, new) ==
  /\ Ready(c) /\ lock[p] = NoCpu /\ state[p] # "UNUSED"
  /\ static' = [static EXCEPT ![p] = new]
  /\ IF static[p] = -1 THEN UNCHANGED callVars ELSE Enter(c, "setpriority", p)
  /\ Touch({p})
  /\ UNCHANGED <<state, chan, dyn, rtime, wtime, stime, sched, ctime, lock, cpuVars, clockVars>>

\* The rest of sys_setpriority, without a lock: recompute the priority and
\* yield if it has become better.
SetDynamic(c) ==
  LET p == target[cur[c]]
      dp == dp_priority(p)
  IN /\ Free(c) /\ pc[c] = "run" /\ call[cur[c]] = "setpriority"
     /\ IF p = NoProc THEN UNCHANGED dyn ELSE dyn' = [dyn EXCEPT ![p] = dp]
     /\ pc' = [pc EXCEPT ![c] = IF p # NoProc /\ dp < dyn[p] THEN "yield" ELSE "run"]
     /\ Return(c)
     /\ UNCHANGED <<state, chan, accounts, lock, at, best, prio, cur, clockVars, seen>>
-----------------------------------------------------------------------------
(***************************************************************************)
(* clockintr() on CPU 0                                                    *)
(***************************************************************************)
ClockStart ==
  /\ clk = "idle" /\ Interruptible(Cpu0)
  /\ ticks' = smaller(load.maxTick, ticks + 1)
  /\ clk' = "update" /\ ci' = 0
  /\ UNCHANGED <<state, chan, dyn, accounts, lock, cpuVars, callVars, seen>>

Count(times, p) == [times EXCEPT ![p] = smaller(load.maxTick, @ + 1)]

\* update_time(): one slot of the loop.
ClockUpdate ==
  /\ clk = "update" /\ ci < NPROC /\ lock[ci] = NoCpu
  /\ rtime' = IF state[ci] = "RUNNING" THEN Count(rtime, ci) ELSE rtime
  /\ wtime' = IF state[ci] = "RUNNABLE" THEN Count(wtime, ci) ELSE wtime
  /\ stime' = IF state[ci] = "SLEEPING" THEN Count(stime, ci) ELSE stime
  /\ ci' = ci + 1
  /\ Touch({ci})
  /\ UNCHANGED <<state, chan, dyn, static, sched, ctime, lock, cpuVars, callVars, ticks, clk>>

ClockWakeStart ==
  /\ clk = "update" /\ ci = NPROC
  /\ clk' = "wake" /\ ci' = 0
  /\ UNCHANGED <<state, chan, dyn, accounts, lock, cpuVars, callVars, ticks, seen>>

\* wakeup(&ticks): one slot of the loop; it skips the interrupted process.
ClockWake ==
  /\ clk = "wake" /\ ci < NPROC
  /\ ci = cur[Cpu0] \/ lock[ci] = NoCpu
  /\ IF ci # cur[Cpu0] /\ state[ci] = "SLEEPING" /\ chan[ci] = "ticks"
     THEN state' = [state EXCEPT ![ci] = "RUNNABLE"] /\ Touch({ci})
     ELSE UNCHANGED <<state, seen>>
  /\ ci' = ci + 1
  /\ UNCHANGED <<chan, dyn, accounts, lock, cpuVars, callVars, ticks, clk>>

\* usertrap and kerneltrap: give up the CPU after a timer interrupt.
ClockEnd ==
  /\ clk = "wake" /\ ci = NPROC
  /\ clk' = "idle" /\ ci' = 0
  /\ pc' = [pc EXCEPT ![Cpu0] = IF @ = "run" THEN "yield" ELSE @]
  /\ UNCHANGED <<state, chan, dyn, accounts, lock, at, best, prio, cur, callVars, ticks, seen>>

Clock == ClockStart \/ ClockUpdate \/ ClockWakeStart \/ ClockWake \/ ClockEnd
-----------------------------------------------------------------------------
CpuStep(c) == Scan(c) \/ Dispatch(c) \/ Start(c) \/ SwitchBack(c) \/ SetDynamic(c) \/ ForkDone(c)

Behaviour(c) ==
  \/ "sleep" \in load.ops /\ \E ch \in {"ticks", "event"} : Sleep(c, ch)
  \/ "sleep" \in load.ops /\ \E p \in Proc : Wakeup(c, p)
  \/ "exit" \in load.ops /\ (Exit(c) \/ \E p \in Proc : Reap(c, p))
  \/ "fork" \in load.ops /\ \E p \in Proc : Fork(c, p)
  \/ \E p \in Proc, new \in load.statics : SetStatic(c, p, new)

Next == /\ Clock \/ \E c \in CPU : CpuStep(c) \/ Yield(c) \/ Behaviour(c)
        /\ UNCHANGED load

Spec == Init /\ [][Next]_vars
-----------------------------------------------------------------------------
TypeOK ==
  /\ state \in [Proc -> {"UNUSED", "USED", "SLEEPING", "RUNNABLE", "RUNNING", "ZOMBIE"}]
  /\ chan \in [Proc -> {"none", "ticks", "event"}]
  /\ static \in [Proc -> Int] /\ dyn \in [Proc -> Int]
  /\ rtime \in [Proc -> Nat] /\ wtime \in [Proc -> Nat] /\ stime \in [Proc -> Nat]
  /\ sched \in [Proc -> Nat] /\ ctime \in [Proc -> Nat]
  /\ lock \in [Proc -> CPU \cup {NoCpu}]
  /\ pc \in [CPU -> {"scan", "start", "run", "yield", "switch"}]
  /\ at \in [CPU -> 0 .. NPROC]
  /\ best \in [CPU -> Proc \cup {NoProc}] /\ prio \in [CPU -> Int]
  /\ cur \in [CPU -> Proc \cup {NoProc}]
  /\ call \in [Proc -> {"none", "setpriority", "fork"}] /\ target \in [Proc -> Proc \cup {NoProc}]
  /\ ticks \in Nat /\ clk \in {"idle", "update", "wake"} /\ ci \in 0 .. NPROC
  /\ seen \in [CPU -> SUBSET Proc]

\* A kernel stack is used by one CPU at a time: no CPU switches to a process
\* that another CPU runs or is still saving (the lock that scheduler() and
\* sched() hand to each other across swtch).
OneStack ==
  \A c, d \in CPU : c # d /\ cur[c] # NoProc => cur[c] # cur[d]

\* The order that the scheduler means: dynamic priority, number of runs,
\* creation time, slot.
Before(q, p) ==
  \/ dp_priority(q) < dp_priority(p)
  \/ /\ dp_priority(q) = dp_priority(p)
     /\ FewerOrOlder(q, p) \/ (~FewerOrOlder(p, q) /\ q < p)

\* The winner of a scan is RUNNABLE and no slot that the scan found RUNNABLE and
\* that has not changed since comes before it, though other CPUs scan, tick and
\* change priorities meanwhile.
PickIsBest ==
  \A c \in CPU : pc[c] = "scan" /\ best[c] # NoProc =>
    /\ state[best[c]] = "RUNNABLE"
    /\ \A q \in seen[c] : ~Before(q, best[c])

\* What the proof of OneStack and PickIsBest needs.  A lock that outlives a step
\* belongs to a candidate or to a process in swtch, which is why the accounts of
\* a candidate stand still and why nobody can pick a process that has not left
\* its stack.
LockHeld(c, p) == \/ pc[c] = "scan" /\ best[c] = p
                  \/ pc[c] \in {"start", "switch"} /\ cur[c] = p
CpuOK(c) ==
  /\ pc[c] = "scan" <=> cur[c] = NoProc
  /\ pc[c] \in {"start", "run", "yield"} => state[cur[c]] = "RUNNING"
  /\ pc[c] = "switch" => state[cur[c]] # "RUNNING"
  /\ \A q \in seen[c] : q < at[c]
  /\ pc[c] = "scan" /\ best[c] = NoProc => seen[c] = {}
  /\ pc[c] = "scan" /\ best[c] # NoProc => best[c] < at[c] /\ prio[c] = dp_priority(best[c])
SInv == /\ TypeOK
        /\ \A c \in CPU, p \in Proc : lock[p] = c <=> LockHeld(c, p)
        /\ \A c \in CPU : CpuOK(c)
        /\ OneStack
        /\ PickIsBest

\* A slot that fork() has left USED belongs to one fork and nobody else moves it.
ForkOK ==
  \A p \in Proc : call[p] = "fork" =>
    /\ target[p] \in Proc /\ state[target[p]] = "USED"
    /\ \A q \in Proc : q # p /\ call[q] = "fork" => target[q] # target[p]
SchedInv == SInv /\ ForkOK /\ load \in Loads
=============================================================================
