--------------------------- MODULE ProcLifeProofs ---------------------------
(***************************************************************************)
(* IInv of ProcLife is an invariant for every number of slots and pids, and*)
(* what follows from it.  One lemma per action; a step of a lemma is a     *)
(* conjunct of IInv, with the other conjuncts that it needs.               *)
(***************************************************************************)
EXTENDS ProcLife, TLAPS

\* The slot of init exists, and the null pointer is no slot.
LEMMA Slots == initproc \in Proc /\ NoProc \notin Proc /\ Proc \subseteq Nat
BY ProcAssumption DEF Proc, NoProc, initproc

\* fork takes a free slot, which nobody else is filling and which has no parent.
LEMMA ForkAllocStep ==
  ASSUME IInv, NEW p \in Proc, NEW c \in Proc, ForkAlloc(p, c)
  PROVE  IInv'
<1>. USE Slots DEF IInv, TypeOK, ForkAlloc, Goto, InUser, allocpid
<1>1. TypeOK' BY SMTT(30) DEF Label
<1>2. StateOK' BY SMTT(30) DEF StateOK
<1>3. ForkOK' BY SMTT(30) DEF ForkOK, Forking, Label, StateOK, FreeOK
<1>4. FreeOK' BY SMTT(30) DEF FreeOK
<1>5. LockOK' BY SMTT(30) DEF LockOK
<1>6. ParentAlive' BY SMTT(30) DEF ParentAlive
<1>7. ExitOK' BY SMTT(30) DEF ExitOK, Children
<1>8. WaitOK' BY SMTT(30) DEF WaitOK, Children
<1>9. PidOK' BY SMTT(30) DEF PidOK
<1>10. KillOK' BY SMTT(30) DEF KillOK, Label, FreeOK
<1>. QED BY <1>1, <1>2, <1>3, <1>4, <1>5, <1>6, <1>7, <1>8, <1>9, <1>10

\* A fork that runs out of memory leaves the slot as free as it was.
LEMMA ForkFailsStep ==
  ASSUME IInv, NEW p \in Proc, NEW c \in Proc, ForkFails(p, c)
  PROVE  IInv'
<1>. USE Slots DEF IInv, TypeOK, ForkFails, InUser, allocpid
<1>1. TypeOK' BY SMTT(30)
<1>2. StateOK' BY SMTT(30) DEF StateOK
<1>3. ForkOK' BY SMTT(30) DEF ForkOK, Forking
<1>4. FreeOK' BY SMTT(30) DEF FreeOK
<1>5. LockOK' BY SMTT(30) DEF LockOK
<1>6. ParentAlive' BY SMTT(30) DEF ParentAlive
<1>7. ExitOK' BY SMTT(30) DEF ExitOK, Children
<1>8. WaitOK' BY SMTT(30) DEF WaitOK, Children
<1>9. PidOK' BY SMTT(30) DEF PidOK
<1>10. KillOK' BY SMTT(30) DEF KillOK
<1>. QED BY <1>1, <1>2, <1>3, <1>4, <1>5, <1>6, <1>7, <1>8, <1>9, <1>10

\* fork makes the new slot a child of its caller, which is alive.
LEMMA ForkParentStep ==
  ASSUME IInv, NEW p \in Proc, ForkParent(p)
  PROVE  IInv'
<1>. USE Slots DEF IInv, TypeOK, ForkParent, Goto
<1>1. TypeOK' BY SMTT(30) DEF Label, ForkOK, Forking
<1>2. StateOK' BY SMTT(30) DEF StateOK
<1>3. ForkOK' BY SMTT(30) DEF ForkOK, Forking
<1>4. FreeOK' BY SMTT(30) DEF FreeOK, Label, ForkOK, Forking
<1>5. LockOK' BY SMTT(30) DEF LockOK
<1>6. ParentAlive' BY SMTT(30) DEF ParentAlive, Label, StateOK, ForkOK, Forking
<1>7. ExitOK' BY SMTT(30) DEF ExitOK, Children, Label, StateOK, ForkOK, Forking, LockOK
<1>8. WaitOK' BY SMTT(30) DEF WaitOK, Children, Label, StateOK, ForkOK, Forking
<1>9. PidOK' BY SMTT(30) DEF PidOK
<1>10. KillOK' BY SMTT(30) DEF KillOK
<1>. QED BY <1>1, <1>2, <1>3, <1>4, <1>5, <1>6, <1>7, <1>8, <1>9, <1>10

\* fork lets the child run; it has had its parent since before.
LEMMA ForkRunStep ==
  ASSUME IInv, NEW p \in Proc, ForkRun(p)
  PROVE  IInv'
<1>. USE Slots DEF IInv, TypeOK, ForkRun
<1>1. TypeOK' BY SMTT(30) DEF Label, ForkOK, Forking
<1>2. StateOK' BY SMTT(30) DEF StateOK
<1>3. ForkOK' BY SMTT(30) DEF ForkOK, Forking
<1>4. FreeOK' BY SMTT(30) DEF FreeOK
<1>5. LockOK' BY SMTT(30) DEF LockOK, Label, StateOK, ForkOK, Forking
<1>6. ParentAlive' BY SMTT(30) DEF ParentAlive, Label, StateOK, ForkOK, Forking
<1>7. ExitOK' BY SMTT(30) DEF ExitOK, Children
<1>8. WaitOK' BY SMTT(30) DEF WaitOK, Children
<1>9. PidOK' BY SMTT(30) DEF PidOK
<1>10. KillOK' BY SMTT(30) DEF KillOK
<1>. QED BY <1>1, <1>2, <1>3, <1>4, <1>5, <1>6, <1>7, <1>8, <1>9, <1>10

\* exit takes wait_lock.
LEMMA ExitStep ==
  ASSUME IInv, NEW p \in Proc, Exit(p)
  PROVE  IInv'
<1>. USE Slots DEF IInv, TypeOK, Exit, Goto, slots
<1>1. TypeOK' BY SMTT(30) DEF Label
<1>2. StateOK' BY SMTT(30) DEF StateOK
<1>3. ForkOK' BY SMTT(30) DEF ForkOK, Forking
<1>4. FreeOK' BY SMTT(30) DEF FreeOK
<1>5. LockOK' BY SMTT(30) DEF LockOK
<1>6. ParentAlive' BY SMTT(30) DEF ParentAlive
<1>7. ExitOK' BY SMTT(30) DEF ExitOK, Children
<1>8. WaitOK' BY SMTT(30) DEF WaitOK, Children
<1>9. PidOK' BY SMTT(30) DEF PidOK
<1>10. KillOK' BY SMTT(30) DEF KillOK
<1>. QED BY <1>1, <1>2, <1>3, <1>4, <1>5, <1>6, <1>7, <1>8, <1>9, <1>10

\* reparent gives every child to init, which it wakes, so no sleeper gets a zombie.
LEMMA reparentStep ==
  ASSUME IInv, NEW p \in Proc, reparent(p)
  PROVE  IInv'
<1>. USE Slots DEF IInv, TypeOK, reparent, Goto, WakeState, WakePc, Locked, Adopted, Children
<1>1. TypeOK' BY SMTT(30) DEF Label
<1>2. StateOK' BY SMTT(30) DEF StateOK
<1>3. ForkOK'
  <2>1. \A q \in Proc : Forking(q)' => Forking(q) /\ q # p /\ pc'[q] = pc[q]
    BY SMTT(30) DEF Forking, StateOK
  <2>2. \A c \in Proc : /\ state[c] = "USED" => state'[c] = "USED"
                        /\ parent[c] # p => parent'[c] = parent[c]
    BY SMTT(30)
  <2>3. child' = child /\ ForkOK OBVIOUS
  <2>. HIDE DEF reparent, IInv, TypeOK
  <2>4. ASSUME NEW q \in Proc, Forking(q)'
        PROVE  /\ child'[q] \in Proc /\ state'[child'[q]] = "USED"
               /\ pc'[q] = "parent" => parent'[child'[q]] = NoProc
               /\ pc'[q] = "start" => parent'[child'[q]] = q
    <3>1. /\ child[q] \in Proc /\ state[child[q]] = "USED"
          /\ pc[q] = "parent" => parent[child[q]] = NoProc
          /\ pc[q] = "start" => parent[child[q]] = q
      BY ZenonT(30), <2>1, <2>3, <2>4 DEF ForkOK
    <3>2. NoProc # p /\ q # p /\ pc'[q] = pc[q]
      BY ZenonT(30), <2>1, <2>4
    <3>. QED BY ZenonT(30), <2>2, <2>3, <3>1, <3>2
  <2>5. \A q, r \in Proc : Forking(q)' /\ Forking(r)' /\ child'[q] = child'[r] => q = r
    BY ZenonT(30), <2>1, <2>3 DEF ForkOK
  <2>. QED BY ZenonT(30), <2>4, <2>5 DEF ForkOK, Forking
<1>4. FreeOK' BY SMTT(30) DEF FreeOK
<1>5. LockOK' BY SMTT(30) DEF LockOK, Label, StateOK
<1>6. ParentAlive'
  <2>1. \A q \in Proc : /\ state[q] \in {"RUNNABLE", "SLEEPING"} <=> state'[q] \in {"RUNNABLE", "SLEEPING"}
                        /\ state[q] = "ZOMBIE" <=> state'[q] = "ZOMBIE"
    BY SMTT(30)
  <2>2. \A c \in Proc : /\ parent[c] \in Proc \/ parent[c] = NoProc
                        /\ parent'[c] = parent[c] \/ parent'[c] = initproc
                        /\ parent'[c] = NoProc <=> parent[c] = NoProc
    BY SMTT(30)
  <2>3. ParentAlive /\ state[initproc] \in {"RUNNABLE", "SLEEPING"}
    BY DEF StateOK
  <2>. HIDE DEF reparent, IInv, TypeOK
  <2>4. ASSUME NEW c \in Proc, parent'[c] # NoProc
        PROVE  state'[parent'[c]] \in {"RUNNABLE", "SLEEPING"}
    BY ZenonT(30), <2>1, <2>2, <2>3, <2>4 DEF ParentAlive
  <2>5. ASSUME NEW c \in Proc, c # initproc, state'[c] \in {"RUNNABLE", "SLEEPING", "ZOMBIE"}
        PROVE  parent'[c] # NoProc
    BY ZenonT(30), <2>1, <2>2, <2>3, <2>5 DEF ParentAlive
  <2>. QED BY ZenonT(30), <2>4, <2>5 DEF ParentAlive
<1>7. ExitOK' BY SMTT(30) DEF ExitOK, Label, StateOK, LockOK, ParentAlive
<1>8. WaitOK' BY SMTT(30) DEF WaitOK, Label, StateOK, LockOK
<1>9. PidOK' BY SMTT(30) DEF PidOK
<1>10. KillOK' BY SMTT(30) DEF KillOK
<1>. QED BY <1>1, <1>2, <1>3, <1>4, <1>5, <1>6, <1>7, <1>8, <1>9, <1>10

\* exit wakes its parent under wait_lock, so the parent cannot look again too early.
LEMMA WakeParentStep ==
  ASSUME IInv, NEW p \in Proc, WakeParent(p)
  PROVE  IInv'
<1>. USE Slots DEF IInv, TypeOK, WakeParent, Goto, WakeState, WakePc, Locked
<1>1. TypeOK' BY SMTT(30) DEF Label, StateOK, ParentAlive, ExitOK
<1>2. StateOK' BY SMTT(30) DEF StateOK
<1>3. ForkOK' BY SMTT(30) DEF ForkOK, Forking
<1>4. FreeOK' BY SMTT(30) DEF FreeOK
<1>5. LockOK' BY SMTT(30) DEF LockOK, Label, StateOK, ParentAlive, ExitOK
<1>6. ParentAlive' BY SMTT(30) DEF ParentAlive
<1>7. ExitOK' BY SMTT(30) DEF ExitOK, Children, Label, StateOK, ParentAlive, LockOK
<1>8. WaitOK' BY SMTT(30) DEF WaitOK, Children
<1>9. PidOK' BY SMTT(30) DEF PidOK
<1>10. KillOK' BY SMTT(30) DEF KillOK
<1>. QED BY <1>1, <1>2, <1>3, <1>4, <1>5, <1>6, <1>7, <1>8, <1>9, <1>10

\* exit becomes a zombie: no child refers to it, and its parent is not asleep.
LEMMA ZombieStep ==
  ASSUME IInv, NEW p \in Proc, Zombie(p)
  PROVE  IInv'
<1>. USE Slots DEF IInv, TypeOK, Zombie, Goto
<1>1. TypeOK' BY SMTT(30) DEF Label
<1>2. StateOK' BY SMTT(30) DEF StateOK, Label, ExitOK
<1>3. ForkOK' BY SMTT(30) DEF ForkOK, Forking, Label, StateOK
<1>4. FreeOK' BY SMTT(30) DEF FreeOK
<1>5. LockOK' BY SMTT(30) DEF LockOK
<1>6. ParentAlive' BY SMTT(30) DEF ParentAlive, Label, StateOK, ExitOK, Children
<1>7. ExitOK' BY SMTT(30) DEF ExitOK, Children
<1>8. WaitOK' BY SMTT(30) DEF WaitOK, Children, Label, StateOK, LockOK, ExitOK
<1>9. PidOK' BY SMTT(30) DEF PidOK
<1>10. KillOK' BY SMTT(30) DEF KillOK
<1>. QED BY <1>1, <1>2, <1>3, <1>4, <1>5, <1>6, <1>7, <1>8, <1>9, <1>10

\* The scheduler takes over from a process that has left.
LEMMA SwitchedStep ==
  ASSUME IInv, NEW p \in Proc, Switched(p)
  PROVE  IInv'
<1>. USE Slots DEF IInv, TypeOK, Switched, Goto, slots, Locked
<1>1. TypeOK' BY SMTT(30) DEF Label
<1>2. StateOK' BY SMTT(30) DEF StateOK
<1>3. ForkOK' BY SMTT(30) DEF ForkOK, Forking
<1>4. FreeOK' BY SMTT(30) DEF FreeOK
<1>5. LockOK' BY SMTT(30) DEF LockOK
<1>6. ParentAlive' BY SMTT(30) DEF ParentAlive
<1>7. ExitOK' BY SMTT(30) DEF ExitOK, Children
<1>8. WaitOK' BY SMTT(30) DEF WaitOK, Children
<1>9. PidOK' BY SMTT(30) DEF PidOK
<1>10. KillOK' BY SMTT(30) DEF KillOK
<1>. QED BY <1>1, <1>2, <1>3, <1>4, <1>5, <1>6, <1>7, <1>8, <1>9, <1>10

\* wait is called.
LEMMA CallWaitStep ==
  ASSUME IInv, NEW p \in Proc, CallWait(p)
  PROVE  IInv'
<1>. USE Slots DEF IInv, TypeOK, CallWait, Goto, slots, InUser
<1>1. TypeOK' BY SMTT(30) DEF Label
<1>2. StateOK' BY SMTT(30) DEF StateOK
<1>3. ForkOK' BY SMTT(30) DEF ForkOK, Forking
<1>4. FreeOK' BY SMTT(30) DEF FreeOK
<1>5. LockOK' BY SMTT(30) DEF LockOK
<1>6. ParentAlive' BY SMTT(30) DEF ParentAlive
<1>7. ExitOK' BY SMTT(30) DEF ExitOK, Children
<1>8. WaitOK' BY SMTT(30) DEF WaitOK, Children
<1>9. PidOK' BY SMTT(30) DEF PidOK
<1>10. KillOK' BY SMTT(30) DEF KillOK
<1>. QED BY <1>1, <1>2, <1>3, <1>4, <1>5, <1>6, <1>7, <1>8, <1>9, <1>10

\* wait takes wait_lock, at its start or at the end of a sleep.
LEMMA WaitLockStep ==
  ASSUME IInv, NEW p \in Proc, WaitLock(p)
  PROVE  IInv'
<1>. USE Slots DEF IInv, TypeOK, WaitLock, Goto, slots
<1>1. TypeOK' BY SMTT(30) DEF Label
<1>2. StateOK' BY SMTT(30) DEF StateOK
<1>3. ForkOK' BY SMTT(30) DEF ForkOK, Forking
<1>4. FreeOK' BY SMTT(30) DEF FreeOK
<1>5. LockOK' BY SMTT(30) DEF LockOK
<1>6. ParentAlive' BY SMTT(30) DEF ParentAlive
<1>7. ExitOK' BY SMTT(30) DEF ExitOK, Children
<1>8. WaitOK' BY SMTT(30) DEF WaitOK, Children
<1>9. PidOK' BY SMTT(30) DEF PidOK
<1>10. KillOK' BY SMTT(30) DEF KillOK
<1>. QED BY <1>1, <1>2, <1>3, <1>4, <1>5, <1>6, <1>7, <1>8, <1>9, <1>10

\* wait frees a zombie that has left its kernel stack.
LEMMA ReapStep ==
  ASSUME IInv, NEW p \in Proc, NEW z \in Proc, Reap(p, z)
  PROVE  IInv'
<1>. USE Slots DEF IInv, TypeOK, Reap, Found, Locked, Children
<1>1. TypeOK' BY SMTT(30) DEF Label
<1>2. StateOK' BY SMTT(30) DEF StateOK
<1>3. ForkOK' BY SMTT(30) DEF ForkOK, Forking
<1>4. FreeOK' BY SMTT(30) DEF FreeOK
<1>5. LockOK' BY SMTT(30) DEF LockOK
<1>6. ParentAlive' BY SMTT(30) DEF ParentAlive
<1>7. ExitOK' BY SMTT(30) DEF ExitOK, Label, StateOK, LockOK
<1>8. WaitOK' BY SMTT(30) DEF WaitOK
<1>9. PidOK' BY SMTT(30) DEF PidOK
<1>10. KillOK' BY SMTT(30) DEF KillOK
<1>. QED BY <1>1, <1>2, <1>3, <1>4, <1>5, <1>6, <1>7, <1>8, <1>9, <1>10

\* wait cannot copy the status out and leaves the zombie alone.
LEMMA ReapFailsStep ==
  ASSUME IInv, NEW p \in Proc, NEW z \in Proc, ReapFails(p, z)
  PROVE  IInv'
<1>. USE Slots DEF IInv, TypeOK, ReapFails, Goto, slots, Found, Locked, Children
<1>1. TypeOK' BY SMTT(30) DEF Label
<1>2. StateOK' BY SMTT(30) DEF StateOK
<1>3. ForkOK' BY SMTT(30) DEF ForkOK, Forking
<1>4. FreeOK' BY SMTT(30) DEF FreeOK
<1>5. LockOK' BY SMTT(30) DEF LockOK
<1>6. ParentAlive' BY SMTT(30) DEF ParentAlive
<1>7. ExitOK' BY SMTT(30) DEF ExitOK
<1>8. WaitOK' BY SMTT(30) DEF WaitOK
<1>9. PidOK' BY SMTT(30) DEF PidOK
<1>10. KillOK' BY SMTT(30) DEF KillOK
<1>. QED BY <1>1, <1>2, <1>3, <1>4, <1>5, <1>6, <1>7, <1>8, <1>9, <1>10

\* wait finds no zombie, and keeps wait_lock if it is going to sleep.
LEMMA WaitMoreStep ==
  ASSUME IInv, NEW p \in Proc, WaitMore(p)
  PROVE  IInv'
<1>. USE Slots DEF IInv, TypeOK, WaitMore, Goto, slots, Locked, Children
<1>1. TypeOK' BY SMTT(30) DEF Label
<1>2. StateOK' BY SMTT(30) DEF StateOK
<1>3. ForkOK' BY SMTT(30) DEF ForkOK, Forking
<1>4. FreeOK' BY SMTT(30) DEF FreeOK
<1>5. LockOK' BY SMTT(30) DEF LockOK
<1>6. ParentAlive' BY SMTT(30) DEF ParentAlive
<1>7. ExitOK' BY SMTT(30) DEF ExitOK
<1>8. WaitOK' BY SMTT(30) DEF WaitOK
<1>9. PidOK' BY SMTT(30) DEF PidOK
<1>10. KillOK' BY SMTT(30) DEF KillOK
<1>. QED BY <1>1, <1>2, <1>3, <1>4, <1>5, <1>6, <1>7, <1>8, <1>9, <1>10

\* sleep gives wait_lock up only when the process is marked as sleeping.
LEMMA SleepStep ==
  ASSUME IInv, NEW p \in Proc, Sleep(p)
  PROVE  IInv'
<1>. USE Slots DEF IInv, TypeOK, Sleep, Goto
<1>1. TypeOK' BY SMTT(30) DEF Label
<1>2. StateOK' BY SMTT(30) DEF StateOK
<1>3. ForkOK' BY SMTT(30) DEF ForkOK, Forking, Label, StateOK
<1>4. FreeOK' BY SMTT(30) DEF FreeOK
<1>5. LockOK' BY SMTT(30) DEF LockOK
<1>6. ParentAlive' BY SMTT(30) DEF ParentAlive, Label, StateOK
<1>7. ExitOK' BY SMTT(30) DEF ExitOK, Children, Label, StateOK, LockOK
<1>8. WaitOK' BY SMTT(30) DEF WaitOK, Children
<1>9. PidOK' BY SMTT(30) DEF PidOK
<1>10. KillOK' BY SMTT(30) DEF KillOK
<1>. QED BY <1>1, <1>2, <1>3, <1>4, <1>5, <1>6, <1>7, <1>8, <1>9, <1>10

\* kill marks the slot whose pid it was called with, and may end its sleep.
LEMMA killStep ==
  ASSUME IInv, NEW k \in KillPids, kill(k)
  PROVE  IInv'
<1>. USE Slots DEF IInv, TypeOK
<1>1. PICK p \in Proc : /\ pid[p] = k /\ pc[p] \notin {"sswitch", "zswitch"}
                        /\ killed' = [killed EXCEPT ![p] = TRUE]
                        /\ state' = WakeState(p) /\ pc' = WakePc(p, pc)
  BY ZenonT(30) DEF kill, Locked
<1>2. k \in asked' /\ asked \subseteq asked' /\ UNCHANGED <<parent, pid, child, wait_lock, nextpid>>
  BY DEF kill
<1>3. \A q \in Proc :
        /\ state'[q] # state[q] => state[q] = "SLEEPING" /\ state'[q] = "RUNNABLE"
        /\ pc'[q] # pc[q] => pc[q] = "asleep" /\ pc'[q] = "wait"
        /\ state'[q] = state[q] <=> pc'[q] = pc[q]
  BY SMTT(30), <1>1 DEF WakeState, WakePc, StateOK, Label
<1>4. TypeOK' BY SMTT(30), <1>1, <1>2 DEF WakeState, WakePc, Label
<1>. USE <1>2, <1>3
<1>5. StateOK' BY SMTT(30) DEF StateOK
<1>6. ForkOK'
  <2>1. \A q \in Proc : Forking(q)' => Forking(q) /\ pc'[q] = pc[q] BY ZenonT(30) DEF Forking
  <2>2. \A c \in Proc : state[c] = "USED" => state'[c] = "USED" BY ZenonT(30)
  <2>3. ForkOK OBVIOUS
  <2>. HIDE DEF IInv, TypeOK
  <2>4. \A q \in Proc : Forking(q)' => child'[q] \in Proc /\ state'[child'[q]] = "USED"
    BY ZenonT(30), <2>1, <2>2, <2>3 DEF ForkOK
  <2>5. \A q \in Proc : /\ pc'[q] = "parent" => parent'[child'[q]] = NoProc
                        /\ pc'[q] = "start" => parent'[child'[q]] = q
    BY ZenonT(30), <2>1, <2>3 DEF ForkOK, Forking
  <2>6. \A q, r \in Proc : Forking(q)' /\ Forking(r)' /\ child'[q] = child'[r] => q = r
    BY ZenonT(30), <2>1, <2>3 DEF ForkOK
  <2>. QED BY ZenonT(30), <2>4, <2>5, <2>6 DEF ForkOK, Forking
<1>7. FreeOK' BY SMTT(30) DEF FreeOK
<1>8. LockOK' BY SMTT(30) DEF LockOK
<1>9. ParentAlive'
  <2>1. \A q \in Proc : /\ state[q] \in {"RUNNABLE", "SLEEPING"} <=> state'[q] \in {"RUNNABLE", "SLEEPING"}
                        /\ state[q] = "ZOMBIE" <=> state'[q] = "ZOMBIE"
    BY SMTT(30)
  <2>2. ParentAlive /\ \A c \in Proc : parent[c] \in Proc \/ parent[c] = NoProc
    BY ZenonT(30)
  <2>. HIDE DEF IInv, TypeOK
  <2>. QED BY ZenonT(30), <2>1, <2>2 DEF ParentAlive
<1>10. ExitOK'
  <2>1. \A q \in Proc : pc'[q] \in {"reparent", "wakeparent", "zombie"} => pc'[q] = pc[q] BY ZenonT(30)
  <2>2. \A q \in Proc : state[q] # "SLEEPING" => state'[q] # "SLEEPING" BY ZenonT(30)
  <2>3. \A q \in Proc : pc[q] = "zombie" => parent[q] \in Proc
    BY SMTT(30) DEF ExitOK, StateOK, ParentAlive
  <2>4. ExitOK /\ \A q : Children(q)' = Children(q) BY ZenonT(30) DEF Children
  <2>. HIDE DEF IInv, TypeOK
  <2>5. \A q \in Proc : /\ pc'[q] \in {"reparent", "wakeparent", "zombie"} => q # initproc
                        /\ pc'[q] \in {"wakeparent", "zombie"} => Children(q)' = {}
    <3>1. ASSUME NEW q \in Proc, pc'[q] \in {"reparent", "wakeparent", "zombie"} PROVE q # initproc
      BY ZenonT(30), <2>1, <2>4, <3>1 DEF ExitOK
    <3>2. ASSUME NEW q \in Proc, pc'[q] \in {"wakeparent", "zombie"} PROVE Children(q)' = {}
      BY ZenonT(30), <2>1, <2>4, <3>2 DEF ExitOK
    <3>. QED BY ZenonT(30), <3>1, <3>2
  <2>6. \A q \in Proc : pc'[q] = "zombie" => state'[parent'[q]] # "SLEEPING"
    BY ZenonT(30), <2>1, <2>2, <2>3, <2>4 DEF ExitOK
  <2>. QED BY ZenonT(30), <2>5, <2>6 DEF ExitOK
<1>11. WaitOK' BY SMTT(30) DEF WaitOK, Children
<1>12. PidOK' BY SMTT(30) DEF PidOK
<1>13. KillOK' BY SMTT(30), <1>1 DEF KillOK
<1>. QED BY <1>4, <1>5, <1>6, <1>7, <1>8, <1>9, <1>10, <1>11, <1>12, <1>13
-----------------------------------------------------------------------------
\* userinit leaves init alone in the table.
LEMMA InitIInv == Init => IInv
<1>. SUFFICES ASSUME Init PROVE IInv
  OBVIOUS
<1>. USE Slots DEF Init
<1>1. TypeOK BY SMTT(30) DEF TypeOK, Label
<1>2. StateOK /\ FreeOK BY SMTT(30) DEF StateOK, FreeOK, NoProc
<1>3. ForkOK /\ LockOK BY SMTT(30) DEF ForkOK, Forking, LockOK
<1>4. ParentAlive BY SMTT(30) DEF ParentAlive
<1>5. ExitOK /\ WaitOK BY SMTT(30) DEF ExitOK, WaitOK
<1>6. PidOK /\ KillOK BY SMTT(30) DEF PidOK, KillOK
<1>. QED BY <1>1, <1>2, <1>3, <1>4, <1>5, <1>6 DEF IInv

\* Every step keeps the invariant.
LEMMA NextIInv == IInv /\ [Next]_vars => IInv'
<1>. SUFFICES ASSUME IInv, [Next]_vars PROVE IInv'
  OBVIOUS
<1>1. CASE UNCHANGED vars
  <2>. USE <1>1 DEF vars, slots
  <2>1. TypeOK' /\ StateOK' /\ ForkOK' /\ FreeOK' BY ZenonT(30) DEF IInv, TypeOK, StateOK, ForkOK, Forking, FreeOK
  <2>2. LockOK' /\ ParentAlive' /\ PidOK' /\ KillOK' BY ZenonT(30) DEF IInv, LockOK, ParentAlive, PidOK, KillOK
  <2>3. ExitOK' /\ WaitOK' BY ZenonT(30) DEF IInv, ExitOK, WaitOK, Children
  <2>. QED BY <2>1, <2>2, <2>3 DEF IInv
<1>2. ASSUME NEW p \in Proc, Kernel(p) PROVE IInv'
  BY ZenonT(30), <1>2, ForkRunStep, reparentStep, WakeParentStep, ZombieStep, SwitchedStep, SleepStep,
     WaitMoreStep, ReapStep, ReapFailsStep DEF Kernel
<1>3. ASSUME NEW p \in Proc, GetLock(p) PROVE IInv'
  BY ZenonT(30), <1>3, ForkParentStep, WaitLockStep DEF GetLock
<1>4. ASSUME NEW p \in Proc, User(p) PROVE IInv'
  BY ZenonT(30), <1>4, ExitStep, CallWaitStep, ForkAllocStep, ForkFailsStep DEF User
<1>5. ASSUME NEW k \in KillPids, kill(k) PROVE IInv'
  BY <1>5, killStep
<1>. QED BY ZenonT(30), <1>1, <1>2, <1>3, <1>4, <1>5 DEF Next

\* The invariant holds in every reachable state.
THEOREM Invariance == Spec => []IInv
<1>1. Init => IInv BY InitIInv
<1>2. IInv /\ [Next]_vars => IInv' BY NextIInv
<1>. QED BY <1>1, <1>2, PTL DEF Spec

\* Every process but init has a living parent, whatever fork, exit and wait are in
\* the middle of (exit's reparent).
THEOREM NoOrphans == Spec => []ParentAlive
<1>1. IInv => ParentAlive BY DEF IInv
<1>. QED BY <1>1, Invariance, PTL

\* No wakeup of wait is lost: who sleeps in wait has children and no zombie among
\* them (exit wakes the parent, and wait sleeps, under wait_lock).
THEOREM NoLostChild == Spec => []WaiterHasReason
<1>1. IInv => WaiterHasReason BY DEF IInv, WaitOK, WaiterHasReason
<1>. QED BY <1>1, Invariance, PTL

\* A free slot has no thread on its kernel stack, and pids are distinct (wait's
\* acquire(&np->lock), allocpid).
THEOREM SlotsReused == Spec => []FreedOffStack
<1>1. IInv => FreedOffStack BY DEF IInv, StateOK, PidOK, FreedOffStack
<1>. QED BY <1>1, Invariance, PTL

\* A process is marked killed only if kill was called with its pid, or with 0
\* (kill, freeproc).
THEOREM KillHits == Spec => []KilledByPid
<1>1. IInv => KilledByPid BY DEF IInv, KillOK, KilledByPid
<1>. QED BY <1>1, Invariance, PTL
=============================================================================
