------------------------------ MODULE ProcLife ------------------------------
(***************************************************************************)
(* The life of processes in proc.c: fork, exit, reparent, wait, kill.      *)
(* wait_lock protects the parent fields and a parent's check for zombies;  *)
(* p->lock protects a slot and is held while its process switches away in  *)
(* sleep or exit.  Which of the runnable processes runs is left open.      *)
(***************************************************************************)
EXTENDS Integers, FiniteSets

CONSTANTS NPROC,    \* slots of the process table
          MaxPid,   \* pids are handed out up to this one
          KillPids  \* arguments that kill is called with

Proc == 0 .. NPROC - 1
NoProc == NPROC
initproc == 0

ASSUME ProcAssumption == NPROC \in Nat \ {0} /\ MaxPid \in Nat \ {0} /\ KillPids \subseteq Nat

VARIABLES
  state, parent, pid, killed,  \* struct proc; RUNNABLE stands for RUNNING too
  pc,        \* where the process of a slot is
  child,     \* the slot that a fork is filling
  wait_lock, \* its holder
  nextpid,
  asked      \* pids that kill was called with

slots == <<state, parent, pid, killed>>
vars == <<slots, pc, child, wait_lock, nextpid, asked>>

Init ==
  /\ state = [p \in Proc |-> IF p = initproc THEN "RUNNABLE" ELSE "UNUSED"]
  /\ parent = [p \in Proc |-> NoProc]
  /\ pid = [p \in Proc |-> IF p = initproc THEN 1 ELSE 0]
  /\ killed = [p \in Proc |-> FALSE]
  /\ pc = [p \in Proc |-> IF p = initproc THEN "user" ELSE "none"]
  /\ child = [p \in Proc |-> NoProc]
  /\ wait_lock = NoProc /\ nextpid = 2 /\ asked = {}

\* p->lock is held from the change of the state to the end of swtch.
Locked(p) == pc[p] \in {"sswitch", "zswitch"}
Children(p) == {c \in Proc : parent[c] = p}

\* usertrap lets a killed process do nothing but exit.
InUser(p) == pc[p] = "user" /\ ~killed[p]

\* wakeup(p) of a process that sleeps in wait.
WakeState(p) == IF state[p] = "SLEEPING" THEN [state EXCEPT ![p] = "RUNNABLE"] ELSE state
WakePc(p, l) == [q \in Proc |-> IF q = p /\ state[p] = "SLEEPING" THEN "wait" ELSE l[q]]
Goto(p, l) == [pc EXCEPT ![p] = l]
-----------------------------------------------------------------------------
(***************************************************************************)
(* fork                                                                    *)
(***************************************************************************)
\* The pid is taken under pid_lock.
allocpid == nextpid <= MaxPid /\ nextpid' = nextpid + 1

\* allocproc and the copying, under the lock of the new slot.  It need not be the
\* first free one: slots may be freed behind the scan.
ForkAlloc(p, c) ==
  /\ InUser(p) /\ state[c] = "UNUSED" /\ allocpid
  /\ state' = [state EXCEPT ![c] = "USED"]
  /\ pid' = [pid EXCEPT ![c] = nextpid]
  /\ child' = [child EXCEPT ![p] = c]
  /\ pc' = Goto(p, "parent")
  /\ UNCHANGED <<parent, killed, wait_lock, asked>>

\* No memory: freeproc undoes allocproc, the pid is used up.
ForkFails(p, c) ==
  /\ InUser(p) /\ state[c] = "UNUSED" /\ allocpid
  /\ killed' = [killed EXCEPT ![c] = FALSE]
  /\ UNCHANGED <<state, parent, pid, pc, child, wait_lock, asked>>

ForkParent(p) ==
  /\ pc[p] = "parent" /\ wait_lock = NoProc
  /\ parent' = [parent EXCEPT ![child[p]] = p]
  /\ pc' = Goto(p, "start")
  /\ UNCHANGED <<state, pid, killed, child, wait_lock, nextpid, asked>>

ForkRun(p) ==
  /\ pc[p] = "start"
  /\ state' = [state EXCEPT ![child[p]] = "RUNNABLE"]
  /\ pc' = [pc EXCEPT ![p] = "user", ![child[p]] = "user"]
  /\ child' = [child EXCEPT ![p] = NoProc]
  /\ UNCHANGED <<parent, pid, killed, wait_lock, nextpid, asked>>
-----------------------------------------------------------------------------
(***************************************************************************)
(* exit                                                                    *)
(***************************************************************************)
Exit(p) ==
  /\ pc[p] = "user" /\ p # initproc /\ wait_lock = NoProc
  /\ wait_lock' = p
  /\ pc' = Goto(p, "reparent")
  /\ UNCHANGED <<slots, child, nextpid, asked>>

\* Variant: children that have exited stay with their parent.
Adopted_Alive(p) == {c \in Children(p) : state[c] # "ZOMBIE"}

Adopted(p) == Children(p)

\* Variant: init is not told of its new children.
reparent_Quiet(p) ==
  /\ pc[p] = "reparent"
  /\ parent' = [c \in Proc |-> IF c \in Adopted(p) THEN initproc ELSE parent[c]]
  /\ pc' = Goto(p, "wakeparent")
  /\ UNCHANGED <<state, pid, killed, child, wait_lock, nextpid, asked>>

reparent(p) ==
  /\ pc[p] = "reparent"
  /\ parent' = [c \in Proc |-> IF c \in Adopted(p) THEN initproc ELSE parent[c]]
  /\ IF Adopted(p) # {}
     THEN /\ ~Locked(initproc)
          /\ state' = WakeState(initproc)
          /\ pc' = WakePc(initproc, Goto(p, "wakeparent"))
     ELSE pc' = Goto(p, "wakeparent") /\ UNCHANGED state
  /\ UNCHANGED <<pid, killed, child, wait_lock, nextpid, asked>>

WakeParent(p) ==
  /\ pc[p] = "wakeparent" /\ ~Locked(parent[p])
  /\ state' = WakeState(parent[p])
  /\ pc' = WakePc(parent[p], Goto(p, "zombie"))
  /\ UNCHANGED <<parent, pid, killed, child, wait_lock, nextpid, asked>>

Zombie(p) ==
  /\ pc[p] = "zombie"
  /\ state' = [state EXCEPT ![p] = "ZOMBIE"]
  /\ wait_lock' = NoProc
  /\ pc' = Goto(p, "zswitch")
  /\ UNCHANGED <<parent, pid, killed, child, nextpid, asked>>

\* The scheduler has the CPU back and releases p->lock.
Switched(p) ==
  /\ Locked(p)
  /\ pc' = Goto(p, IF pc[p] = "zswitch" THEN "dead" ELSE "asleep")
  /\ UNCHANGED <<slots, child, wait_lock, nextpid, asked>>
-----------------------------------------------------------------------------
(***************************************************************************)
(* wait and waitx                                                          *)
(***************************************************************************)
CallWait(p) ==
  /\ InUser(p)
  /\ pc' = Goto(p, "wait")
  /\ UNCHANGED <<slots, child, wait_lock, nextpid, asked>>

\* At the start, and at the end of sleep().
WaitLock(p) ==
  /\ pc[p] = "wait" /\ wait_lock = NoProc
  /\ wait_lock' = p
  /\ pc' = Goto(p, "scan")
  /\ UNCHANGED <<slots, child, nextpid, asked>>

\* Variant: the scan does not take the lock of the child.
Found_Unlocked(p, z) == /\ z \in Children(p) /\ state[z] = "ZOMBIE"
                        /\ \A c \in Children(p) : state[c] = "ZOMBIE" => z <= c

\* The first zombie among the children.
Found(p, z) == /\ z \in Children(p) /\ state[z] = "ZOMBIE" /\ ~Locked(z)
               /\ \A c \in Children(p) : state[c] = "ZOMBIE" => z <= c

\* Variant: freeproc does not reset the killed flag.
Reap_KeepsKilled(p, z) ==
  /\ pc[p] = "scan" /\ Found(p, z)
  /\ state' = [state EXCEPT ![z] = "UNUSED"]
  /\ parent' = [parent EXCEPT ![z] = NoProc]
  /\ pid' = [pid EXCEPT ![z] = 0]
  /\ pc' = [pc EXCEPT ![p] = "user", ![z] = IF @ = "dead" THEN "none" ELSE @]
  /\ wait_lock' = NoProc
  /\ UNCHANGED <<killed, child, nextpid, asked>>

Reap(p, z) ==
  /\ pc[p] = "scan" /\ Found(p, z)
  /\ state' = [state EXCEPT ![z] = "UNUSED"]
  /\ parent' = [parent EXCEPT ![z] = NoProc]
  /\ pid' = [pid EXCEPT ![z] = 0]
  /\ killed' = [killed EXCEPT ![z] = FALSE]
  /\ pc' = [pc EXCEPT ![p] = "user", ![z] = IF @ = "dead" THEN "none" ELSE @]
  /\ wait_lock' = NoProc
  /\ UNCHANGED <<child, nextpid, asked>>

\* copyout of the status fails; init passes no address.
ReapFails(p, z) ==
  /\ pc[p] = "scan" /\ Found(p, z) /\ p # initproc
  /\ pc' = Goto(p, "user")
  /\ wait_lock' = NoProc
  /\ UNCHANGED <<slots, child, nextpid, asked>>

\* Variant: wait_lock is released before sleep() is called.
WaitMore_Unlocks(p) ==
  /\ pc[p] = "scan"
  /\ \A c \in Children(p) : state[c] # "ZOMBIE" /\ ~Locked(c)
  /\ IF Children(p) = {} \/ killed[p]
     THEN pc' = Goto(p, "user") /\ wait_lock' = NoProc
     ELSE pc' = Goto(p, "park") /\ wait_lock' = NoProc
  /\ UNCHANGED <<slots, child, nextpid, asked>>

WaitMore(p) ==
  /\ pc[p] = "scan"
  /\ \A c \in Children(p) : state[c] # "ZOMBIE" /\ ~Locked(c)
  /\ IF Children(p) = {} \/ killed[p]
     THEN pc' = Goto(p, "user") /\ wait_lock' = NoProc
     ELSE pc' = Goto(p, "park") /\ UNCHANGED wait_lock
  /\ UNCHANGED <<slots, child, nextpid, asked>>

\* sleep(p, &wait_lock)
Sleep(p) ==
  /\ pc[p] = "park"
  /\ state' = [state EXCEPT ![p] = "SLEEPING"]
  /\ wait_lock' = NoProc
  /\ pc' = Goto(p, "sswitch")
  /\ UNCHANGED <<parent, pid, killed, child, nextpid, asked>>
-----------------------------------------------------------------------------
\* kill(k): the first slot with that pid.
kill(k) ==
  /\ \E q \in Proc : InUser(q)
  /\ asked' = asked \cup {k}
  /\ \E p \in Proc :
       /\ pid[p] = k /\ ~Locked(p) /\ \A q \in Proc : pid[q] = k => p <= q
       /\ killed' = [killed EXCEPT ![p] = TRUE]
       /\ state' = WakeState(p)
       /\ pc' = WakePc(p, pc)
  /\ UNCHANGED <<parent, pid, child, wait_lock, nextpid>>
-----------------------------------------------------------------------------
GetLock(p) == ForkParent(p) \/ WaitLock(p)

Kernel(p) == \/ ForkRun(p)
             \/ reparent(p) \/ WakeParent(p) \/ Zombie(p) \/ Switched(p)
             \/ Sleep(p) \/ WaitMore(p)
             \/ \E z \in Proc : Reap(p, z) \/ ReapFails(p, z)

User(p) == \/ Exit(p) \/ CallWait(p)
           \/ \E c \in Proc : ForkAlloc(p, c) \/ ForkFails(p, c)

Next == \/ \E p \in Proc : Kernel(p) \/ GetLock(p) \/ User(p)
        \/ \E k \in KillPids : kill(k)

Spec == Init /\ [][Next]_vars

\* Kernel threads run on and get wait_lock in turn.  init calls wait for ever
\* (user/init.c); other processes do as they like.
FairSpec == /\ Spec
            /\ \A p \in Proc : WF_vars(Kernel(p)) /\ SF_vars(GetLock(p))
            /\ WF_vars(CallWait(initproc))
-----------------------------------------------------------------------------
\* Every process but init has a parent that is still alive, so exit's reparent
\* leaves no child whose parent slot is free, a zombie, or somebody else's.
ParentAlive ==
  \A p \in Proc :
    /\ parent[p] # NoProc => state[parent[p]] \in {"RUNNABLE", "SLEEPING"}
    /\ p # initproc /\ state[p] \in {"RUNNABLE", "SLEEPING", "ZOMBIE"} => parent[p] # NoProc

\* No lost wakeup in wait: when wait_lock is free, a process that sleeps there
\* has children, none of which is a zombie.
WaiterHasReason ==
  wait_lock = NoProc =>
    \A p \in Proc : state[p] = "SLEEPING" =>
      Children(p) # {} /\ \A c \in Children(p) : state[c] # "ZOMBIE"

\* wait frees a slot only when its process has left its kernel stack ("make sure
\* the child isn't still in exit() or swtch()"), and pids stay distinct.
FreedOffStack ==
  /\ \A p \in Proc : state[p] = "UNUSED" => pc[p] = "none"
  /\ \A p, q \in Proc : p # q /\ pid[p] = pid[q] => pid[p] = 0

\* init reaps every zombie that it is the parent of, born or adopted: pids run out
\* in the end, so that init has no such child infinitely often means all are reaped.
OrphansReaped ==
  []<>(\A p \in Proc : ~(state[p] = "ZOMBIE" /\ parent[p] = initproc))

\* kill: "Kill the process with the given pid" (proc.c), and no other, though slots
\* and their flags are used again.  The exception is kill(0): it marks a free slot,
\* and the process that is born there next exits at its first trap.
KilledByPid ==
  \A p \in Proc : killed[p] /\ pid[p] # 0 => pid[p] \in asked \/ 0 \in asked
-----------------------------------------------------------------------------
(***************************************************************************)
(* The inductive invariant                                                 *)
(***************************************************************************)
Label == {"none", "user", "parent", "start", "reparent", "wakeparent", "zombie", "zswitch",
          "dead", "wait", "scan", "park", "sswitch", "asleep"}

TypeOK ==
  /\ state \in [Proc -> {"UNUSED", "USED", "RUNNABLE", "SLEEPING", "ZOMBIE"}]
  /\ parent \in [Proc -> Proc \cup {NoProc}]
  /\ pid \in [Proc -> Nat]
  /\ killed \in [Proc -> BOOLEAN]
  /\ pc \in [Proc -> Label]
  /\ child \in [Proc -> Proc \cup {NoProc}]
  /\ wait_lock \in Proc \cup {NoProc}
  /\ nextpid \in Nat \ {0}

\* The state of a slot follows from where its process is, and init lives for ever.
StateOK ==
  /\ \A p \in Proc : /\ state[p] \in {"UNUSED", "USED"} <=> pc[p] = "none"
                     /\ state[p] = "ZOMBIE" <=> pc[p] \in {"zswitch", "dead"}
                     /\ state[p] = "SLEEPING" <=> pc[p] \in {"sswitch", "asleep"}
  /\ state[initproc] \in {"RUNNABLE", "SLEEPING"}

\* A slot that is being filled belongs to one fork.
Forking(p) == pc[p] \in {"parent", "start"}
ForkOK ==
  /\ \A p \in Proc : Forking(p) => child[p] \in Proc /\ state[child[p]] = "USED"
  /\ \A p \in Proc : /\ pc[p] = "parent" => parent[child[p]] = NoProc
                     /\ pc[p] = "start" => parent[child[p]] = p
  /\ \A p, q \in Proc : Forking(p) /\ Forking(q) /\ child[p] = child[q] => p = q

\* wait_lock is held from its acquisition in exit or wait to its release.
LockOK == \A p \in Proc : wait_lock = p <=> pc[p] \in {"reparent", "wakeparent", "zombie", "scan", "park"}

\* A process that exits has given its children away, and has woken its parent,
\* before it becomes a zombie.
ExitOK ==
  \A p \in Proc :
    /\ pc[p] \in {"reparent", "wakeparent", "zombie"} => p # initproc
    /\ pc[p] \in {"wakeparent", "zombie"} => Children(p) = {}
    /\ pc[p] = "zombie" => state[parent[p]] # "SLEEPING"

\* From the last look at its children to the end of its sleep, a process in wait
\* has children, and none is a zombie.
WaitOK ==
  \A p \in Proc : state[p] = "SLEEPING" \/ pc[p] = "park" =>
    Children(p) # {} /\ \A c \in Children(p) : state[c] # "ZOMBIE"

\* freeproc leaves no parent and no pid behind.
FreeOK == \A p \in Proc : state[p] = "UNUSED" => parent[p] = NoProc /\ pid[p] = 0

PidOK ==
  /\ \A p \in Proc : pid[p] < nextpid
  /\ \A p, q \in Proc : p # q /\ pid[p] = pid[q] => pid[p] = 0

\* Every mark has its cause, on a free slot too: kill(0) finds the first of those.
KillOK == \A p \in Proc : killed[p] => pid[p] \in asked \/ 0 \in asked

IInv == /\ TypeOK /\ StateOK /\ ForkOK /\ FreeOK /\ LockOK
        /\ ParentAlive /\ ExitOK /\ WaitOK /\ PidOK /\ KillOK
=============================================================================
