-------------------------- MODULE CowTableProofs --------------------------
(***************************************************************************)
(* TablesOK of CowMemory is kept by every step, and so the sanity panics of*)
(* kfree, uvmunmap, freewalk, mappages and uvmcopy cannot happen.          *)
(***************************************************************************)
EXTENDS CowMemoryFacts

\* The same pages of a table are mapped before and after a step.
Alike(t) == \A v \in VA : map'[t][v] # NoFrame <=> map[t][v] # NoFrame

\* What a step leaves alone of a process.
SameProcess(q) == /\ pc'[q] = pc[q] /\ op'[q] = op[q] /\ ix'[q] = ix[q] /\ lim'[q] = lim[q]
                  /\ peer'[q] = peer[q] /\ sz'[q] = sz[q] /\ state'[q] = state[q]

\* A step of p on its own tables, or on the table of its loop, leaves what is said
\* of the other processes true.
LEMMA OtherTables ==
  ASSUME IInv, TablesOK, NEW p \in Proc, pc[p] # "dead", NEW X \in SUBSET Proc, p \in X,
         \A t \in Table : Works(p, t) \/ Alike(t),
         \A q \in Proc \ X : SameProcess(q),
         \A r \in X : Giving(r) /\ op[r] = "wait" =>
           peer[r] \in X \/ (Giving(r)' /\ op'[r] = "wait" /\ peer'[r] = peer[r])
  PROVE  \A q \in Proc \ X : TableOK(q)' /\ LoopOK(q)'
<1>. SUFFICES ASSUME NEW q \in Proc \ X PROVE TableOK(q)' /\ LoopOK(q)'
  BY ZenonT(60)
<1>1. /\ TableOK(q) /\ LoopOK(q) /\ ThreadOK(p) /\ ThreadOK(q) /\ q \in Proc /\ q # p /\ SameProcess(q)
      /\ Cur(q) \in Table /\ New(q) \in Table /\ state[p] = "LIVE"
  BY ZenonT(60) DEF IInv, TablesOK, ThreadOK, Cur, New, Table
<1>3. /\ ~Works(p, New(q))
      /\ state[q] \in {"UNUSED", "LIVE"} => ~Works(p, Cur(q))
      /\ pc[q] \in InLoop => ~Works(p, Target(q)) /\ Target(q) \in Table
      /\ Works(p, Cur(q)) => pc[p] \in InLoop /\ op[p] \in {"fork", "wait"} /\ peer[p] = q
  BY ZenonT(60), <1>1, WorksApart
<1>6. state[q] = "ZOMBIE" /\ Works(p, Cur(q)) => \E r \in Proc : Giving(r)' /\ op'[r] = "wait" /\ peer'[r] = q
  <2>. SUFFICES ASSUME state[q] = "ZOMBIE", Works(p, Cur(q))
                PROVE  \E r \in Proc : Giving(r)' /\ op'[r] = "wait" /\ peer'[r] = q
    BY ZenonT(60)
  <2>1. pc[p] \in InLoop /\ op[p] = "wait" /\ peer[p] = q BY ZenonT(60), <1>1, <1>3 DEF ThreadOK, Forking
  <2>2. Giving(p) BY SMTT(60), Z3T(60), <1>1, <2>1 DEF ThreadOK, InLoop, Giving
  <2>. QED BY ZenonT(60), <2>1, <2>2
<1>7. (\E r \in Proc : Giving(r) /\ op[r] = "wait" /\ peer[r] = q)
        => \E r \in Proc : Giving(r)' /\ op'[r] = "wait" /\ peer'[r] = q
  BY ZenonT(60) DEF SameProcess, Giving
<1>8. /\ Alike(New(q))
      /\ state[q] \in {"UNUSED", "LIVE"} => Alike(Cur(q))
      /\ pc[q] \in InLoop => Alike(Target(q))
      /\ state[q] = "ZOMBIE" /\ ~(\E r \in Proc : Giving(r)' /\ op'[r] = "wait" /\ peer'[r] = q) =>
           Alike(Cur(q)) /\ ~(\E r \in Proc : Giving(r) /\ op[r] = "wait" /\ peer[r] = q)
  BY ZenonT(60), <1>1, <1>3, <1>6, <1>7
<1>9. TableOK(q)'
  <2>1. state[q] = "UNUSED" => Holds(Cur(q), 0, 0)'
    BY ZenonT(60), <1>1, <1>8 DEF TableOK, Holds, Alike, Cur, SameProcess
  <2>2. ~(pc[q] \in InLoop /\ op[q] = "exec") => Holds(New(q), 0, 0)'
    BY ZenonT(60), <1>1, <1>8 DEF TableOK, Holds, Alike, New, SameProcess
  <2>3. state[q] = "LIVE" /\ ~(pc[q] \in InLoop /\ op[q] \in {"grow", "shrink"}) => Holds(Cur(q), 0, sz[q])'
    BY ZenonT(60), <1>1, <1>8 DEF TableOK, Holds, Alike, Cur, SameProcess
  <2>4. state[q] = "ZOMBIE" /\ ~(\E r \in Proc : Giving(r)' /\ op'[r] = "wait" /\ peer'[r] = q)
          => Holds(Cur(q), 0, sz[q])'
    BY ZenonT(60), <1>1, <1>8 DEF TableOK, Holds, Alike, Cur, SameProcess
  <2>. HIDE DEF Holds, Giving
  <2>. QED BY ZenonT(60), <1>1, <2>1, <2>2, <2>3, <2>4 DEF TableOK, SameProcess
<1>10. LoopOK(q)'
  <2>1. pc[q] \in InLoop => Target(q)' = Target(q) /\ Alike(Target(q))
    BY ZenonT(60), <1>1, <1>8 DEF SameProcess, Target, Cur, New
  <2>2. pc[q] \in InLoop => \A lo, hi : Holds(Target(q), lo, hi) =>
                               \A v \in VA : map'[Target(q)][v] # NoFrame <=> lo <= v /\ v < hi
    BY ZenonT(60), <2>1 DEF Alike, Holds
  <2>3. Filling(q) => pc[q] \in InLoop /\ ix[q] <= lim[q] /\ Holds(Target(q), 0, ix[q])' /\ (op[q] = "grow" => sz[q] <= ix[q])
    BY ZenonT(60), <1>1, <2>1, <2>2 DEF LoopOK, SameProcess, Filling, InLoop, Holds
  <2>4. Giving(q) /\ op[q] \in {"fork", "wait", "exec"} => Holds(Target(q), ix[q], lim[q])'
    BY ZenonT(120), <1>1, <2>1, <2>2 DEF LoopOK, SameProcess, Giving, InLoop, Holds
  <2>5. Giving(q) /\ op[q] \in {"grow", "shrink"} =>
          /\ sz[q] <= ix[q]
          /\ \A v \in VA : map'[Cur(q)][v] # NoFrame <=> v < sz[q] \/ (ix[q] <= v /\ v < lim[q])
    <3>1. Giving(q) => Alike(Cur(q)) BY ZenonT(60), <1>1, <1>8 DEF Giving, ThreadOK
    <3>. QED BY ZenonT(60), <1>1, <3>1 DEF LoopOK, Alike
  <2>6. pc[q] = "copy" => lim[q] = sz[q] /\ ix[q] <= lim[q] /\ Holds(Target(q), 0, ix[q])'
    BY ZenonT(60), <1>1, <2>1, <2>2 DEF LoopOK, SameProcess, InLoop, Holds
  <2>7. pc[q] = "copyinc" => lim[q] = sz[q] /\ ix[q] < lim[q] /\ Holds(Target(q), 0, ix[q] + 1)'
    BY SMTT(60), Z3T(60), <1>1, <2>1, <2>2 DEF LoopOK, SameProcess, InLoop, Holds
  <2>. HIDE DEF Holds, Target
  <2>. QED BY ZenonT(60), <1>1, <2>3, <2>4, <2>5, <2>6, <2>7 DEF LoopOK, SameProcess, Filling, Giving, Cur
<1>. QED BY <1>9, <1>10

\* A process that is in no loop, with the pages below its size mapped in its table and
\* none in exec's second table.
Settled(p) == /\ pc[p] \notin InLoop /\ state[p] = "LIVE"
              /\ Holds(Cur(p), 0, sz[p]) /\ Holds(New(p), 0, 0)

\* That is all there is to say of such a process.
LEMMA SettledOK ==
  ASSUME NEW p \in Proc, Settled(p)
  PROVE  TableOK(p) /\ LoopOK(p)
BY ZenonT(60) DEF Settled, TableOK, LoopOK, Filling, Giving, InLoop

\* The same of the state after a step.
LEMMA SettledNext ==
  ASSUME NEW p \in Proc, Settled(p)'
  PROVE  TableOK(p)' /\ LoopOK(p)'
BY SettledOK, PTL

\* A process outside the loops is settled.
LEMMA OutsideSettled ==
  ASSUME IInv, TablesOK, NEW p \in Proc, pc[p] \notin InLoop, pc[p] # "dead"
  PROVE  Settled(p) /\ Cur(p) \in Table /\ New(p) \in Table
BY ZenonT(60) DEF IInv, TablesOK, TableOK, ThreadOK, Settled, Cur, New, Table

\* A step that starts and ends outside the loops, maps and unmaps nothing and
\* changes no size keeps the tables in order.
LEMMA QuietTables ==
  ASSUME IInv, TablesOK, NEW p \in Proc, pc[p] \notin InLoop, pc[p] # "dead",
         \A t \in Table : Alike(t),
         pc'[p] \notin InLoop, sz'[p] = sz[p], state'[p] = state[p],
         \A q \in Proc \ {p} : SameProcess(q)
  PROVE  TablesOK'
<1>1. Settled(p) /\ Cur(p) \in Table /\ New(p) \in Table BY ZenonT(60), OutsideSettled
<1>2. Settled(p)' BY ZenonT(60), <1>1 DEF Settled, Holds, Alike, Cur, New
<1>3. TableOK(p)' /\ LoopOK(p)' BY <1>2, SettledNext
<1>4. \A q \in Proc \ {p} : TableOK(q)' /\ LoopOK(q)'
  <2>1. ~Giving(p) BY ZenonT(60) DEF Giving, InLoop
  <2>. QED BY ZenonT(60), <2>1, OtherTables DEF InLoop
<1>. QED BY ZenonT(60), <1>3, <1>4 DEF TablesOK

\* A step that leaves tables and threads alone.
LEMMA StillTables ==
  ASSUME TablesOK, UNCHANGED <<map, pc, op, ix, lim, peer, sz, state>>
  PROVE  TablesOK'
<1>. SUFFICES ASSUME NEW q \in Proc, TableOK(q), LoopOK(q) PROVE TableOK(q)' /\ LoopOK(q)'
  BY ZenonT(60) DEF TablesOK
<1>1. TableOK(q)' BY ZenonT(60) DEF TableOK, Holds, Giving, Cur, New
<1>2. LoopOK(q)' BY ZenonT(60) DEF LoopOK, Holds, Filling, Giving, Target, Cur, New
<1>. QED BY <1>1, <1>2

\* A step that starts a loop.
LEMMA EnterStep ==
  ASSUME IInv, TablesOK, NEW p \in Proc, pc[p] \notin InLoop, pc[p] # "dead",
         UNCHANGED map, state'[p] = state[p], sz'[p] = sz[p] \/ op'[p] = "shrink",
         pc'[p] \in InLoop, LoopOK(p)',
         \A q \in Proc \ {p} : SameProcess(q)
  PROVE  TablesOK'
<1>1. Settled(p) /\ \A t \in Table : Alike(t) BY ZenonT(60), OutsideSettled DEF Alike
<1>2. TableOK(p)' BY ZenonT(60), <1>1 DEF Settled, TableOK, Holds, Cur, New
<1>3. \A q \in Proc \ {p} : TableOK(q)' /\ LoopOK(q)'
  <2>1. ~Giving(p) BY ZenonT(60) DEF Giving, InLoop
  <2>. QED BY ZenonT(60), <1>1, <2>1, OtherTables
<1>. QED BY ZenonT(60), <1>2, <1>3 DEF TablesOK

\* A step inside a loop.
LEMMA LoopStep ==
  ASSUME IInv, TablesOK, NEW p \in Proc, pc[p] \in InLoop, pc'[p] \in InLoop,
         Giving(p) => Giving(p)', op'[p] = op[p], peer'[p] = peer[p],
         state'[p] = state[p], sz'[p] = sz[p],
         \A t \in Table : t # Target(p) => Alike(t),
         LoopOK(p)',
         \A q \in Proc \ {p} : SameProcess(q)
  PROVE  TablesOK'
<1>1. /\ TableOK(p) /\ ThreadOK(p) /\ state[p] = "LIVE" /\ pc[p] # "dead"
      /\ Cur(p) \in Table /\ New(p) \in Table
  BY ZenonT(60) DEF IInv, TablesOK, ThreadOK, InLoop, Cur, New, Table
<1>2. TableOK(p)'
  <2>1. op[p] # "exec" => Target(p) # New(p) BY SMTT(60), Z3T(60) DEF Target, Cur, New
  <2>2. op[p] \notin {"grow", "shrink"} => Target(p) # Cur(p)
    <3>1. op[p] \in {"grow", "shrink", "exec", "fork", "wait"} BY ZenonT(60), <1>1 DEF ThreadOK, InLoop
    <3>2. op[p] \in {"fork", "wait"} => peer[p] # p BY ZenonT(60), <1>1 DEF ThreadOK, Forking
    <3>. QED BY SMTT(60), Z3T(60), <3>1, <3>2 DEF Target, Cur, New
  <2>3. op[p] # "exec" => Holds(New(p), 0, 0)'
    BY ZenonT(60), <1>1, <2>1 DEF TableOK, Holds, Alike, New
  <2>4. op[p] \notin {"grow", "shrink"} => Holds(Cur(p), 0, sz[p])'
    BY ZenonT(60), <1>1, <2>2 DEF TableOK, Holds, Alike, Cur
  <2>. HIDE DEF Holds, Giving
  <2>. QED BY ZenonT(60), <1>1, <2>3, <2>4 DEF TableOK
<1>3. \A q \in Proc \ {p} : TableOK(q)' /\ LoopOK(q)'
  <2>1. \A t \in Table : Works(p, t) \/ Alike(t) BY ZenonT(60) DEF Works
  <2>. QED BY ZenonT(60), <1>1, <2>1, OtherTables
<1>. QED BY ZenonT(60), <1>2, <1>3 DEF TablesOK
-----------------------------------------------------------------------------
(***************************************************************************)
(* User mode, faults, copyout and exit                                     *)
(***************************************************************************)
\* A store, kill() and a panic touch no table and no thread.
LEMMA IdleTables ==
  ASSUME TablesOK, NEW p \in Proc,
         \/ \E v \in VA, x \in Val : UserStore(p, v, x)
         \/ \E q \in Proc : Kill(p, q)
         \/ \E why \in PanicMsg : Panic(why)
  PROVE  TablesOK'
<1>1. UNCHANGED <<map, pc, op, ix, lim, peer, sz, state>>
  BY ZenonT(60) DEF UserStore, Kill, Panic, procVars, tableVars, threadVars
<1>. QED BY ZenonT(60), <1>1, StillTables

\* A store page fault, read() and the start of wait()'s copyout.
LEMMA FaultTables ==
  ASSUME IInv, TablesOK, NEW p \in Proc,
         \/ \E v \in 0 .. NV, sp \in VA, first \in BOOLEAN : StoreFault(p, v, sp, first)
         \/ \E v \in 0 .. NV, x \in KVal : Read(p, v, x)
         \/ TrapReturn(p) /\ ~killed[p]
  PROVE  TablesOK'
<1>1. CASE \E why \in PanicMsg : Panic(why) BY ZenonT(60), <1>1, IdleTables
<1>2. CASE ~\E why \in PanicMsg : Panic(why)
  <2>1. pc[p] \in {"user", "tret"} BY ZenonT(60) DEF StoreFault, Read, TrapReturn
  <2>2. /\ \E e \in {"tret", "cow", "write", "user"} : pc' = [pc EXCEPT ![p] = e]
        /\ UNCHANGED <<map, sz, state>>
        /\ \A q \in Proc \ {p} : op'[q] = op[q] /\ ix'[q] = ix[q] /\ lim'[q] = lim[q] /\ peer'[q] = peer[q]
    <3>1. CASE \E v \in 0 .. NV, sp \in VA, first \in BOOLEAN : StoreFault(p, v, sp, first)
      BY ZenonT(60), <3>1, <1>2 DEF StoreFault, Goto, PanicMsg, IInv, TypeOK, procVars, tableVars
    <3>2. CASE \E v \in 0 .. NV, x \in KVal : Read(p, v, x)
      BY ZenonT(60), <3>2 DEF Read, Copyout, Goto, IInv, TypeOK, procVars, tableVars
    <3>3. CASE TrapReturn(p) /\ ~killed[p]
      BY ZenonT(60), <3>3 DEF TrapReturn, Forget, Goto, IInv, TypeOK, procVars, tableVars
    <3>. QED BY ZenonT(60), <3>1, <3>2, <3>3
  <2>3. pc'[p] \in {"tret", "cow", "write", "user"} /\ \A q \in Proc \ {p} : SameProcess(q)
    BY ZenonT(60), <2>2 DEF SameProcess, IInv, TypeOK
  <2>4. pc[p] \notin InLoop /\ pc[p] # "dead" /\ pc'[p] \notin InLoop BY ZenonT(60), <2>1, <2>3 DEF InLoop
  <2>5. \A t \in Table : Alike(t) BY ZenonT(60), <2>2 DEF Alike
  <2>. QED BY ZenonT(60), <2>2, <2>3, <2>4, <2>5, QuietTables
<1>. QED BY <1>1, <1>2

\* custom_cow: the page gets another frame, and stays mapped.
LEMMA CowTables ==
  ASSUME IInv, TablesOK, NEW p \in Proc, CowAlloc(p) \/ CowMap(p) \/ CowFree(p) \/ CowPush(p)
  PROVE  TablesOK'
<1>1. CASE \E why \in PanicMsg : Panic(why) BY ZenonT(60), <1>1, IdleTables
<1>2. CASE ~\E why \in PanicMsg : Panic(why)
  <2>1. pc[p] \in {"cow", "cowmap", "cowdec", "cowpush"} BY ZenonT(60) DEF CowAlloc, CowMap, CowFree, CowPush
  <2>2. /\ \E e \in {"tret", "write", "cowmap", "cowdec", "cowpush"} : pc' = [pc EXCEPT ![p] = e]
        /\ UNCHANGED <<sz, state, op, ix, lim, peer>>
    <3>1. CASE CowAlloc(p) BY ZenonT(60), <3>1 DEF CowAlloc, CowReturn, Goto
    <3>2. CASE CowMap(p) BY ZenonT(60), <3>2 DEF CowMap, Goto, procVars
    <3>3. CASE CowFree(p) BY ZenonT(60), <3>3, <1>2 DEF CowFree, CowReturn, Goto, PanicMsg
    <3>4. CASE CowPush(p) BY ZenonT(60), <3>4 DEF CowPush, CowReturn, Goto
    <3>. QED BY ZenonT(60), <3>1, <3>2, <3>3, <3>4
  <2>3. pc'[p] \in {"tret", "write", "cowmap", "cowdec", "cowpush"} /\ \A q \in Proc \ {p} : SameProcess(q)
    BY ZenonT(60), <2>2 DEF SameProcess, IInv, TypeOK
  <2>4. pc[p] \notin InLoop /\ pc[p] # "dead" /\ pc'[p] \notin InLoop BY ZenonT(60), <2>1, <2>3 DEF InLoop
  <2>5. ASSUME NEW t \in Table PROVE Alike(t)
    <3>1. CASE CowMap(p)
      <4>1. ThreadOK(p) /\ pc[p] = "cowmap" /\ map \in [Table -> [VA -> Frame \cup {NoFrame}]]
        BY ZenonT(60), <3>1 DEF IInv, TypeOK, CowMap
      <4>2. hand[p] # NoFrame /\ ix[p] \in VA /\ map[Cur(p)][ix[p]] # NoFrame
        BY ZenonT(60), <4>1 DEF ThreadOK, InCow, Uncounted
      <4>3. map' = [map EXCEPT ![Cur(p)][ix[p]] = hand[p]] BY ZenonT(60), <3>1 DEF CowMap
      <4>. QED BY ZenonT(60), <4>1, <4>2, <4>3 DEF Alike
    <3>2. CASE ~CowMap(p)
      <4>1. UNCHANGED map BY ZenonT(60), <3>2, <1>2 DEF CowAlloc, CowFree, CowPush, tableVars, PanicMsg
      <4>. QED BY ZenonT(60), <4>1 DEF Alike
    <3>. QED BY <3>1, <3>2
  <2>. QED BY ZenonT(60), <2>2, <2>3, <2>4, <2>5, QuietTables
<1>. QED BY <1>1, <1>2

\* exit() keeps the pages of the process.
LEMMA ExitTables ==
  ASSUME IInv, TablesOK, NEW p \in Proc, pc[p] \in {"user", "tret"}, Exit(p)
  PROVE  TablesOK'
<1>1. CASE \E why \in PanicMsg : Panic(why) BY ZenonT(60), <1>1, IdleTables
<1>2. CASE ~\E why \in PanicMsg : Panic(why)
  <2>1. /\ state' = [state EXCEPT ![p] = "ZOMBIE"] /\ pc' = [pc EXCEPT ![p] = "dead"]
        /\ Forget(p) /\ UNCHANGED <<map, sz>>
    BY ZenonT(60), <1>2 DEF Exit, Goto, PanicMsg, tableVars
  <2>2. pc'[p] = "dead" /\ state'[p] = "ZOMBIE" /\ \A q \in Proc \ {p} : SameProcess(q)
    BY ZenonT(60), <2>1 DEF Forget, SameProcess, IInv, TypeOK
  <2>3. pc[p] \notin InLoop /\ pc[p] # "dead" /\ ~Giving(p) /\ pc'[p] \notin InLoop
    BY ZenonT(60), <2>2 DEF InLoop, Giving
  <2>4. Settled(p) /\ \A t \in Table : Alike(t) BY ZenonT(60), <2>1, <2>3, OutsideSettled DEF Alike
  <2>5. TableOK(p)' BY ZenonT(60), <2>1, <2>2, <2>4 DEF TableOK, Settled, Holds, Cur, New
  <2>6. LoopOK(p)' BY ZenonT(60), <2>2 DEF LoopOK, Filling, Giving
  <2>7. \A q \in Proc \ {p} : TableOK(q)' /\ LoopOK(q)' BY ZenonT(60), <2>2, <2>3, <2>4, OtherTables
  <2>. QED BY ZenonT(60), <2>5, <2>6, <2>7 DEF TablesOK
<1>. QED BY <1>1, <1>2
-----------------------------------------------------------------------------
(***************************************************************************)
(* The start of the loops                                                  *)
(***************************************************************************)
\* A zombie whose parent is not yet freeing it still has its pages.
LEMMA ZombiePages ==
  ASSUME IInv, TablesOK, NEW p \in Proc, pc[p] \notin InLoop, NEW c \in Proc,
         state[c] = "ZOMBIE", parent[c] = p
  PROVE  Holds(Cur(c), 0, sz[c])
<1>1. TableOK(c) /\ \A q \in Proc : ThreadOK(q) BY ZenonT(60) DEF IInv, TablesOK
<1>2. ASSUME NEW q \in Proc, Giving(q), op[q] = "wait", peer[q] = c PROVE FALSE
  <2>1. pc[q] \in InLoop BY ZenonT(60), <1>2 DEF Giving, InLoop
  <2>2. parent[c] = q BY ZenonT(60), <1>1, <1>2, <2>1 DEF ThreadOK
  <2>. QED BY ZenonT(60), <2>1, <2>2
<1>. QED BY ZenonT(60), <1>1, <1>2 DEF TableOK

\* wait() starts to free the child, at once or after its copyout.
LEMMA ReapStart ==
  ASSUME IInv, TablesOK, NEW p \in Proc, pc[p] \notin InLoop, pc[p] # "dead", NEW c \in Proc,
         state[c] = "ZOMBIE", parent[c] = p,
         pc' = [pc EXCEPT ![p] = "unmap"], op'[p] = "wait", peer'[p] = c,
         ix' = [ix EXCEPT ![p] = 0], lim' = [lim EXCEPT ![p] = sz[c]],
         \A q \in Proc \ {p} : op'[q] = op[q] /\ peer'[q] = peer[q],
         UNCHANGED <<map, sz, state>>
  PROVE  TablesOK'
<1>1. Holds(Cur(c), 0, sz[c]) BY ZenonT(60), ZombiePages
<1>2. /\ pc'[p] = "unmap" /\ ix'[p] = 0 /\ lim'[p] = sz[c] /\ \A q \in Proc \ {p} : SameProcess(q)
  BY ZenonT(60) DEF SameProcess, IInv, TypeOK
<1>3. pc'[p] \in InLoop BY ZenonT(60), <1>2 DEF InLoop
<1>4. Holds(Target(p), ix[p], lim[p])' BY ZenonT(60), <1>1, <1>2 DEF Target, Holds, Cur
<1>5. LoopOK(p)'
  <2>. HIDE DEF Holds, Target
  <2>. QED BY ZenonT(60), <1>2, <1>4 DEF LoopOK, Filling, Giving
<1>. QED BY ZenonT(60), <1>2, <1>3, <1>5, EnterStep

\* wait() that finds a zombie.
LEMMA WaitTables ==
  ASSUME IInv, TablesOK, NEW p \in Proc, NEW c \in Proc, Wait(p, c)
  PROVE  TablesOK'
<1>1. /\ pc[p] = "user" /\ state[c] = "ZOMBIE" /\ parent[c] = p
      /\ peer' = [peer EXCEPT ![p] = c] /\ op' = [op EXCEPT ![p] = "wait"]
      /\ UNCHANGED <<map, sz, state>>
  BY ZenonT(60) DEF Wait, procVars, tableVars
<1>2. /\ op'[p] = "wait" /\ peer'[p] = c /\ pc[p] \notin InLoop /\ pc[p] # "dead"
      /\ \A q \in Proc \ {p} : op'[q] = op[q] /\ peer'[q] = peer[q]
  BY ZenonT(60), <1>1 DEF IInv, TypeOK, InLoop
<1>3. CASE StartUnmap(p, 0, sz[c])
  BY ZenonT(60), <1>1, <1>2, <1>3, ReapStart DEF StartUnmap, Goto
<1>4. CASE ~StartUnmap(p, 0, sz[c])
  <2>1. /\ \E e \in {"cow", "write", "tret"} : pc' = [pc EXCEPT ![p] = e]
        /\ lim' = lim /\ \A q \in Proc \ {p} : ix'[q] = ix[q]
    BY ZenonT(60), <1>4 DEF Wait, Copyout, Goto, IInv, TypeOK
  <2>2. pc'[p] \in {"cow", "write", "tret"} /\ \A q \in Proc \ {p} : SameProcess(q)
    BY ZenonT(60), <1>1, <1>2, <2>1 DEF SameProcess, IInv, TypeOK
  <2>3. pc'[p] \notin InLoop /\ \A t \in Table : Alike(t) BY ZenonT(60), <1>1, <2>2 DEF InLoop, Alike
  <2>. QED BY ZenonT(60), <1>1, <1>2, <2>2, <2>3, QuietTables
<1>. QED BY <1>3, <1>4

\* copyout's memmove, after which wait() goes on to free the child.
LEMMA CopyoutTables ==
  ASSUME IInv, TablesOK, NEW p \in Proc, CopyoutWrite(p)
  PROVE  TablesOK'
<1>1. pc[p] = "write" /\ UNCHANGED <<map, sz, state, op, peer>>
  BY ZenonT(60) DEF CopyoutWrite, procVars, tableVars
<1>2. pc[p] \notin InLoop /\ pc[p] # "dead" /\ pc[p] \in InCow /\ ThreadOK(p)
  BY ZenonT(60), <1>1 DEF IInv, InLoop, InCow
<1>3. CASE op[p] = "wait"
  <2>1. peer[p] \in Proc /\ state[peer[p]] = "ZOMBIE" /\ parent[peer[p]] = p BY ZenonT(60), <1>2, <1>3 DEF ThreadOK
  <2>2. /\ pc' = [pc EXCEPT ![p] = "unmap"]
        /\ ix' = [ix EXCEPT ![p] = 0] /\ lim' = [lim EXCEPT ![p] = sz[peer[p]]]
    BY ZenonT(60), <1>3 DEF CopyoutWrite, Goto
  <2>3. PICK c \in Proc : c = peer[p] BY <2>1
  <2>. QED BY ZenonT(60), <1>1, <1>2, <1>3, <2>1, <2>2, <2>3, ReapStart
<1>4. CASE op[p] # "wait"
  <2>1. pc' = [pc EXCEPT ![p] = "tret"] /\ UNCHANGED <<ix, lim>> BY ZenonT(60), <1>4 DEF CopyoutWrite, Goto
  <2>2. pc'[p] = "tret" /\ \A q \in Proc \ {p} : SameProcess(q)
    BY ZenonT(60), <1>1, <2>1 DEF SameProcess, IInv, TypeOK
  <2>3. pc'[p] \notin InLoop /\ \A t \in Table : Alike(t) BY ZenonT(60), <1>1, <2>2 DEF InLoop, Alike
  <2>. QED BY ZenonT(60), <1>1, <1>2, <2>2, <2>3, QuietTables
<1>. QED BY <1>3, <1>4

\* sbrk: growing starts at the old size, shrinking unmaps down to the new one.
LEMMA SbrkTables ==
  ASSUME IInv, TablesOK, NEW p \in Proc, NEW n \in -NV .. NV, Sbrk(p, n)
  PROVE  TablesOK'
<1>1. pc[p] = "user" /\ UNCHANGED <<map, state, peer>> /\ sz[p] \in 0 .. NV /\ NV \in Nat
  BY ZenonT(60), ConstantTypes DEF Sbrk, tableVars, IInv, TypeOK
<1>2. pc[p] \notin InLoop /\ pc[p] # "dead" BY ZenonT(60), <1>1 DEF InLoop
<1>3. Holds(Cur(p), 0, sz[p]) BY ZenonT(60), <1>2, OutsideSettled DEF Settled
<1>4. CASE n > 0
  <2>1. /\ pc' = [pc EXCEPT ![p] = "alloc"] /\ op' = [op EXCEPT ![p] = "grow"]
        /\ ix' = [ix EXCEPT ![p] = sz[p]] /\ lim' = [lim EXCEPT ![p] = sz[p] + n] /\ UNCHANGED sz
    <3>1. ~(n < 0) BY SMTT(60), Z3T(60), <1>4
    <3>. QED BY ZenonT(60), <3>1 DEF Sbrk, Goto
  <2>2. /\ pc'[p] = "alloc" /\ op'[p] = "grow" /\ ix'[p] = sz[p] /\ lim'[p] = sz[p] + n
        /\ \A q \in Proc \ {p} : SameProcess(q)
    BY ZenonT(60), <1>1, <2>1 DEF SameProcess, IInv, TypeOK
  <2>3. sz[p] <= sz[p] + n /\ sz[p] <= sz[p] BY SMTT(60), Z3T(60), <1>1, <1>4
  <2>4. Holds(Target(p), 0, ix[p])' BY ZenonT(60), <1>1, <1>3, <2>2 DEF Target, Holds, Cur
  <2>5. LoopOK(p)'
    <3>. HIDE DEF Holds, Target
    <3>. QED BY ZenonT(60), <2>1, <2>2, <2>3, <2>4 DEF LoopOK, Filling, Giving
  <2>6. pc'[p] \in InLoop BY ZenonT(60), <2>2 DEF InLoop
  <2>. QED BY ZenonT(60), <1>1, <1>2, <2>1, <2>2, <2>5, <2>6, EnterStep
<1>5. CASE ~(n > 0)
  <2>1. /\ n < 0 /\ sz[p] + n >= 0 /\ sz' = [sz EXCEPT ![p] = sz[p] + n]
        /\ pc' = [pc EXCEPT ![p] = "unmap"] /\ op' = [op EXCEPT ![p] = "shrink"]
        /\ ix' = [ix EXCEPT ![p] = sz[p] + n] /\ lim' = [lim EXCEPT ![p] = sz[p]]
    BY ZenonT(60), <1>5 DEF Sbrk, StartUnmap, Goto
  <2>2. /\ pc'[p] = "unmap" /\ op'[p] = "shrink" /\ ix'[p] = sz[p] + n /\ lim'[p] = sz[p]
        /\ sz'[p] = sz[p] + n /\ \A q \in Proc \ {p} : SameProcess(q)
    BY ZenonT(60), <1>1, <2>1 DEF SameProcess, IInv, TypeOK
  <2>3. /\ sz[p] + n <= sz[p] + n
        /\ \A v \in VA : map[Cur(p)][v] # NoFrame <=> v < sz[p] + n \/ (sz[p] + n <= v /\ v < sz[p])
    <3>1. \A v \in VA : 0 <= v /\ v < sz[p] <=> v < sz[p] + n \/ (sz[p] + n <= v /\ v < sz[p])
      BY SMTT(60), Z3T(60), <1>1, <2>1 DEF VA
    <3>2. sz[p] + n <= sz[p] + n BY SMTT(60), Z3T(60), <1>1
    <3>. QED BY ZenonT(60), <1>3, <3>1, <3>2 DEF Holds
  <2>4. LoopOK(p)' BY ZenonT(60), <1>1, <2>2, <2>3 DEF LoopOK, Filling, Giving, Cur
  <2>5. pc'[p] \in InLoop BY ZenonT(60), <2>2 DEF InLoop
  <2>. QED BY ZenonT(60), <1>1, <1>2, <2>2, <2>4, <2>5, EnterStep
<1>. QED BY <1>4, <1>5

\* exec starts with an empty second table.
LEMMA ExecTables ==
  ASSUME IInv, TablesOK, NEW p \in Proc, Exec(p)
  PROVE  TablesOK'
<1>1. /\ pc[p] = "user" /\ UNCHANGED <<map, state, peer, sz>>
      /\ pc' = [pc EXCEPT ![p] = "alloc"] /\ op' = [op EXCEPT ![p] = "exec"]
      /\ ix' = [ix EXCEPT ![p] = 0] /\ lim' = [lim EXCEPT ![p] = Len(Image)]
  BY ZenonT(60) DEF Exec, Goto, procVars, tableVars
<1>2. pc[p] \notin InLoop /\ pc[p] # "dead" BY ZenonT(60), <1>1 DEF InLoop
<1>3. Holds(New(p), 0, 0) BY ZenonT(60), <1>2, OutsideSettled DEF Settled
<1>4. /\ pc'[p] = "alloc" /\ op'[p] = "exec" /\ ix'[p] = 0 /\ lim'[p] = Len(Image)
      /\ \A q \in Proc \ {p} : SameProcess(q)
  BY ZenonT(60), <1>1 DEF SameProcess, IInv, TypeOK
<1>5. 0 <= Len(Image) BY SMTT(60), Z3T(60), ConstantTypes
<1>6. Holds(Target(p), 0, ix[p])' BY ZenonT(60), <1>1, <1>3, <1>4 DEF Target, Holds, New
<1>7. LoopOK(p)'
  <2>. HIDE DEF Holds, Target
  <2>. QED BY ZenonT(60), <1>4, <1>5, <1>6 DEF LoopOK, Filling, Giving
<1>8. pc'[p] \in InLoop BY ZenonT(60), <1>4 DEF InLoop
<1>. QED BY ZenonT(60), <1>1, <1>2, <1>4, <1>7, <1>8, EnterStep

\* fork takes a slot whose table is empty.
LEMMA ForkTables ==
  ASSUME IInv, TablesOK, NEW p \in Proc, Fork(p)
  PROVE  TablesOK'
<1>1. pc[p] = "user" /\ UNCHANGED <<map, sz>> /\ NV \in Nat /\ sz[p] \in 0 .. NV /\ ThreadOK(p)
  BY ZenonT(60), ConstantTypes DEF Fork, tableVars, IInv, TypeOK
<1>2. pc[p] \notin InLoop /\ pc[p] # "dead" /\ ~Giving(p) BY ZenonT(60), <1>1 DEF InLoop, Giving
<1>3. Settled(p) /\ \A t \in Table : Alike(t) BY ZenonT(60), <1>1, <1>2, OutsideSettled DEF Alike
<1>4. ASSUME NEW c \in Proc, state[c] = "UNUSED", state' = [state EXCEPT ![c] = "USED"],
             peer' = [peer EXCEPT ![p] = c], op' = [op EXCEPT ![p] = "fork"],
             ix' = [ix EXCEPT ![p] = 0], lim' = [lim EXCEPT ![p] = sz[p]],
             pc' = [pc EXCEPT ![p] = "copy"]
      PROVE  TablesOK'
  <2>1. ThreadOK(c) /\ TableOK(c) BY ZenonT(60) DEF IInv, TablesOK
  <2>2. pc[c] = "dead" /\ c # p /\ Holds(Cur(c), 0, 0) /\ Holds(New(c), 0, 0)
    BY ZenonT(60), <1>1, <1>4, <2>1 DEF ThreadOK, TableOK, InLoop
  <2>3. /\ pc'[p] = "copy" /\ op'[p] = "fork" /\ ix'[p] = 0 /\ lim'[p] = sz[p] /\ peer'[p] = c
        /\ state'[p] = state[p] /\ pc'[c] = "dead" /\ state'[c] = "USED"
        /\ \A q \in Proc \ {p, c} : SameProcess(q)
    BY ZenonT(60), <1>1, <1>4, <2>2 DEF SameProcess, IInv, TypeOK
  <2>4. TableOK(p)' BY ZenonT(60), <1>1, <1>3, <2>3 DEF Settled, TableOK, Holds, Cur, New
  <2>5. LoopOK(p)'
    <3>1. Holds(Target(p), 0, ix[p])' BY ZenonT(60), <1>1, <2>2, <2>3 DEF Target, Holds, Cur
    <3>2. 0 <= sz[p] BY SMTT(60), Z3T(60), <1>1
    <3>. HIDE DEF Holds, Target
    <3>. QED BY ZenonT(60), <1>1, <2>3, <3>1, <3>2 DEF LoopOK, Filling, Giving
  <2>6. TableOK(c)' BY ZenonT(60), <1>1, <2>2, <2>3 DEF TableOK, Holds, New
  <2>7. LoopOK(c)' BY ZenonT(60), <2>3 DEF LoopOK, Filling, Giving
  <2>8. \A q \in Proc \ {p, c} : TableOK(q)' /\ LoopOK(q)'
    <3>1. ~Giving(c) BY ZenonT(60), <2>2 DEF Giving
    <3>2. \A r \in {p, c} : ~Giving(r) BY ZenonT(60), <1>2, <3>1
    <3>3. {p, c} \in SUBSET Proc /\ p \in {p, c} BY ZenonT(60)
    <3>. QED BY ZenonT(60), <1>2, <1>3, <2>3, <3>2, <3>3, OtherTables
  <2>. QED BY ZenonT(60), <2>4, <2>5, <2>6, <2>7, <2>8 DEF TablesOK
<1>5. ASSUME pc' = [pc EXCEPT ![p] = "tret"], UNCHANGED <<state, peer, op, ix, lim>>
      PROVE  TablesOK'
  <2>1. pc'[p] = "tret" /\ \A q \in Proc \ {p} : SameProcess(q)
    BY ZenonT(60), <1>1, <1>5 DEF SameProcess, IInv, TypeOK
  <2>2. pc'[p] \notin InLoop BY ZenonT(60), <2>1 DEF InLoop
  <2>. QED BY ZenonT(60), <1>1, <1>2, <1>3, <1>5, <2>1, <2>2, QuietTables
<1>. QED BY ZenonT(60), <1>4, <1>5 DEF Fork, Goto
-----------------------------------------------------------------------------
(***************************************************************************)
(* Inside the loops                                                        *)
(***************************************************************************)
\* uvmunmap takes the lowest page of what is left.
LEMMA UnmapTables ==
  ASSUME IInv, TablesOK, NEW p \in Proc, Unmap(p)
  PROVE  TablesOK'
<1>1. CASE \E why \in PanicMsg : Panic(why) BY ZenonT(60), <1>1, IdleTables
<1>2. CASE ~\E why \in PanicMsg : Panic(why)
  <2>1. /\ pc[p] = "unmap" /\ ix[p] < lim[p]
        /\ map' = [map EXCEPT ![Target(p)][ix[p]] = NoFrame] /\ ix' = [ix EXCEPT ![p] = ix[p] + 1]
        /\ pc' = pc \/ pc' = [pc EXCEPT ![p] = "push"]
        /\ UNCHANGED <<state, sz, op, lim, peer>>
    BY ZenonT(60), <1>2 DEF Unmap, PanicMsg, procVars, Goto
  <2>2. pc[p] \in InLoop /\ Giving(p) BY ZenonT(60), <2>1 DEF InLoop, Giving
  <2>3. Target(p) \in Table /\ Target(p)' = Target(p) BY ZenonT(60), <2>1, <2>2, TargetPrivate DEF Target, Cur, New
  <2>4. /\ TypeOK /\ ThreadOK(p) /\ LoopOK(p) /\ ix[p] \in 0 .. NV /\ lim[p] \in 0 .. NV
        /\ sz[p] \in 0 .. NV /\ NV \in Nat /\ map \in [Table -> [VA -> Frame \cup {NoFrame}]]
    BY ZenonT(60), ConstantTypes DEF IInv, TablesOK, TypeOK
  <2>5. /\ pc'[p] \in {"unmap", "push"} /\ ix'[p] = ix[p] + 1 /\ \A q \in Proc \ {p} : SameProcess(q)
    BY ZenonT(60), <2>1, <2>4 DEF SameProcess, TypeOK
  <2>6. ix[p] \in VA BY SMTT(60), Z3T(60), SMTT(61), <2>1, <2>4 DEF VA
  <2>7. /\ \A t \in Table : t # Target(p) => Alike(t)
        /\ \A v \in VA : map'[Target(p)][v] # NoFrame <=> map[Target(p)][v] # NoFrame /\ v # ix[p]
    BY ZenonT(60), <2>1, <2>3, <2>4, <2>6 DEF Alike
  <2>8. op[p] \in {"fork", "wait", "exec"} => Holds(Target(p), ix[p], lim[p])'
    <3>. SUFFICES ASSUME op[p] \in {"fork", "wait", "exec"}, NEW v \in VA
                  PROVE  map'[Target(p)][v] # NoFrame <=> ix[p] + 1 <= v /\ v < lim[p]
      BY ZenonT(60), <2>1, <2>3, <2>5 DEF Holds
    <3>1. map[Target(p)][v] # NoFrame <=> ix[p] <= v /\ v < lim[p]
      BY ZenonT(60), <2>2, <2>4 DEF LoopOK, Holds
    <3>2. ix[p] <= v /\ v # ix[p] <=> ix[p] + 1 <= v BY SMTT(60), Z3T(60), <2>4 DEF VA
    <3>. QED BY ZenonT(60), <2>7, <3>1, <3>2
  <2>9. op[p] \in {"grow", "shrink"} =>
          /\ sz[p] <= ix[p] + 1
          /\ \A v \in VA : map'[Cur(p)][v] # NoFrame <=> v < sz[p] \/ (ix[p] + 1 <= v /\ v < lim[p])
    <3>. SUFFICES ASSUME op[p] \in {"grow", "shrink"}
                  PROVE  /\ sz[p] <= ix[p] + 1
                         /\ \A v \in VA : map'[Cur(p)][v] # NoFrame <=> v < sz[p] \/ (ix[p] + 1 <= v /\ v < lim[p])
      BY ZenonT(60)
    <3>1. /\ sz[p] <= ix[p] /\ Target(p) = Cur(p)
          /\ \A v \in VA : map[Cur(p)][v] # NoFrame <=> v < sz[p] \/ (ix[p] <= v /\ v < lim[p])
      BY ZenonT(60), <2>2, <2>4 DEF LoopOK, Target
    <3>2. \A v \in VA : (v < sz[p] \/ (ix[p] <= v /\ v < lim[p])) /\ v # ix[p]
                          <=> v < sz[p] \/ (ix[p] + 1 <= v /\ v < lim[p])
      BY SMTT(60), Z3T(60), SMTT(61), <2>4, <3>1 DEF VA
    <3>3. sz[p] <= ix[p] + 1 BY SMTT(60), Z3T(60), SMTT(61), <2>4, <3>1
    <3>. QED BY ZenonT(60), <2>7, <3>1, <3>2, <3>3
  <2>10. LoopOK(p)'
    <3>. HIDE DEF Holds, Target
    <3>. QED BY ZenonT(60), <2>1, <2>5, <2>8, <2>9 DEF LoopOK, Filling, Giving, Cur
  <2>11. pc'[p] \in InLoop /\ Giving(p)' BY ZenonT(60), <2>5 DEF InLoop, Giving
  <2>. QED BY ZenonT(60), <2>1, <2>2, <2>5, <2>7, <2>10, <2>11, LoopStep
<1>. QED BY <1>1, <1>2

\* kfree's push of the page that uvmunmap took.
LEMMA FreePushTables ==
  ASSUME IInv, TablesOK, NEW p \in Proc, FreePush(p)
  PROVE  TablesOK'
<1>1. /\ pc[p] = "push" /\ pc' = [pc EXCEPT ![p] = "unmap"]
      /\ UNCHANGED <<map, state, sz, op, ix, lim, peer>> /\ LoopOK(p)
  BY ZenonT(60) DEF FreePush, Goto, procVars, tableVars, TablesOK
<1>2. pc'[p] = "unmap" /\ \A q \in Proc \ {p} : SameProcess(q)
  BY ZenonT(60), <1>1 DEF SameProcess, IInv, TypeOK
<1>3. pc[p] \in InLoop /\ pc'[p] \in InLoop /\ Giving(p)' BY ZenonT(60), <1>1, <1>2 DEF InLoop, Giving
<1>4. LoopOK(p)' BY ZenonT(60), <1>1, <1>2 DEF LoopOK, Filling, Giving, Holds, Target, Cur, New
<1>5. \A t \in Table : Alike(t) BY ZenonT(60), <1>1 DEF Alike
<1>. QED BY ZenonT(60), <1>1, <1>2, <1>3, <1>4, <1>5, LoopStep

\* uvmalloc gives up and starts to give back what it has mapped.
LEMMA GiveBack ==
  ASSUME IInv, TablesOK, NEW p \in Proc, Filling(p),
         pc'[p] \in {"unmap", "push"}, ix'[p] = AllocBase(p), lim'[p] = ix[p],
         UNCHANGED <<map, op, peer, state, sz>>,
         \A q \in Proc \ {p} : SameProcess(q)
  PROVE  TablesOK'
<1>1. /\ ThreadOK(p) /\ LoopOK(p) /\ ix[p] \in 0 .. NV /\ sz[p] \in 0 .. NV /\ NV \in Nat
  BY ZenonT(60), ConstantTypes DEF IInv, TypeOK, TablesOK
<1>2. /\ op[p] \in {"grow", "exec"} /\ Holds(Target(p), 0, ix[p]) /\ (op[p] = "grow" => sz[p] <= ix[p])
      /\ pc[p] \in InLoop /\ pc'[p] \in InLoop /\ Giving(p)'
  BY ZenonT(60), <1>1 DEF ThreadOK, LoopOK, Filling, Giving, InLoop
<1>3. op[p] = "exec" => Holds(Target(p), ix[p], lim[p])'
  BY ZenonT(60), <1>2 DEF Holds, Target, New, AllocBase
<1>4. op[p] = "grow" =>
        /\ ix'[p] = sz[p] /\ sz[p] <= sz[p]
        /\ \A v \in VA : map[Cur(p)][v] # NoFrame <=> v < sz[p] \/ (sz[p] <= v /\ v < ix[p])
  <2>. SUFFICES ASSUME op[p] = "grow"
                PROVE  /\ ix'[p] = sz[p] /\ sz[p] <= sz[p]
                       /\ \A v \in VA : map[Cur(p)][v] # NoFrame <=> v < sz[p] \/ (sz[p] <= v /\ v < ix[p])
    BY ZenonT(60)
  <2>1. ix'[p] = sz[p] /\ \A v \in VA : map[Cur(p)][v] # NoFrame <=> 0 <= v /\ v < ix[p]
    BY ZenonT(60), <1>2 DEF AllocBase, Holds, Target
  <2>2. \A v \in VA : 0 <= v /\ v < ix[p] <=> v < sz[p] \/ (sz[p] <= v /\ v < ix[p])
    BY SMTT(60), Z3T(60), SMTT(61), <1>1, <1>2 DEF VA
  <2>3. sz[p] <= sz[p] BY SMTT(60), Z3T(60), SMTT(61), <1>1
  <2>. QED BY ZenonT(60), <2>1, <2>2, <2>3
<1>5. LoopOK(p)'
  <2>. HIDE DEF Holds, Target
  <2>. QED BY ZenonT(60), <1>2, <1>3, <1>4 DEF LoopOK, Filling, Giving, Cur
<1>6. \A t \in Table : Alike(t) BY ZenonT(60) DEF Alike
<1>. QED BY ZenonT(60), <1>2, <1>5, <1>6, LoopStep

\* uvmalloc's kalloc, kfree after a failed mappages, and exec's "bad".
LEMMA AllocTables ==
  ASSUME IInv, TablesOK, NEW p \in Proc, AllocPop(p) \/ MemFree(p) \/ ExecBad(p)
  PROVE  TablesOK'
<1>. TypeOK BY ZenonT(60) DEF IInv
<1>1. CASE \E why \in PanicMsg : Panic(why) BY ZenonT(60), <1>1, IdleTables
<1>2. CASE /\ pc[p] = "alloc" /\ pc' = [pc EXCEPT ![p] = "allocmap"] /\ ix[p] < lim[p]
           /\ UNCHANGED <<map, state, sz, op, ix, lim, peer>>
  <2>1. LoopOK(p) BY ZenonT(60) DEF TablesOK
  <2>2. pc'[p] = "allocmap" /\ \A q \in Proc \ {p} : SameProcess(q)
    BY ZenonT(60), <1>2 DEF SameProcess, TypeOK
  <2>3. pc[p] \in InLoop /\ pc'[p] \in InLoop /\ ~Giving(p) BY ZenonT(60), <1>2, <2>2 DEF InLoop, Giving
  <2>4. LoopOK(p)' BY ZenonT(60), <1>2, <2>1, <2>2 DEF LoopOK, Filling, Giving, Holds, Target, Cur, New
  <2>5. \A t \in Table : Alike(t) BY ZenonT(60), <1>2 DEF Alike
  <2>. QED BY ZenonT(60), <1>2, <2>2, <2>3, <2>4, <2>5, LoopStep
<1>3. CASE /\ Filling(p) /\ UNCHANGED <<map, op, peer, state, sz>>
           /\ \E e \in {"unmap", "push"} : pc' = [pc EXCEPT ![p] = e]
           /\ ix' = [ix EXCEPT ![p] = AllocBase(p)] /\ lim' = [lim EXCEPT ![p] = ix[p]]
  <2>1. /\ pc'[p] \in {"unmap", "push"} /\ ix'[p] = AllocBase(p) /\ lim'[p] = ix[p]
        /\ \A q \in Proc \ {p} : SameProcess(q)
    BY ZenonT(60), <1>3 DEF SameProcess, TypeOK
  <2>. QED BY ZenonT(60), <1>3, <2>1, GiveBack
<1>4. CASE AllocPop(p)
  BY ZenonT(60), <1>2, <1>3, <1>4 DEF AllocPop, StartUnmap, Goto, Filling, procVars, tableVars
<1>5. CASE MemFree(p)
  BY ZenonT(60), <1>1, <1>3, <1>5 DEF MemFree, Goto, Filling, procVars, tableVars, PanicMsg
<1>6. CASE ExecBad(p)
  BY ZenonT(60), <1>3, <1>6 DEF ExecBad, StartUnmap, AllocBase, Goto, Filling, procVars, tableVars
<1>. QED BY ZenonT(60), <1>4, <1>5, <1>6

\* Mapping page n of a table that holds the pages below n.
LEMMA OneMore ==
  ASSUME NEW t \in Table, NEW n \in VA, NEW f, f # NoFrame, TypeOK,
         map' = [map EXCEPT ![t][n] = f], Holds(t, 0, n)
  PROVE  /\ \A v \in VA : map'[t][v] # NoFrame <=> 0 <= v /\ v < n + 1
         /\ \A u \in Table : u # t => Alike(u)
<1>1. map \in [Table -> [VA -> Frame \cup {NoFrame}]] BY DEF TypeOK
<1>2. \A v \in VA : map'[t][v] # NoFrame <=> map[t][v] # NoFrame \/ v = n
  BY ZenonT(60), <1>1
<1>3. \A v \in VA : (0 <= v /\ v < n) \/ v = n <=> 0 <= v /\ v < n + 1
  BY SMTT(60), Z3T(60), ConstantTypes DEF VA
<1>4. \A v \in VA : map'[t][v] # NoFrame <=> 0 <= v /\ v < n + 1 BY ZenonT(60), <1>2, <1>3 DEF Holds
<1>5. \A u \in Table : u # t => Alike(u) BY ZenonT(60), <1>1 DEF Alike
<1>. QED BY <1>4, <1>5

\* mappages in uvmalloc: one page more, or none.
LEMMA AllocMapTables ==
  ASSUME IInv, TablesOK, NEW p \in Proc, AllocMap(p)
  PROVE  TablesOK'
<1>1. CASE \E why \in PanicMsg : Panic(why) BY ZenonT(60), <1>1, IdleTables
<1>2. CASE ~\E why \in PanicMsg : Panic(why)
  <2>1. pc[p] = "allocmap" /\ UNCHANGED <<state, sz, op, lim, peer>>
    BY ZenonT(60), <1>2 DEF AllocMap, PanicMsg, procVars
  <2>2. /\ TypeOK /\ ThreadOK(p) /\ LoopOK(p) /\ ix[p] \in 0 .. NV /\ lim[p] \in 0 .. NV
        /\ sz[p] \in 0 .. NV /\ NV \in Nat
    BY ZenonT(60), ConstantTypes DEF IInv, TablesOK, TypeOK
  <2>3. /\ pc[p] \in InLoop /\ ~Giving(p) /\ Filling(p) /\ hand[p] # NoFrame /\ ix[p] < lim[p]
        /\ Holds(Target(p), 0, ix[p]) /\ (op[p] = "grow" => sz[p] <= ix[p]) /\ op[p] \in {"grow", "exec"}
    BY ZenonT(60), <2>1, <2>2 DEF InLoop, Giving, Filling, ThreadOK, LoopOK, Uncounted
  <2>4. /\ ix[p] \in VA /\ ix[p] + 1 <= lim[p] /\ (op[p] = "grow" => sz[p] <= ix[p] + 1)
    BY SMTT(60), Z3T(60), <2>2, <2>3 DEF VA
  <2>5. Target(p) \in Table /\ Target(p)' = Target(p)
    BY ZenonT(60), <2>1, <2>3, TargetPrivate DEF Target, Cur, New
  <2>6. CASE /\ map' = [map EXCEPT ![Target(p)][ix[p]] = hand[p]] /\ ix' = [ix EXCEPT ![p] = ix[p] + 1]
             /\ pc' = [pc EXCEPT ![p] = "alloc"]
    <3>1. /\ \A v \in VA : map'[Target(p)][v] # NoFrame <=> 0 <= v /\ v < ix[p] + 1
          /\ \A t \in Table : t # Target(p) => Alike(t)
      BY ZenonT(60), <2>2, <2>3, <2>4, <2>5, <2>6, OneMore
    <3>2. pc'[p] = "alloc" /\ ix'[p] = ix[p] + 1 /\ \A q \in Proc \ {p} : SameProcess(q)
      BY ZenonT(60), <2>1, <2>2, <2>6 DEF SameProcess, TypeOK
    <3>3. Holds(Target(p), 0, ix[p])' BY ZenonT(60), <2>5, <3>1, <3>2 DEF Holds
    <3>4. LoopOK(p)'
      <4>. HIDE DEF Holds, Target
      <4>. QED BY ZenonT(60), <2>1, <2>4, <3>2, <3>3 DEF LoopOK, Filling, Giving
    <3>5. pc'[p] \in InLoop BY ZenonT(60), <3>2 DEF InLoop
    <3>. QED BY ZenonT(60), <2>1, <2>3, <3>1, <3>2, <3>4, <3>5, LoopStep
  <2>7. CASE pc' = [pc EXCEPT ![p] = "memfree"] /\ UNCHANGED <<map, ix>>
    <3>1. pc'[p] = "memfree" /\ \A q \in Proc \ {p} : SameProcess(q)
      BY ZenonT(60), <2>1, <2>2, <2>7 DEF SameProcess, TypeOK
    <3>2. LoopOK(p)' BY ZenonT(60), <2>1, <2>2, <2>3, <2>5, <2>7, <3>1 DEF LoopOK, Filling, Giving, Holds
    <3>3. pc'[p] \in InLoop /\ \A t \in Table : Alike(t) BY ZenonT(60), <2>7, <3>1 DEF InLoop, Alike
    <3>. QED BY ZenonT(60), <2>1, <2>3, <3>1, <3>2, <3>3, LoopStep
  <2>. QED BY ZenonT(60), <1>2, <2>6, <2>7 DEF AllocMap, PanicMsg, Goto, tableVars
<1>. QED BY <1>1, <1>2

\* What uvmcopy knows of its two tables.
LEMMA CopyFacts ==
  ASSUME IInv, TablesOK, NEW p \in Proc, pc[p] \in {"copy", "copyinc"}
  PROVE  /\ TypeOK /\ ThreadOK(p) /\ LoopOK(p) /\ pc[p] \in InLoop /\ ~Giving(p)
         /\ op[p] = "fork" /\ peer[p] \in Proc /\ peer[p] # p /\ state[peer[p]] = "USED"
         /\ Target(p) = Cur(peer[p]) /\ Target(p) \in Table
         /\ Holds(Cur(p), 0, sz[p]) /\ Holds(New(p), 0, 0) /\ lim[p] = sz[p]
         /\ ix[p] \in 0 .. NV /\ lim[p] \in 0 .. NV /\ NV \in Nat
<1>1. /\ TypeOK /\ ThreadOK(p) /\ LoopOK(p) /\ TableOK(p)
      /\ ix[p] \in 0 .. NV /\ lim[p] \in 0 .. NV /\ NV \in Nat
  BY ZenonT(60), ConstantTypes DEF IInv, TypeOK, TablesOK
<1>2. pc[p] \in InLoop /\ ~Giving(p) /\ op[p] = "fork" BY ZenonT(60), <1>1 DEF InLoop, Giving, ThreadOK
<1>3. peer[p] \in Proc /\ peer[p] # p /\ state[peer[p]] = "USED" /\ state[p] = "LIVE"
  BY ZenonT(60), <1>1, <1>2 DEF ThreadOK, Forking
<1>4. Target(p) = Cur(peer[p]) /\ Target(p) \in Table BY ZenonT(60), <1>2, TargetPrivate DEF Target
<1>5. Holds(Cur(p), 0, sz[p]) /\ Holds(New(p), 0, 0) /\ lim[p] = sz[p]
  BY ZenonT(60), <1>1, <1>2, <1>3 DEF TableOK, LoopOK
<1>. QED BY <1>1, <1>2, <1>3, <1>4, <1>5

\* One page of uvmcopy.
LEMMA CopyPageTables ==
  ASSUME IInv, TablesOK, NEW p \in Proc, CopyPage(p)
  PROVE  TablesOK'
<1>1. CASE \E why \in PanicMsg : Panic(why) BY ZenonT(60), <1>1, IdleTables
<1>2. CASE ~\E why \in PanicMsg : Panic(why)
  <2>1. /\ pc[p] = "copy" /\ ix[p] < lim[p] /\ UNCHANGED <<state, sz, op, peer>>
        /\ map[Cur(p)][ix[p]] # NoFrame
    BY ZenonT(60), <1>2 DEF CopyPage, PanicMsg, procVars
  <2>2. /\ TypeOK /\ ThreadOK(p) /\ LoopOK(p) /\ pc[p] \in InLoop /\ ~Giving(p) /\ op[p] = "fork"
        /\ Target(p) = Cur(peer[p]) /\ Target(p) \in Table /\ lim[p] = sz[p]
        /\ ix[p] \in 0 .. NV /\ lim[p] \in 0 .. NV /\ NV \in Nat
    BY ZenonT(60), <2>1, CopyFacts
  <2>3. Holds(Target(p), 0, ix[p]) /\ Target(p)' = Target(p)
    BY ZenonT(60), <2>1, <2>2 DEF LoopOK, Target, Cur, New
  <2>4. CASE /\ map' = [map EXCEPT ![Target(p)][ix[p]] = map[Cur(p)][ix[p]]]
             /\ pc' = [pc EXCEPT ![p] = "copyinc"] /\ UNCHANGED <<ix, lim>>
    <3>1. ix[p] \in VA BY SMTT(60), Z3T(60), SMTT(61), <2>1, <2>2 DEF VA
    <3>2. /\ \A v \in VA : map'[Target(p)][v] # NoFrame <=> 0 <= v /\ v < ix[p] + 1
          /\ \A t \in Table : t # Target(p) => Alike(t)
      BY ZenonT(60), <2>1, <2>2, <2>3, <2>4, <3>1, OneMore
    <3>3. pc'[p] = "copyinc" /\ \A q \in Proc \ {p} : SameProcess(q)
      BY ZenonT(60), <2>1, <2>2, <2>4 DEF SameProcess, TypeOK
    <3>4. Holds(Target(p), 0, ix[p] + 1)' BY ZenonT(60), <2>3, <2>4, <3>2 DEF Holds
    <3>5. LoopOK(p)'
      <4>. HIDE DEF Holds, Target
      <4>. QED BY ZenonT(60), <2>1, <2>2, <2>4, <3>3, <3>4 DEF LoopOK, Filling, Giving
    <3>6. pc'[p] \in InLoop BY ZenonT(60), <3>3 DEF InLoop
    <3>. QED BY ZenonT(60), <2>1, <2>2, <3>2, <3>3, <3>5, <3>6, LoopStep
  <2>5. CASE /\ pc' = [pc EXCEPT ![p] = "unmap"] /\ ix' = [ix EXCEPT ![p] = 0]
             /\ lim' = [lim EXCEPT ![p] = ix[p]] /\ UNCHANGED map
    <3>1. pc'[p] = "unmap" /\ ix'[p] = 0 /\ lim'[p] = ix[p] /\ \A q \in Proc \ {p} : SameProcess(q)
      BY ZenonT(60), <2>1, <2>2, <2>5 DEF SameProcess, TypeOK
    <3>2. Holds(Target(p), ix[p], lim[p])' BY ZenonT(60), <2>3, <2>5, <3>1 DEF Holds
    <3>3. LoopOK(p)'
      <4>. HIDE DEF Holds, Target
      <4>. QED BY ZenonT(60), <2>1, <2>2, <3>1, <3>2 DEF LoopOK, Filling, Giving
    <3>4. pc'[p] \in InLoop /\ \A t \in Table : Alike(t) BY ZenonT(60), <2>5, <3>1 DEF InLoop, Alike
    <3>. QED BY ZenonT(60), <2>1, <2>2, <3>1, <3>3, <3>4, LoopStep
  <2>. QED BY ZenonT(60), <1>2, <2>2, <2>4, <2>5 DEF CopyPage, PanicMsg, StartUnmap, Goto
<1>. QED BY <1>1, <1>2

\* uvmcopy counts the page and goes to the next.
LEMMA CopyIncrementTables ==
  ASSUME IInv, TablesOK, NEW p \in Proc, CopyIncrement(p)
  PROVE  TablesOK'
<1>1. /\ pc[p] = "copyinc" /\ ix' = [ix EXCEPT ![p] = ix[p] + 1] /\ pc' = [pc EXCEPT ![p] = "copy"]
      /\ UNCHANGED <<map, state, sz, op, lim, peer>>
  BY ZenonT(60) DEF CopyIncrement, Goto, procVars, tableVars
<1>2. /\ TypeOK /\ LoopOK(p) /\ pc[p] \in InLoop /\ ~Giving(p) /\ op[p] = "fork"
      /\ lim[p] = sz[p] /\ ix[p] \in 0 .. NV /\ lim[p] \in 0 .. NV /\ NV \in Nat
  BY ZenonT(60), <1>1, CopyFacts
<1>3. pc'[p] = "copy" /\ ix'[p] = ix[p] + 1 /\ \A q \in Proc \ {p} : SameProcess(q)
  BY ZenonT(60), <1>1, <1>2 DEF SameProcess, TypeOK
<1>4. ix[p] < lim[p] /\ Holds(Target(p), 0, ix[p] + 1) /\ Target(p)' = Target(p)
  BY ZenonT(60), <1>1, <1>2 DEF LoopOK, Target, Cur, New
<1>5. ix[p] + 1 <= lim[p] BY SMTT(60), Z3T(60), SMTT(61), <1>2, <1>4
<1>6. Holds(Target(p), 0, ix[p])' BY ZenonT(60), <1>1, <1>3, <1>4 DEF Holds
<1>7. LoopOK(p)'
  <2>. HIDE DEF Holds, Target
  <2>. QED BY ZenonT(60), <1>1, <1>2, <1>3, <1>5, <1>6 DEF LoopOK, Filling, Giving
<1>8. pc'[p] \in InLoop /\ \A t \in Table : Alike(t) BY ZenonT(60), <1>1, <1>3 DEF InLoop, Alike
<1>. QED BY ZenonT(60), <1>1, <1>2, <1>3, <1>7, <1>8, LoopStep
-----------------------------------------------------------------------------
(***************************************************************************)
(* The end of the loops                                                    *)
(***************************************************************************)
\* A process whose loop ends settled; the loop was on its own tables.
LEMMA LeaveStep ==
  ASSUME IInv, TablesOK, NEW p \in Proc, pc[p] # "dead", op[p] # "wait",
         \A t \in Table : t # Cur(p) /\ t # New(p) => Alike(t),
         TableOK(p)', LoopOK(p)',
         \A q \in Proc \ {p} : SameProcess(q)
  PROVE  TablesOK'
<1>1. \A t \in Table : Works(p, t) \/ Alike(t) BY ZenonT(60) DEF Works
<1>2. \A q \in Proc \ {p} : TableOK(q)' /\ LoopOK(q)' BY ZenonT(60), <1>1, OtherTables
<1>. QED BY ZenonT(60), <1>2 DEF TablesOK

\* sbrk returns with the new size; exec runs on the new table and frees the old.
LEMMA AllocDoneTables ==
  ASSUME IInv, TablesOK, NEW p \in Proc, AllocDone(p)
  PROVE  TablesOK'
<1>1. /\ pc[p] = "alloc" /\ ix[p] = lim[p] /\ sz' = [sz EXCEPT ![p] = lim[p]]
      /\ UNCHANGED <<state, op, peer>>
  BY ZenonT(60) DEF AllocDone
<1>2. /\ TypeOK /\ ThreadOK(p) /\ LoopOK(p) /\ TableOK(p) /\ pc[p] # "dead"
      /\ Cur(p) \in Table /\ New(p) \in Table /\ map \in [Table -> [VA -> Frame \cup {NoFrame}]]
  BY ZenonT(60), <1>1 DEF IInv, TablesOK, TypeOK, Cur, New, Table
<1>3. /\ op[p] \in {"grow", "exec"} /\ Holds(Target(p), 0, lim[p]) /\ state[p] = "LIVE" /\ pc[p] \in InLoop
  BY ZenonT(60), <1>1, <1>2 DEF ThreadOK, LoopOK, Filling, InLoop
<1>4. CASE op[p] = "exec"
  <2>1. /\ map' = [map EXCEPT ![Cur(p)] = map[New(p)], ![New(p)] = map[Cur(p)]]
        /\ pc' = [pc EXCEPT ![p] = "unmap"] /\ ix' = [ix EXCEPT ![p] = 0] /\ lim' = [lim EXCEPT ![p] = sz[p]]
    BY ZenonT(60), <1>4 DEF AllocDone, StartUnmap, Goto
  <2>2. /\ pc'[p] = "unmap" /\ ix'[p] = 0 /\ lim'[p] = sz[p] /\ sz'[p] = lim[p] /\ op'[p] = "exec"
        /\ \A q \in Proc \ {p} : SameProcess(q)
    BY ZenonT(60), <1>1, <1>2, <1>4, <2>1 DEF SameProcess, TypeOK
  <2>3. /\ map'[Cur(p)] = map[New(p)] /\ map'[New(p)] = map[Cur(p)]
        /\ \A t \in Table : t # Cur(p) /\ t # New(p) => map'[t] = map[t]
    <3>1. Cur(p) # New(p) BY SMTT(60), Z3T(60) DEF Cur, New
    <3>. QED BY ZenonT(60), <1>2, <2>1, <3>1
  <2>4. Holds(New(p), 0, lim[p]) /\ Holds(Cur(p), 0, sz[p])
    BY ZenonT(60), <1>2, <1>3, <1>4 DEF TableOK, Target
  <2>5. Holds(Cur(p), 0, sz[p])' BY ZenonT(60), <2>2, <2>3, <2>4 DEF Holds, Cur
  <2>6. Holds(Target(p), ix[p], lim[p])' BY ZenonT(60), <2>2, <2>3, <2>4 DEF Holds, New, Target
  <2>7. pc'[p] \in InLoop BY ZenonT(60), <2>2 DEF InLoop
  <2>8. TableOK(p)' /\ LoopOK(p)'
    <3>. HIDE DEF Holds, Target
    <3>1. TableOK(p)' BY ZenonT(60), <1>1, <1>3, <2>2, <2>5, <2>7 DEF TableOK
    <3>2. LoopOK(p)' BY ZenonT(60), <2>2, <2>6 DEF LoopOK, Filling, Giving
    <3>. QED BY <3>1, <3>2
  <2>9. \A t \in Table : t # Cur(p) /\ t # New(p) => Alike(t) BY ZenonT(60), <2>3 DEF Alike
  <2>. QED BY ZenonT(60), <1>2, <1>4, <2>2, <2>8, <2>9, LeaveStep
<1>5. CASE op[p] # "exec"
  <2>1. pc' = [pc EXCEPT ![p] = "tret"] /\ UNCHANGED <<map, ix, lim>>
    BY ZenonT(60), <1>5 DEF AllocDone, Goto, tableVars
  <2>2. pc'[p] = "tret" /\ sz'[p] = lim[p] /\ \A q \in Proc \ {p} : SameProcess(q)
    BY ZenonT(60), <1>1, <1>2, <2>1 DEF SameProcess, TypeOK
  <2>3. Holds(Cur(p), 0, lim[p]) /\ Holds(New(p), 0, 0) /\ op[p] = "grow"
    BY ZenonT(60), <1>2, <1>3, <1>5 DEF TableOK, Target
  <2>4. pc'[p] \notin InLoop /\ \A t \in Table : Alike(t) BY ZenonT(60), <2>1, <2>2 DEF InLoop, Alike
  <2>5. Settled(p)' BY ZenonT(60), <1>1, <1>3, <2>1, <2>2, <2>3, <2>4 DEF Settled, Holds, Cur, New
  <2>6. TableOK(p)' /\ LoopOK(p)' BY <2>5, SettledNext
  <2>. QED BY ZenonT(60), <1>2, <2>2, <2>3, <2>4, <2>6, LeaveStep
<1>. QED BY <1>4, <1>5

\* The parent of a child that comes or goes, and the child itself.
LEMMA ChildStep ==
  ASSUME IInv, TablesOK, NEW p \in Proc, pc[p] \in InLoop, op[p] \in {"fork", "wait"},
         NEW c \in Proc, c = peer[p],
         UNCHANGED map, pc'[p] = "tret", state'[p] = state[p], sz'[p] = sz[p],
         TableOK(c)', LoopOK(c)',
         \A q \in Proc \ {p, c} : SameProcess(q)
  PROVE  TablesOK'
<1>1. ThreadOK(p) /\ TableOK(p) /\ \A q \in Proc : ThreadOK(q) BY ZenonT(60) DEF IInv, TablesOK
<1>2. /\ state[peer[p]] \in {"USED", "ZOMBIE"} /\ state[p] = "LIVE" /\ pc[p] # "dead"
  BY ZenonT(60), <1>1 DEF ThreadOK, Forking, InLoop
<1>3. ~Giving(c) BY ZenonT(60), <1>1, <1>2 DEF ThreadOK, Giving
<1>4. pc'[p] \notin InLoop /\ \A t \in Table : Alike(t) BY ZenonT(60) DEF InLoop, Alike
<1>5. Settled(p)' BY ZenonT(60), <1>1, <1>2, <1>4 DEF Settled, TableOK, Holds, Cur, New
<1>6. TableOK(p)' /\ LoopOK(p)' BY <1>5, SettledNext
<1>7. \A q \in Proc \ {p, c} : TableOK(q)' /\ LoopOK(q)'
  <2>1. \A r \in {p, c} : Giving(r) => peer[r] \in {p, c} BY ZenonT(60), <1>3
  <2>2. {p, c} \in SUBSET Proc /\ p \in {p, c} BY ZenonT(60)
  <2>. QED BY ZenonT(60), <1>2, <1>4, <2>1, <2>2, OtherTables
<1>. QED BY ZenonT(60), <1>6, <1>7 DEF TablesOK

\* The loop of uvmunmap is over: the slot of the child is free, or sbrk or exec returns.
LEMMA UnmapDoneTables ==
  ASSUME IInv, TablesOK, NEW p \in Proc, UnmapDone(p)
  PROVE  TablesOK'
<1>1. CASE \E why \in PanicMsg : Panic(why) BY ZenonT(60), <1>1, IdleTables
<1>2. CASE ~\E why \in PanicMsg : Panic(why)
  <2>1. /\ pc[p] = "unmap" /\ ix[p] >= lim[p] /\ pc' = [pc EXCEPT ![p] = "tret"]
        /\ op[p] \in {"fork", "wait", "exec"} => \A v \in VA : map[Target(p)][v] = NoFrame
        /\ UNCHANGED <<map, op, ix, lim, peer>>
    BY ZenonT(60), <1>2 DEF UnmapDone, PanicMsg, Goto, tableVars
  <2>2. /\ TypeOK /\ ThreadOK(p) /\ LoopOK(p) /\ TableOK(p) /\ pc[p] \in InLoop /\ Giving(p) /\ pc[p] # "dead"
        /\ ix[p] \in 0 .. NV /\ lim[p] \in 0 .. NV /\ sz[p] \in 0 .. NV /\ NV \in Nat
    BY ZenonT(60), <2>1, ConstantTypes DEF IInv, TablesOK, TypeOK, InLoop, Giving
  <2>3. pc'[p] = "tret" /\ \A q \in Proc \ {p} : pc'[q] = pc[q] BY ZenonT(60), <2>1, <2>2 DEF TypeOK
  <2>4. pc'[p] \notin InLoop /\ \A t \in Table : Alike(t) BY ZenonT(60), <2>1, <2>3 DEF InLoop, Alike
  <2>5. CASE op[p] \in {"fork", "wait"}
    <3>1. state' = [state EXCEPT ![peer[p]] = "UNUSED"] /\ sz' = [sz EXCEPT ![peer[p]] = 0]
      BY ZenonT(60), <1>2, <2>5 DEF UnmapDone, PanicMsg
    <3>2. /\ peer[p] \in Proc /\ peer[p] # p /\ state[peer[p]] \in {"USED", "ZOMBIE"} /\ state[p] = "LIVE"
      BY ZenonT(60), <2>2, <2>5 DEF ThreadOK, Forking
    <3>3. ThreadOK(peer[p]) /\ TableOK(peer[p]) BY ZenonT(60), <3>2 DEF IInv, TablesOK
    <3>4. /\ pc[peer[p]] = "dead" /\ pc'[peer[p]] = "dead" /\ state'[peer[p]] = "UNUSED"
          /\ state'[p] = state[p] /\ sz'[p] = sz[p] /\ \A q \in Proc \ {p, peer[p]} : SameProcess(q)
      BY ZenonT(60), <2>1, <2>2, <2>3, <3>1, <3>2, <3>3 DEF ThreadOK, SameProcess, TypeOK
    <3>5. Holds(Cur(peer[p]), 0, 0)'
      <4>1. \A v \in VA : map[Cur(peer[p])][v] = NoFrame BY ZenonT(60), <2>1, <2>5 DEF Target
      <4>2. \A v \in VA : ~(0 <= v /\ v < 0) BY SMTT(60), Z3T(60), SMTT(61), ConstantTypes DEF VA
      <4>. QED BY ZenonT(60), <2>1, <4>1, <4>2 DEF Holds, Cur
    <3>6. Holds(New(peer[p]), 0, 0)'
      <4>1. Holds(New(peer[p]), 0, 0) BY ZenonT(60), <3>3, <3>4 DEF TableOK, InLoop
      <4>. QED BY ZenonT(60), <2>1, <4>1 DEF Holds, New
    <3>7. PICK c \in Proc : c = peer[p] BY <3>2
    <3>8. TableOK(c)' /\ LoopOK(c)'
      <4>1. Holds(Cur(c), 0, 0)' /\ Holds(New(c), 0, 0)' BY ZenonT(60), <2>1, <3>5, <3>6, <3>7 DEF Holds, Cur, New
      <4>. HIDE DEF Holds
      <4>2. TableOK(c)' BY ZenonT(60), <3>4, <3>7, <4>1 DEF TableOK
      <4>3. LoopOK(c)' BY ZenonT(60), <3>4, <3>7 DEF LoopOK, Filling, Giving
      <4>. QED BY <4>2, <4>3
    <3>. QED BY ZenonT(60), <2>1, <2>2, <2>3, <2>5, <3>4, <3>7, <3>8, ChildStep
  <2>6. CASE op[p] \notin {"fork", "wait"}
    <3>1. UNCHANGED <<state, sz>> BY ZenonT(60), <1>2, <2>6 DEF UnmapDone, PanicMsg, procVars
    <3>2. \A q \in Proc \ {p} : SameProcess(q) BY ZenonT(60), <2>1, <2>3, <3>1 DEF SameProcess
    <3>3. state[p] = "LIVE" /\ op[p] \in {"exec", "grow", "shrink"} BY ZenonT(60), <2>1, <2>2, <2>6 DEF ThreadOK
    <3>4. \A v \in VA : ~(0 <= v /\ v < 0) BY SMTT(60), Z3T(60), ConstantTypes DEF VA
    <3>5. Holds(Cur(p), 0, sz[p])
      <4>1. CASE op[p] = "exec" BY ZenonT(60), <2>2, <3>3, <4>1 DEF TableOK
      <4>2. CASE op[p] # "exec"
        <5>1. \A v \in VA : map[Cur(p)][v] # NoFrame <=> v < sz[p] \/ (ix[p] <= v /\ v < lim[p])
          BY ZenonT(60), <2>2, <3>3, <4>2 DEF LoopOK
        <5>2. \A v \in VA : v < sz[p] \/ (ix[p] <= v /\ v < lim[p]) <=> 0 <= v /\ v < sz[p]
          BY SMTT(60), Z3T(60), SMTT(61), <2>1, <2>2 DEF VA
        <5>. QED BY ZenonT(60), <5>1, <5>2 DEF Holds
      <4>. QED BY <4>1, <4>2
    <3>6. Holds(New(p), 0, 0)
      <4>1. CASE op[p] = "exec" BY ZenonT(60), <2>1, <3>4, <4>1 DEF Target, Holds
      <4>2. CASE op[p] # "exec" BY ZenonT(60), <2>2, <4>2 DEF TableOK
      <4>. QED BY <4>1, <4>2
    <3>7. Settled(p)' BY ZenonT(60), <2>1, <2>4, <3>1, <3>3, <3>5, <3>6 DEF Settled, Holds, Cur, New
    <3>8. TableOK(p)' /\ LoopOK(p)' BY <3>7, SettledNext
    <3>. QED BY ZenonT(60), <2>2, <2>4, <2>6, <3>2, <3>8, LeaveStep
  <2>. QED BY <2>5, <2>6
<1>. QED BY <1>1, <1>2

\* fork returns: the child has the pages of its parent.
LEMMA ForkDoneTables ==
  ASSUME IInv, TablesOK, NEW p \in Proc, ForkDone(p)
  PROVE  TablesOK'
<1>1. /\ pc[p] = "copy" /\ ix[p] = lim[p] /\ sz' = [sz EXCEPT ![peer[p]] = sz[p]]
      /\ state' = [state EXCEPT ![peer[p]] = "LIVE"] /\ pc' = [pc EXCEPT ![p] = "tret", ![peer[p]] = "user"]
      /\ UNCHANGED <<map, op, ix, lim, peer>>
  BY ZenonT(60) DEF ForkDone, tableVars
<1>2. /\ TypeOK /\ LoopOK(p) /\ pc[p] \in InLoop /\ op[p] = "fork" /\ peer[p] \in Proc /\ peer[p] # p
      /\ state[peer[p]] = "USED" /\ Target(p) = Cur(peer[p]) /\ lim[p] = sz[p]
  BY ZenonT(60), <1>1, CopyFacts
<1>3. ThreadOK(peer[p]) /\ TableOK(peer[p]) BY ZenonT(60), <1>2 DEF IInv, TablesOK
<1>4. pc[peer[p]] = "dead" /\ Holds(Cur(peer[p]), 0, sz[p]) /\ Holds(New(peer[p]), 0, 0)
  <2>1. pc[peer[p]] = "dead" BY ZenonT(60), <1>2, <1>3 DEF ThreadOK
  <2>2. Holds(New(peer[p]), 0, 0) BY ZenonT(60), <1>3, <2>1 DEF TableOK, InLoop
  <2>3. Holds(Cur(peer[p]), 0, sz[p]) BY ZenonT(60), <1>1, <1>2 DEF LoopOK
  <2>. QED BY <2>1, <2>2, <2>3
<1>5. /\ pc'[p] = "tret" /\ pc'[peer[p]] = "user" /\ state'[peer[p]] = "LIVE" /\ sz'[peer[p]] = sz[p]
      /\ state'[p] = state[p] /\ sz'[p] = sz[p] /\ \A q \in Proc \ {p, peer[p]} : SameProcess(q)
  BY ZenonT(60), <1>1, <1>2 DEF SameProcess, TypeOK
<1>6. PICK c \in Proc : c = peer[p] BY <1>2
<1>7. Settled(c)' BY ZenonT(60), <1>1, <1>4, <1>5, <1>6 DEF Settled, Holds, Cur, New, InLoop
<1>8. TableOK(c)' /\ LoopOK(c)' BY <1>7, SettledNext
<1>. QED BY ZenonT(60), <1>1, <1>2, <1>5, <1>6, <1>8, ChildStep
-----------------------------------------------------------------------------
(***************************************************************************)
(* All steps together, and the panics                                      *)
(***************************************************************************)
\* After userinit() the first process has its one page.
LEMMA InitTables == Init => TablesOK /\ NoInternalPanic
<1>. SUFFICES ASSUME Init PROVE TablesOK /\ NoInternalPanic
  BY ZenonT(60)
<1>1. PICK f \in Frame :
        map = [t \in Table |-> [v \in VA |-> IF t = Cur(InitProc) /\ v = 0 THEN f ELSE NoFrame]]
  BY ZenonT(60) DEF Init
<1>2. /\ state = [p \in Proc |-> IF p = InitProc THEN "LIVE" ELSE "UNUSED"]
      /\ sz = [p \in Proc |-> IF p = InitProc THEN 1 ELSE 0]
      /\ pc = [p \in Proc |-> IF p = InitProc THEN "user" ELSE "dead"]
      /\ panicked = "" /\ f # NoFrame
  BY ZenonT(60), ConstantTypes DEF Init
<1>3. ASSUME NEW p \in Proc PROVE TableOK(p) /\ LoopOK(p)
  <2>1. \A v \in VA : ~(0 <= v /\ v < 0) /\ (v = 0 <=> 0 <= v /\ v < 1)
    BY SMTT(60), Z3T(60), SMTT(61), ConstantTypes DEF VA
  <2>2. Cur(p) \in Table /\ New(p) \in Table BY ZenonT(60) DEF Cur, New, Table
  <2>3. New(p) # Cur(InitProc) /\ (Cur(p) = Cur(InitProc) <=> p = InitProc)
    BY SMTT(60), Z3T(60) DEF Cur, New
  <2>4. Holds(New(p), 0, 0) BY ZenonT(60), <1>1, <2>1, <2>2, <2>3 DEF Holds
  <2>5. p = InitProc => Holds(Cur(p), 0, 1)
    BY ZenonT(60), <1>1, <1>2, <2>1, <2>2, <2>3 DEF Holds
  <2>6. p # InitProc => Holds(Cur(p), 0, 0)
    BY ZenonT(60), <1>1, <2>1, <2>2, <2>3 DEF Holds
  <2>7. pc[p] \in {"user", "dead"} /\ state[p] = (IF p = InitProc THEN "LIVE" ELSE "UNUSED")
          /\ sz[p] = (IF p = InitProc THEN 1 ELSE 0)
    BY ZenonT(60), <1>2
  <2>. HIDE DEF Holds
  <2>8. TableOK(p) BY ZenonT(60), <2>4, <2>5, <2>6, <2>7 DEF TableOK
  <2>9. LoopOK(p) BY ZenonT(60), <2>7 DEF LoopOK, Filling, Giving
  <2>. QED BY <2>8, <2>9
<1>. QED BY ZenonT(60), <1>2, <1>3 DEF TablesOK, NoInternalPanic

\* Every step keeps the tables in order.
LEMMA NextTables == IInv /\ TablesOK /\ [Next]_vars => TablesOK'
<1>. SUFFICES ASSUME IInv, TablesOK, [Next]_vars PROVE TablesOK'
  BY ZenonT(60)
<1>1. CASE UNCHANGED vars
  <2>1. UNCHANGED <<map, pc, op, ix, lim, peer, sz, state>>
    BY ZenonT(60), <1>1 DEF vars, procVars, tableVars, threadVars
  <2>. QED BY ZenonT(60), <2>1, StillTables
<1>2. ASSUME NEW p \in Proc, KernelStep(p) PROVE TablesOK'
  <2>1. CASE TrapReturn(p)
    <3>1. CASE killed[p] BY ZenonT(60), <2>1, <3>1, ExitTables DEF TrapReturn
    <3>2. CASE ~killed[p] BY ZenonT(60), <2>1, <3>2, FaultTables
    <3>. QED BY <3>1, <3>2
  <2>2. CASE CowAlloc(p) \/ CowMap(p) \/ CowFree(p) \/ CowPush(p) BY ZenonT(60), <2>2, CowTables
  <2>3. CASE CopyoutWrite(p) BY ZenonT(60), <2>3, CopyoutTables
  <2>4. CASE Unmap(p) BY ZenonT(60), <2>4, UnmapTables
  <2>5. CASE FreePush(p) BY ZenonT(60), <2>5, FreePushTables
  <2>6. CASE UnmapDone(p) BY ZenonT(60), <2>6, UnmapDoneTables
  <2>7. CASE AllocPop(p) \/ MemFree(p) BY ZenonT(60), <2>7, AllocTables
  <2>8. CASE AllocMap(p) BY ZenonT(60), <2>8, AllocMapTables
  <2>9. CASE AllocDone(p) BY ZenonT(60), <2>9, AllocDoneTables
  <2>10. CASE CopyPage(p) BY ZenonT(60), <2>10, CopyPageTables
  <2>11. CASE CopyIncrement(p) BY ZenonT(60), <2>11, CopyIncrementTables
  <2>12. CASE ForkDone(p) BY ZenonT(60), <2>12, ForkDoneTables
  <2>. QED BY ZenonT(60), <1>2, <2>1, <2>2, <2>3, <2>4, <2>5, <2>6, <2>7, <2>8, <2>9, <2>10, <2>11, <2>12
       DEF KernelStep
<1>3. ASSUME NEW p \in Proc, UserStep(p) PROVE TablesOK'
  <2>1. CASE \E v \in VA, x \in Val : UserStore(p, v, x) BY ZenonT(60), <2>1, IdleTables
  <2>2. CASE \E v \in 0 .. NV, sp \in VA, first \in BOOLEAN : StoreFault(p, v, sp, first)
    BY ZenonT(60), <2>2, FaultTables
  <2>3. CASE \E v \in 0 .. NV, x \in KVal : Read(p, v, x) BY ZenonT(60), <2>3, FaultTables
  <2>4. CASE \E n \in -NV .. NV : Sbrk(p, n) BY ZenonT(60), <2>4, SbrkTables
  <2>5. CASE \E q \in Proc : Kill(p, q) BY ZenonT(60), <2>5, IdleTables
  <2>6. CASE \E c \in Proc : Wait(p, c) BY ZenonT(60), <2>6, WaitTables
  <2>7. CASE Exec(p) BY ZenonT(60), <2>7, ExecTables
  <2>8. CASE ExecBad(p) BY ZenonT(60), <2>8, AllocTables
  <2>9. CASE Fork(p) BY ZenonT(60), <2>9, ForkTables
  <2>10. CASE UserExit(p) BY ZenonT(60), <2>10, ExitTables DEF UserExit
  <2>. QED BY ZenonT(60), <1>3, <2>1, <2>2, <2>3, <2>4, <2>5, <2>6, <2>7, <2>8, <2>9, <2>10 DEF UserStep
<1>. QED BY ZenonT(60), <1>1, <1>2, <1>3 DEF Next, Halted

\* uvmunmap finds every page it looks for, and every page counted.
LEMMA UnmapSafe ==
  ASSUME IInv, TablesOK, NEW p \in Proc, Unmap(p)
  PROVE  UNCHANGED panicked
<1>1. pc[p] = "unmap" /\ ix[p] < lim[p] BY ZenonT(60) DEF Unmap
<1>2. /\ ThreadOK(p) /\ LoopOK(p) /\ Giving(p) /\ pc[p] \in InLoop
      /\ ix[p] \in 0 .. NV /\ lim[p] \in 0 .. NV /\ sz[p] \in 0 .. NV /\ NV \in Nat
      /\ map \in [Table -> [VA -> Frame \cup {NoFrame}]] /\ temp \in [Frame -> Nat]
  BY ZenonT(60), <1>1, ConstantTypes DEF IInv, TypeOK, TablesOK, Giving, InLoop
<1>3. ix[p] \in VA /\ ix[p] <= ix[p] BY SMTT(60), Z3T(60), SMTT(61), <1>1, <1>2 DEF VA
<1>4. Target(p) \in Table BY ZenonT(60), <1>2, TargetPrivate
<1>5. op[p] \in {"fork", "wait", "exec", "grow", "shrink"} BY ZenonT(60), <1>1, <1>2 DEF ThreadOK
<1>6. map[Target(p)][ix[p]] # NoFrame
  <2>1. CASE op[p] \in {"fork", "wait", "exec"} BY ZenonT(60), <1>1, <1>2, <1>3, <2>1 DEF LoopOK, Holds
  <2>2. CASE op[p] \in {"grow", "shrink"} BY ZenonT(60), <1>1, <1>2, <1>3, <2>2 DEF LoopOK, Target
  <2>. QED BY ZenonT(60), <1>5, <2>1, <2>2
<1>7. PICK f \in Frame : f = map[Target(p)][ix[p]] BY ZenonT(60), <1>2, <1>3, <1>4, <1>6
<1>8. temp[f] # 0 BY ZenonT(60), <1>3, <1>4, <1>7, ZeroUnused
<1>9. ~(temp[f] <= 0) BY SMTT(60), Z3T(60), <1>2, <1>8
<1>. QED BY ZenonT(60), <1>6, <1>7, <1>9 DEF Unmap

\* freewalk finds no leaf.
LEMMA UnmapDoneSafe ==
  ASSUME IInv, TablesOK, NEW p \in Proc, UnmapDone(p)
  PROVE  UNCHANGED panicked
<1>1. pc[p] = "unmap" /\ ix[p] >= lim[p] BY ZenonT(60) DEF UnmapDone
<1>2. LoopOK(p) /\ Giving(p) /\ ix[p] \in 0 .. NV /\ lim[p] \in 0 .. NV /\ NV \in Nat
  BY ZenonT(60), <1>1, ConstantTypes DEF IInv, TypeOK, TablesOK, Giving
<1>3. \A v \in VA : ~(ix[p] <= v /\ v < lim[p]) BY SMTT(60), Z3T(60), SMTT(61), <1>1, <1>2 DEF VA
<1>4. op[p] \in {"fork", "wait", "exec"} => \A v \in VA : map[Target(p)][v] = NoFrame
  BY ZenonT(60), <1>2, <1>3 DEF LoopOK, Holds
<1>. QED BY ZenonT(60), <1>4 DEF UnmapDone

\* kfree finds the page it is given counted.
LEMMA FreeSafe ==
  ASSUME IInv, NEW p \in Proc, CowFree(p) \/ MemFree(p)
  PROVE  UNCHANGED panicked
<1>1. pc[p] \in Counted BY ZenonT(60) DEF CowFree, MemFree, Counted
<1>2. ThreadOK(p) /\ hand \in [Proc -> Frame \cup {NoFrame}] /\ temp \in [Frame -> Nat]
  BY ZenonT(60) DEF IInv, TypeOK
<1>3. PICK f \in Frame : f = hand[p] BY ZenonT(60), <1>1, <1>2 DEF ThreadOK
<1>4. temp[f] # 0 BY ZenonT(60), <1>1, <1>3, ZeroUnused
<1>5. ~(temp[f] <= 0) BY SMTT(60), Z3T(60), <1>2, <1>4
<1>. QED BY ZenonT(60), <1>3, <1>5 DEF CowFree, MemFree

\* mappages in uvmalloc finds the page unmapped.
LEMMA AllocMapSafe ==
  ASSUME IInv, TablesOK, NEW p \in Proc, AllocMap(p)
  PROVE  UNCHANGED panicked
<1>1. pc[p] = "allocmap" BY ZenonT(60) DEF AllocMap
<1>2. /\ ThreadOK(p) /\ LoopOK(p) /\ Filling(p) /\ ix[p] \in 0 .. NV /\ lim[p] \in 0 .. NV /\ NV \in Nat
  BY ZenonT(60), <1>1, ConstantTypes DEF IInv, TypeOK, TablesOK, Filling
<1>3. ix[p] < lim[p] /\ Holds(Target(p), 0, ix[p]) BY ZenonT(60), <1>1, <1>2 DEF ThreadOK, LoopOK
<1>4. ix[p] \in VA /\ ~(ix[p] < ix[p]) BY SMTT(60), Z3T(60), SMTT(61), <1>2, <1>3 DEF VA
<1>5. map[Target(p)][ix[p]] = NoFrame BY ZenonT(60), <1>3, <1>4 DEF Holds
<1>. QED BY ZenonT(60), <1>5 DEF AllocMap

\* uvmcopy finds the parent's page mapped and the child's not.
LEMMA CopyPageSafe ==
  ASSUME IInv, TablesOK, NEW p \in Proc, CopyPage(p)
  PROVE  UNCHANGED panicked
<1>1. pc[p] = "copy" /\ ix[p] < lim[p] BY ZenonT(60) DEF CopyPage
<1>2. /\ LoopOK(p) /\ Target(p) = Cur(peer[p]) /\ Holds(Cur(p), 0, sz[p]) /\ lim[p] = sz[p]
      /\ ix[p] \in 0 .. NV /\ lim[p] \in 0 .. NV /\ NV \in Nat
  BY ZenonT(60), <1>1, CopyFacts
<1>3. ix[p] \in VA /\ 0 <= ix[p] /\ ~(ix[p] < ix[p]) BY SMTT(60), Z3T(60), SMTT(61), <1>1, <1>2 DEF VA
<1>4. map[Cur(p)][ix[p]] # NoFrame BY ZenonT(60), <1>1, <1>2, <1>3 DEF Holds
<1>5. map[Cur(peer[p])][ix[p]] = NoFrame BY ZenonT(60), <1>1, <1>2, <1>3 DEF LoopOK, Holds
<1>. QED BY ZenonT(60), <1>4, <1>5 DEF CopyPage

\* The panics that remain are the ones of custom_cow and of init's exit.
LEMMA NextNoPanic == IInv /\ TablesOK /\ NoInternalPanic /\ [Next]_vars => NoInternalPanic'
<1>. SUFFICES ASSUME IInv, TablesOK, NoInternalPanic, [Next]_vars PROVE NoInternalPanic'
  BY ZenonT(60)
<1>. DEFINE Known == {"init exiting", "custom_cow: pte should exist"}
<1>1. CASE UNCHANGED vars BY ZenonT(60), <1>1 DEF vars, NoInternalPanic
<1>2. ASSUME NEW p \in Proc, KernelStep(p) PROVE UNCHANGED panicked \/ panicked' \in Known
  <2>1. CASE TrapReturn(p) BY ZenonT(60), <2>1 DEF TrapReturn, Exit, Panic
  <2>2. CASE CowAlloc(p) \/ CowMap(p) \/ CowPush(p) BY ZenonT(60), <2>2 DEF CowAlloc, CowMap, CowPush
  <2>3. CASE CowFree(p) \/ MemFree(p) BY ZenonT(60), <2>3, FreeSafe
  <2>4. CASE Unmap(p) BY ZenonT(60), <2>4, UnmapSafe
  <2>5. CASE UnmapDone(p) BY ZenonT(60), <2>5, UnmapDoneSafe
  <2>6. CASE AllocMap(p) BY ZenonT(60), <2>6, AllocMapSafe
  <2>7. CASE CopyPage(p) BY ZenonT(60), <2>7, CopyPageSafe
  <2>8. CASE CopyoutWrite(p) \/ FreePush(p) \/ AllocPop(p) \/ AllocDone(p)
    BY ZenonT(60), <2>8 DEF CopyoutWrite, FreePush, AllocPop, AllocDone
  <2>9. CASE CopyIncrement(p) \/ ForkDone(p) BY ZenonT(60), <2>9 DEF CopyIncrement, ForkDone
  <2>. HIDE DEF Known
  <2>. QED BY ZenonT(60), <1>2, <2>1, <2>2, <2>3, <2>4, <2>5, <2>6, <2>7, <2>8, <2>9 DEF KernelStep
<1>3. ASSUME NEW p \in Proc, UserStep(p) PROVE UNCHANGED panicked \/ panicked' \in Known
  <2>1. CASE \E v \in VA, x \in Val : UserStore(p, v, x) BY ZenonT(60), <2>1 DEF UserStore
  <2>2. CASE \E v \in 0 .. NV, sp \in VA, first \in BOOLEAN : StoreFault(p, v, sp, first)
    BY ZenonT(60), <2>2 DEF StoreFault, Panic
  <2>3. CASE \E v \in 0 .. NV, x \in KVal : Read(p, v, x) BY ZenonT(60), <2>3 DEF Read
  <2>4. CASE \E n \in -NV .. NV : Sbrk(p, n) BY ZenonT(60), <2>4 DEF Sbrk
  <2>5. CASE \E q \in Proc : Kill(p, q) BY ZenonT(60), <2>5 DEF Kill
  <2>6. CASE \E c \in Proc : Wait(p, c) BY ZenonT(60), <2>6 DEF Wait
  <2>7. CASE Exec(p) \/ ExecBad(p) BY ZenonT(60), <2>7 DEF Exec, ExecBad
  <2>8. CASE Fork(p) BY ZenonT(60), <2>8 DEF Fork
  <2>9. CASE UserExit(p) BY ZenonT(60), <2>9 DEF UserExit, Exit, Panic
  <2>. HIDE DEF Known
  <2>. QED BY ZenonT(60), <1>3, <2>1, <2>2, <2>3, <2>4, <2>5, <2>6, <2>7, <2>8, <2>9 DEF UserStep
<1>. QED BY ZenonT(60), <1>1, <1>2, <1>3 DEF Next, Halted, NoInternalPanic
=============================================================================
