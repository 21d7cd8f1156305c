-------------------------- MODULE CowMemoryProofs --------------------------
(***************************************************************************)
(* The lemmas on the actions put together: IInv of CowMemory is kept by    *)
(* every step, what follows from it, and the refinement of PrivateMemory.  *)
(***************************************************************************)
EXTENDS CowAllocProofs, CowTableProofs, CowContentProofs, CowRefinement

\* Every step of every process preserves the invariant.
LEMMA NextIInv == IInv /\ [Next]_vars => IInv'
<1>. SUFFICES ASSUME IInv, [Next]_vars PROVE IInv'
  BY ZenonT(60)
<1>1. CASE UNCHANGED vars
  <2>. USE <1>1 DEF vars, procVars, tableVars, allocVars, threadVars
  <2>1. TypeOK' BY ZenonT(60) DEF IInv, TypeOK
  <2>2. \A q \in Proc : ThreadOK(q)' BY ZenonT(60) DEF IInv, ThreadOK, Forking
  <2>3. OneForker' BY ZenonT(60) DEF IInv, OneForker, Forking
  <2>4. HandsOK' /\ RefCountExact' /\ WritableIsPrivate' /\ NoJunkMapped' /\ NoLeak' BY ZenonT(60), Quiet
  <2>. QED BY ZenonT(60), <2>1, <2>2, <2>3, <2>4 DEF IInv
<1>2. ASSUME NEW p \in Proc, KernelStep(p) PROVE IInv'
  BY ZenonT(60), <1>2, TrapReturnStep, CowAllocStep, CowMapStep, CowFreeStep, PushSteps, CopyoutWriteStep,
     UnmapStep, UnmapDoneStep, AllocPopStep, AllocMapStep, MemFreeStep, AllocDoneStep,
     CopyPageStep, CopyIncrementStep, ForkDoneStep DEF KernelStep
<1>3. ASSUME NEW p \in Proc, UserStep(p) PROVE IInv'
  <2>1. CASE UserExit(p) BY ZenonT(60), <2>1, ExitStep DEF UserExit
  <2>. QED BY ZenonT(60), <1>3, <2>1, UserStoreStep, StoreFaultStep, ReadStep, SbrkStep, KillStep, WaitStep,
              ExecStep, ForkStep DEF UserStep
<1>. QED BY ZenonT(60), <1>1, <1>2, <1>3 DEF Next, Halted

\* The inductive invariant holds in every reachable state, whatever the number
\* of processes, physical pages and virtual pages.
THEOREM Invariance == Spec => []IInv
<1>1. Init => IInv BY ZenonT(60), InitIInv
<1>2. IInv /\ [Next]_vars => IInv' BY ZenonT(60), NextIInv
<1>. QED BY <1>1, <1>2, PTL DEF Spec

\* Type correctness of all the state of the allocator, the page tables and the
\* kernel threads.
THEOREM TypeCorrect == Spec => []TypeOK
BY Invariance, PTL DEF IInv

\* The reference count that kalloc, kfree and uvmcopy maintain under temp_lock
\* is exact at every step of every interleaving.
THEOREM CountsExact == Spec => []RefCountExact
BY Invariance, PTL DEF IInv

\* A page mapped writable has one mapping: fork never leaves a writable alias.
THEOREM WritersAlone == Spec => []WritableIsPrivate
BY Invariance, PTL DEF IInv

\* kalloc never hands out a page that a page table or another thread still uses.
THEOREM NoUseAfterFree == Spec => []FreeIsUnreachable
<1>1. IInv => FreeIsUnreachable BY ZenonT(60), FreeUntouched
<1>. QED BY <1>1, Invariance, PTL

\* No process ever sees the fill pattern of a page that is free or not yet set up.
THEOREM JunkInvisible == Spec => []NoJunkMapped
BY Invariance, PTL DEF IInv

\* No page is ever lost to the allocator.
THEOREM NothingLeaks == Spec => []NoLeak
BY Invariance, PTL DEF IInv

\* Between the loops every process has exactly the pages below its size, and inside
\* them every table holds what the loop has not yet given back or has already filled.
THEOREM TablesInOrder == Spec => []TablesOK
<1>1. Init => TablesOK BY ZenonT(60), InitTables
<1>2. IInv /\ TablesOK /\ [Next]_vars => TablesOK' BY ZenonT(60), NextTables
<1>. QED BY <1>1, <1>2, Invariance, PTL DEF Spec

\* The sanity panics of kfree, uvmunmap, freewalk, mappages and uvmcopy never happen.
THEOREM NeverPanics == Spec => []NoInternalPanic
<1>1. Init => NoInternalPanic BY ZenonT(60), InitTables
<1>2. IInv /\ TablesOK /\ NoInternalPanic /\ [Next]_vars => NoInternalPanic' BY ZenonT(60), NextNoPanic
<1>. QED BY <1>1, <1>2, Invariance, TablesInOrder, PTL DEF Spec
-----------------------------------------------------------------------------
\* A page that is mapped without W keeps its contents, except for copyout's store to this
\* frame through a mapping without W (custom_cow failed, or the page is read-only text).
THEOREM Isolation == Spec => IsolatedExceptCopyout
<1>1. IInv /\ [Next]_vars =>
        [\A t \in Table, v \in VA :
           Protected(t, v) /\ map'[t][v] = map[t][v] =>
             \/ content'[map[t][v]] = content[map[t][v]]
             \/ \E p \in Proc : UncheckedCopyout(p) /\ map[Cur(p)][ix[p]] = map[t][v]]_vars
  <2>1. Next => (\E p \in Proc : KernelStep(p) \/ UserStep(p)) \/ UNCHANGED vars
    BY ZenonT(60) DEF Next, Halted
  <2>. QED BY ZenonT(60), <2>1, ProtectedKept
<1>. QED BY <1>1, Invariance, PTL DEF Spec, IsolatedExceptCopyout

\* A process that has been killed stays so until it exits, except through its own
\* store fault: usertrap stores the result of custom_cow in p->killed.
THEOREM KillSticks == Spec => KillLostOnlyInFault
<1>1. ASSUME IInv, NEW p \in Proc, KernelStep(p) \/ UserStep(p),
             NEW q \in Proc, state[q] = "LIVE", killed[q], state'[q] = "LIVE", ~killed'[q]
      PROVE  op[q] = "fault"
  <2>. USE DEF procVars
  <2>0. TypeOK /\ ThreadOK(p) BY ZenonT(60), <1>1 DEF IInv
  <2>1. ASSUME NEW x \in Proc, killed' = [killed EXCEPT ![x] = TRUE] \/ UNCHANGED killed PROVE FALSE
    BY ZenonT(60), <1>1, <2>0, <2>1 DEF TypeOK
  <2>2. ~Exit(p) BY ZenonT(60), <2>1, <2>0 DEF Exit, Panic
  <2>3. ~TrapReturn(p) /\ ~UserExit(p) BY ZenonT(60), <2>1, <2>2 DEF TrapReturn, UserExit
  <2>4. ~CowMap(p) /\ ~CopyoutWrite(p) /\ ~FreePush(p) /\ ~AllocPop(p) /\ ~MemFree(p)
    BY ZenonT(60), <2>1 DEF CowMap, CopyoutWrite, FreePush, AllocPop, MemFree, Panic
  <2>5. ~Unmap(p) /\ ~AllocMap(p) /\ ~AllocDone(p) /\ ~CopyPage(p) /\ ~CopyIncrement(p) /\ ~ForkDone(p)
    BY ZenonT(60), <2>1 DEF Unmap, AllocMap, AllocDone, CopyPage, CopyIncrement, ForkDone, Panic
  <2>6. ASSUME NEW b, CowReturn(p, b) PROVE op[q] = "fault"
    <3>1. CASE op[p] = "fault"
      <4>1. killed' = [killed EXCEPT ![p] = b] BY ZenonT(60), <2>6, <3>1 DEF CowReturn
      <4>2. q = p BY ZenonT(60), <1>1, <2>0, <4>1 DEF TypeOK
      <4>. QED BY ZenonT(60), <3>1, <4>2
    <3>2. CASE op[p] # "fault" BY ZenonT(60), <2>1, <2>6, <3>2 DEF CowReturn
    <3>. QED BY ZenonT(60), <3>1, <3>2
  <2>7. CASE CowAlloc(p) \/ CowFree(p) \/ CowPush(p)
    BY ZenonT(60), <2>1, <2>6, <2>7 DEF CowAlloc, CowFree, CowPush, Panic
  <2>8. ~UnmapDone(p)
    <3>1. SUFFICES ASSUME UnmapDone(p) PROVE FALSE OBVIOUS
    <3>2. CASE UNCHANGED killed BY ZenonT(60), <2>1, <3>2
    <3>3. CASE ~UNCHANGED killed
      <4>1. pc[p] = "unmap" /\ op[p] \in {"fork", "wait"} /\ killed' = [killed EXCEPT ![peer[p]] = FALSE]
        BY ZenonT(60), <3>1, <3>3 DEF UnmapDone, Panic
      <4>2. state[peer[p]] # "LIVE" BY ZenonT(60), <2>0, <4>1 DEF ThreadOK, Forking, InLoop
      <4>. QED BY ZenonT(60), <1>1, <2>0, <4>1, <4>2 DEF TypeOK
    <3>. QED BY ZenonT(60), <3>2, <3>3
  <2>9. /\ \A v, x : ~UserStore(p, v, x) /\ ~Read(p, v, x)
        /\ \A v, sp, first : ~StoreFault(p, v, sp, first)
    BY ZenonT(60), <2>1 DEF UserStore, Read, StoreFault, Panic
  <2>10. (\A n : ~Sbrk(p, n)) /\ (\A c \in Proc : ~Kill(p, c) /\ ~Wait(p, c)) /\ ~Exec(p) /\ ~ExecBad(p) /\ ~Fork(p)
    BY ZenonT(60), <2>1 DEF Sbrk, Kill, Wait, Exec, ExecBad, Fork
  <2>11. CASE KernelStep(p) BY ZenonT(60), <2>3, <2>4, <2>5, <2>7, <2>8, <2>11 DEF KernelStep
  <2>12. CASE UserStep(p) BY ZenonT(60), <2>3, <2>9, <2>10, <2>12 DEF UserStep
  <2>. QED BY ZenonT(60), <1>1, <2>11, <2>12
<1>2. IInv /\ [Next]_vars =>
        [\A p \in Proc : state[p] = "LIVE" /\ killed[p] /\ state'[p] = "LIVE" /\ ~killed'[p]
                           => op[p] = "fault"]_vars
  <2>1. Next => (\E p \in Proc : KernelStep(p) \/ UserStep(p)) \/ UNCHANGED vars
    BY ZenonT(60) DEF Next, Halted
  <2>. QED BY ZenonT(60), <1>1, <2>1
<1>. QED BY <1>2, Invariance, PTL DEF Spec, KillLostOnlyInFault
-----------------------------------------------------------------------------
\* What uvmalloc, uvmcopy and copyout have done so far is what they will rely on.
THEOREM LoopsFill == Spec => []FillsOK
<1>1. Init => FillsOK BY ZenonT(60), InitFills
<1>2. IInv /\ TablesOK /\ FillsOK /\ [Next]_vars => FillsOK' BY ZenonT(60), NextFills
<1>. QED BY <1>1, <1>2, Invariance, TablesInOrder, PTL DEF Spec

\* What a step may do to the memory that the programs see.
MemStore(p) == \E v \in VA, x \in Val \cup KVal :
                 Mem[p][v] # NoFrame /\ Mem' = [Mem EXCEPT ![p] = [@ EXCEPT ![v] = x]]
MemGrow(p) == \E n \in 0 .. NV :
                Mem' = [Mem EXCEPT ![p] = [v \in VA |-> IF Mem[p][v] = NoFrame /\ v < n THEN Zero ELSE Mem[p][v]]]
MemShrink(p) == \E n \in 0 .. NV :
                  Mem' = [Mem EXCEPT ![p] = [v \in VA |-> IF v < n THEN Mem[p][v] ELSE NoFrame]]
MemExec(p) == Mem' = [Mem EXCEPT ![p] = [v \in VA |-> IF v < Len(Image) THEN Image[v + 1].content ELSE NoFrame]]
MemFork(p) == \E c \in Proc : Mem[c] = [v \in VA |-> NoFrame] /\ Mem' = [Mem EXCEPT ![c] = Mem[p]]
MemExit(p) == Mem' = [Mem EXCEPT ![p] = [v \in VA |-> NoFrame]]

\* The memory changes in one place when one view changes.
LEMMA MemSet ==
  ASSUME NEW p \in Proc, NEW m, MemView(p)' = m, \A q \in Proc : q # p => MemView(q)' = MemView(q)
  PROVE  Mem' = [Mem EXCEPT ![p] = m]
<1>1. Mem' = [q \in Proc |-> IF q = p THEN m ELSE MemView(q)] BY ZenonT(60) DEF Mem
<1>2. [Mem EXCEPT ![p] = m] = [q \in Proc |-> IF q = p THEN m ELSE MemView(q)] BY ZenonT(60) DEF Mem
<1>. QED BY <1>1, <1>2

\* A step that stores into a page of its own.
LEMMA StoreStep ==
  ASSUME IInv, TablesOK, FillsOK, NEW p \in Proc,
         (\E w \in VA, x \in Val : UserStore(p, w, x)) \/ (CopyoutWrite(p) /\ ~UncheckedCopyout(p))
  PROVE  MemStore(p)
<1>1. PICK w \in VA, x \in Val \cup KVal :
        /\ pc[p] \in {"user", "write"} /\ map[Cur(p)][w] # NoFrame /\ "W" \in perm[Cur(p)][w]
        /\ content' = [content EXCEPT ![map[Cur(p)][w]] = x] /\ UNCHANGED <<map, state, sz>>
  <2>1. CASE \E w \in VA, x \in Val : UserStore(p, w, x)
    <3>1. PICK w \in VA, x \in Val : UserStore(p, w, x) BY <2>1
    <3>2. "W" \in perm[Cur(p)][w] /\ map[Cur(p)][w] # NoFrame BY ZenonT(60), <3>1 DEF UserStore, Writable
    <3>3. /\ pc[p] = "user" /\ content' = [content EXCEPT ![map[Cur(p)][w]] = x] /\ UNCHANGED <<map, state, sz>>
      BY ZenonT(60), <3>1 DEF UserStore, procVars, tableVars
    <3>. QED BY ZenonT(60), <3>2, <3>3
  <2>2. CASE CopyoutWrite(p) /\ ~UncheckedCopyout(p)
    <3>1. /\ pc[p] = "write" /\ "W" \in perm[Cur(p)][ix[p]]
          /\ content' = [content EXCEPT ![map[Cur(p)][ix[p]]] = val[p]] /\ UNCHANGED <<map, state, sz>>
      BY ZenonT(60), <2>2 DEF CopyoutWrite, UncheckedCopyout, procVars, tableVars
    <3>2. ThreadOK(p) /\ CopyoutOK(p) /\ pc[p] \in InCow BY ZenonT(60), <3>1 DEF IInv, FillsOK, InCow
    <3>3. val[p] \in KVal /\ ix[p] \in VA /\ map[Cur(p)][ix[p]] # NoFrame
      BY ZenonT(60), <3>1, <3>2 DEF ThreadOK, CopyoutOK
    <3>. QED BY ZenonT(60), <3>1, <3>3
  <2>. QED BY <2>1, <2>2
<1>2. /\ \A q \in Proc : q # p => MemView(q)' = MemView(q)
      /\ MemView(p)' = [MemView(p) EXCEPT ![w] = x] /\ MemView(p)[w] \in Content
  BY ZenonT(60), <1>1, StoreViews
<1>3. Mem' = [Mem EXCEPT ![p] = [MemView(p) EXCEPT ![w] = x]] BY ZenonT(60), <1>2, MemSet
<1>4. Mem[p] = MemView(p) BY ZenonT(60) DEF Mem
<1>5. Mem[p][w] # NoFrame BY ZenonT(60), <1>2, <1>4, AbsentAssumption
<1>6. Mem' = [Mem EXCEPT ![p] = [Mem[p] EXCEPT ![w] = x]] BY ZenonT(60), <1>3, <1>4
<1>. QED BY ZenonT(60), <1>5, <1>6 DEF MemStore

\* Every step of the kernel and of the programs is, for the memory that the programs
\* see, a step of private memories or nothing, except for copyout's unchecked store.
LEMMA MemStep ==
  ASSUME IInv, TablesOK, FillsOK, NEW p \in Proc, KernelStep(p) \/ UserStep(p)
  PROVE  \/ Mem' = Mem
         \/ MemStore(p) \/ MemGrow(p) \/ MemShrink(p) \/ MemExec(p) \/ MemFork(p) \/ MemExit(p)
         \/ UncheckedCopyout(p)
<1>. SUFFICES ASSUME ~UncheckedCopyout(p)
     PROVE  \/ Mem' = Mem
            \/ MemStore(p) \/ MemGrow(p) \/ MemShrink(p) \/ MemExec(p) \/ MemFork(p) \/ MemExit(p)
  BY ZenonT(60)
<1>0. Mem[p] = MemView(p) /\ lim[p] \in 0 .. NV BY ZenonT(60) DEF Mem, IInv, TypeOK
<1>1. \A q \in Proc : q # p /\ ~(ForkDone(p) /\ q = peer[p]) => MemView(q)' = MemView(q)
  BY ZenonT(60), OtherViews
<1>2. CASE (\E w \in VA, x \in Val : UserStore(p, w, x)) \/ CopyoutWrite(p) BY ZenonT(60), <1>2, StoreStep
<1>3. CASE ForkDone(p)
  <2>1. PICK c \in Proc : c = peer[p] BY ZenonT(60), <1>3, ForkViews
  <2>2. MemView(c) = [v \in VA |-> NoFrame] /\ MemView(c)' = MemView(p) /\ MemView(p)' = MemView(p)
    BY ZenonT(60), <1>3, <2>1, ForkViews
  <2>3. \A q \in Proc : q # c => MemView(q)' = MemView(q) BY ZenonT(60), <1>1, <2>1, <2>2
  <2>4. Mem' = [Mem EXCEPT ![c] = MemView(p)] BY ZenonT(60), <2>2, <2>3, MemSet
  <2>5. Mem[c] = [v \in VA |-> NoFrame] BY ZenonT(60), <2>2 DEF Mem
  <2>6. Mem' = [Mem EXCEPT ![c] = Mem[p]] BY ZenonT(60), <1>0, <2>4
  <2>. QED BY ZenonT(60), <2>5, <2>6 DEF MemFork
<1>4. CASE ~ForkDone(p)
  <2>1. \A m : MemView(p)' = m => Mem' = [Mem EXCEPT ![p] = m] BY ZenonT(60), <1>1, <1>4, MemSet
  <2>2. CASE AllocDone(p) /\ op[p] = "exec" BY ZenonT(60), <2>1, <2>2, ExecView DEF MemExec
  <2>3. CASE AllocDone(p) /\ op[p] # "exec"
    <3>1. MemView(p)' = [v \in VA |-> IF MemView(p)[v] = NoFrame /\ v < lim[p] THEN Zero ELSE MemView(p)[v]]
      BY ZenonT(60), <2>3, GrowView
    <3>2. Mem' = [Mem EXCEPT ![p] = [v \in VA |-> IF Mem[p][v] = NoFrame /\ v < lim[p] THEN Zero ELSE Mem[p][v]]]
      BY ZenonT(60), <1>0, <2>1, <3>1
    <3>. QED BY ZenonT(60), <1>0, <3>2 DEF MemGrow
  <2>4. ASSUME NEW n \in -NV .. NV, n < 0, Sbrk(p, n) PROVE MemShrink(p)
    <3>1. /\ sz[p] + n \in 0 .. NV
          /\ MemView(p)' = [v \in VA |-> IF v < sz[p] + n THEN MemView(p)[v] ELSE NoFrame]
      BY ZenonT(60), <2>4, ShrinkView
    <3>2. Mem' = [Mem EXCEPT ![p] = [v \in VA |-> IF v < sz[p] + n THEN Mem[p][v] ELSE NoFrame]]
      BY ZenonT(60), <1>0, <2>1, <3>1
    <3>. QED BY ZenonT(60), <3>1, <3>2 DEF MemShrink
  <2>5. CASE Exit(p) /\ p # InitProc BY ZenonT(60), <2>1, <2>5, ExitView DEF MemExit
  <2>6. CASE state'[p] = state[p] /\ sz'[p] = sz[p] /\ ~AllocDone(p)
    <3>. SUFFICES ASSUME ~\E w \in VA, x \in Val : UserStore(p, w, x), ~CopyoutWrite(p) PROVE Mem' = Mem
      BY ZenonT(60), <1>2
    <3>1. \A v \in VA : state[p] = "LIVE" /\ v < sz[p] => content'[map'[Cur(p)][v]] = content[map[Cur(p)][v]]
      BY ZenonT(60), <2>6, ViewKept
    <3>2. MemView(p)' = MemView(p) BY ZenonT(60), <2>6, <3>1, SameView
    <3>3. \A q \in Proc : MemView(q)' = MemView(q) BY ZenonT(60), <1>1, <1>4, <3>2
    <3>. QED BY ZenonT(60), <3>3 DEF Mem
  <2>. QED BY ZenonT(60), <2>2, <2>3, <2>4, <2>5, <2>6, SizeWriters
<1>. QED BY ZenonT(60), <1>3, <1>4

\* At first there is the page of initcode.
LEMMA InitMem ==
  ASSUME Init
  PROVE  Mem = [p \in Proc |-> IF p = InitProc THEN [v \in VA |-> IF v = 0 THEN InitCode ELSE NoFrame]
                               ELSE [v \in VA |-> NoFrame]]
<1>1. PICK f \in Frame :
        /\ map = [t \in Table |-> [v \in VA |-> IF t = Cur(InitProc) /\ v = 0 THEN f ELSE NoFrame]]
        /\ content = [g \in Frame |-> IF g = f THEN InitCode ELSE Junk]
  BY ZenonT(60) DEF Init
<1>2. /\ state = [p \in Proc |-> IF p = InitProc THEN "LIVE" ELSE "UNUSED"]
      /\ sz = [p \in Proc |-> IF p = InitProc THEN 1 ELSE 0]
  BY ZenonT(60) DEF Init
<1>3. Cur(InitProc) \in Table /\ \A v \in VA : v < 1 <=> v = 0
  BY SMTT(60), Z3T(60), ConstantsAssumption DEF Cur, Table, VA
<1>4. ASSUME NEW p \in Proc, p # InitProc PROVE MemView(p) = [v \in VA |-> NoFrame]
  BY ZenonT(60), <1>2, <1>4 DEF MemView
<1>5. ASSUME NEW p \in Proc, p = InitProc PROVE MemView(p) = [v \in VA |-> IF v = 0 THEN InitCode ELSE NoFrame]
  <2>1. state[p] = "LIVE" /\ sz[p] = 1 BY ZenonT(60), <1>2, <1>5
  <2>2. \A v \in VA : v = 0 => content[map[Cur(p)][v]] = InitCode BY ZenonT(60), <1>1, <1>3, <1>5
  <2>. QED BY ZenonT(60), <1>3, <2>1, <2>2 DEF MemView
<1>. QED BY ZenonT(60), <1>4, <1>5 DEF Mem

\* The first memory is that of private memories.
LEMMA InitPrivate == Init => Private!Init
<1>. SUFFICES ASSUME Init PROVE Private!Init
  BY ZenonT(60)
<1>1. Mem = [p \in Proc |-> IF p = InitProc THEN [v \in VA |-> IF v = 0 THEN InitCode ELSE NoFrame]
                            ELSE [v \in VA |-> NoFrame]]
  BY ZenonT(60), InitMem
<1>. QED BY ZenonT(60), <1>1 DEF Private!Init, Private!Nothing, Private!Page, VA

\* A step of CowMemory is a step of private memories, leaves them alone, or is copyout's
\* store to a page mapped without W.
LEMMA NextPrivate ==
  IInv /\ TablesOK /\ FillsOK /\ [Next]_vars => [Private!Next \/ \E p \in Proc : UncheckedCopyout(p)]_Mem
<1>. SUFFICES ASSUME IInv, TablesOK, FillsOK, [Next]_vars
              PROVE  Mem' = Mem \/ Private!Next \/ \E p \in Proc : UncheckedCopyout(p)
  BY ZenonT(60)
<1>1. CASE UNCHANGED vars
  <2>1. UNCHANGED <<state, sz, map, content>>
    BY ZenonT(60), <1>1 DEF vars, procVars, tableVars, allocVars
  <2>. QED BY ZenonT(60), <2>1 DEF Mem, MemView, Cur
<1>2. ASSUME NEW p \in Proc, KernelStep(p) \/ UserStep(p), ~UncheckedCopyout(p) PROVE Mem' = Mem \/ Private!Next
  <2>1. MemStore(p) => Private!Next BY ZenonT(60) DEF MemStore, Private!Next, Private!Store, Private!Page, VA
  <2>2. MemGrow(p) => Private!Next BY ZenonT(60) DEF MemGrow, Private!Next, Private!Grow, Private!Page, VA
  <2>3. MemShrink(p) => Private!Next BY ZenonT(60) DEF MemShrink, Private!Next, Private!Shrink, Private!Page, VA
  <2>4. MemExec(p) => Private!Next BY ZenonT(60) DEF MemExec, Private!Next, Private!Exec
  <2>5. MemFork(p) => Private!Next
    BY ZenonT(60) DEF MemFork, Private!Next, Private!Fork, Private!Nothing, Private!Page, VA
  <2>6. MemExit(p) => Private!Next
    BY ZenonT(60) DEF MemExit, Private!Next, Private!Exit, Private!Nothing, Private!Page, VA
  <2>. QED BY ZenonT(60), <1>2, <2>1, <2>2, <2>3, <2>4, <2>5, <2>6, MemStep
<1>. QED BY ZenonT(60), <1>1, <1>2 DEF Next, Halted

\* Copy-on-write fork is invisible: every program sees a private memory, except through
\* the one step in which copyout stores to a page that is mapped without W: a page that
\* custom_cow could not copy, or read-only text, which copyout does not protect.
THEOREM PrivateMemories == Spec => PrivateExceptCopyout
<1>1. Init => Private!Init BY ZenonT(60), InitPrivate
<1>2. IInv /\ TablesOK /\ FillsOK /\ [Next]_vars => [Private!Next \/ \E p \in Proc : UncheckedCopyout(p)]_Mem
  BY ZenonT(60), NextPrivate
<1>. QED BY <1>1, <1>2, Invariance, TablesInOrder, LoopsFill, PTL DEF Spec, PrivateExceptCopyout

\* As long as the kernel copies nothing out to the programs, the exception never happens:
\* copy-on-write fork, sbrk, exec and exit implement private memories.
THEOREM CowInvisible == ASSUME KVal = {} PROVE Spec => ImplementsPrivateMemory
<1>1. FillsOK => \A p \in Proc : ~UncheckedCopyout(p)
  <2>1. ASSUME NEW p \in Proc, CopyoutOK(p), UncheckedCopyout(p) PROVE FALSE
    BY ZenonT(60), <2>1 DEF CopyoutOK, UncheckedCopyout, CopyoutWrite, InCow
  <2>. QED BY ZenonT(60), <2>1 DEF FillsOK
<1>2. IInv /\ TablesOK /\ FillsOK /\ [Next]_vars => [Private!Next]_Mem
  BY ZenonT(60), <1>1, NextPrivate
<1>3. Init => Private!Init BY ZenonT(60), InitPrivate
<1>. QED BY <1>2, <1>3, Invariance, TablesInOrder, LoopsFill, PTL DEF Spec, ImplementsPrivateMemory, Private!Spec
=============================================================================
