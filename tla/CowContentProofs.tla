------------------------- MODULE CowContentProofs -------------------------
(***************************************************************************)
(* What the steps of CowMemory do to the contents of pages and to the      *)
(* memory that the programs see.                                           *)
(***************************************************************************)
EXTENDS CowMemoryFacts

\* Only a store, the copying of a page, the set-up of a new page and kfree of the
\* last reference change physical memory.
LEMMA ContentWriters ==
  ASSUME NEW p \in Proc, KernelStep(p) \/ UserStep(p)
  PROVE  \/ UNCHANGED content
         \/ CowMap(p) \/ CowFree(p) \/ CopyoutWrite(p) \/ Unmap(p) \/ AllocMap(p) \/ MemFree(p)
         \/ \E v \in VA, x \in Val : UserStore(p, v, x)
<1>. USE DEF allocVars
<1>1. Exit(p) => UNCHANGED content BY ZenonT(60) DEF Exit, Panic
<1>2. TrapReturn(p) \/ UserExit(p) => UNCHANGED content BY ZenonT(60), <1>1 DEF TrapReturn, UserExit
<1>3. CowAlloc(p) \/ CowPush(p) \/ FreePush(p) \/ AllocPop(p) => UNCHANGED content
  BY ZenonT(60) DEF CowAlloc, CowPush, FreePush, AllocPop
<1>4. UnmapDone(p) => UNCHANGED content BY ZenonT(60) DEF UnmapDone, Panic
<1>5. AllocDone(p) \/ CopyIncrement(p) \/ ForkDone(p) => UNCHANGED content
  BY ZenonT(60) DEF AllocDone, CopyIncrement, ForkDone
<1>6. CopyPage(p) => UNCHANGED content BY ZenonT(60) DEF CopyPage, Panic
<1>7. \A v, sp, first : StoreFault(p, v, sp, first) => UNCHANGED content BY ZenonT(60) DEF StoreFault, Panic
<1>8. (\A v, x : Read(p, v, x) => UNCHANGED content) /\ (\A n : Sbrk(p, n) => UNCHANGED content)
  BY ZenonT(60) DEF Read, Sbrk
<1>9. (\A q : Kill(p, q) => UNCHANGED content) /\ (\A c : Wait(p, c) => UNCHANGED content)
  BY ZenonT(60) DEF Kill, Wait
<1>10. Exec(p) \/ ExecBad(p) \/ Fork(p) => UNCHANGED content BY ZenonT(60) DEF Exec, ExecBad, Fork
<1>11. CASE KernelStep(p) BY ZenonT(60), <1>2, <1>3, <1>4, <1>5, <1>6, <1>11 DEF KernelStep
<1>12. CASE UserStep(p) BY ZenonT(60), <1>2, <1>7, <1>8, <1>9, <1>10, <1>12 DEF UserStep
<1>. QED BY ZenonT(60), <1>11, <1>12

\* The frame of a thread between kalloc's halves is in no page table.
LEMMA HandUnmapped ==
  ASSUME IInv, NEW p \in Proc, pc[p] \in Uncounted
  PROVE  hand[p] \in Frame /\ hand[p] # NoFrame /\ \A t \in Table, v \in VA : map[t][v] # hand[p]
<1>1. hand[p] \in Frame /\ temp[hand[p]] = 0 /\ hand[p] # NoFrame
  <2>1. ThreadOK(p) /\ HandsOK /\ hand \in [Proc -> Frame \cup {NoFrame}] BY ZenonT(60) DEF IInv, TypeOK
  <2>. QED BY ZenonT(60), <2>1 DEF ThreadOK, HandsOK
<1>. QED BY ZenonT(60), <1>1, ZeroUnused

\* uvmunmap's page and table.
LEMMA UnmapFacts ==
  ASSUME IInv, NEW p \in Proc, Unmap(p)
  PROVE  /\ pc[p] = "unmap" /\ pc[p] \in InLoop /\ ix[p] \in VA /\ Target(p) \in Table
         /\ \A q \in Proc : pc[q] = "copyinc" => Target(p) # Cur(q) /\ Target(p) # Cur(peer[q])
<1>1. pc[p] = "unmap" /\ ix[p] < lim[p] BY ZenonT(60) DEF Unmap
<1>2. ix[p] \in 0 .. NV /\ lim[p] \in 0 .. NV BY ZenonT(60) DEF IInv, TypeOK
<1>3. ix[p] \in VA BY SMTT(60), Z3T(60), <1>1, <1>2, ConstantTypes DEF VA
<1>4. pc[p] \in InLoop BY ZenonT(60), <1>1 DEF InLoop
<1>5. Target(p) \in Table BY ZenonT(60), <1>4, TargetPrivate
<1>6. ASSUME NEW q \in Proc, pc[q] = "copyinc" PROVE Target(p) # Cur(q) /\ Target(p) # Cur(peer[q])
  <2>1. ThreadOK(q) /\ q # p /\ pc[q] # "dead" BY ZenonT(60), <1>1, <1>6 DEF IInv
  <2>2. Forking(q) BY ZenonT(60), <2>1, <1>6 DEF ThreadOK, Forking, InLoop
  <2>. QED BY ZenonT(60), <1>4, <2>1, <2>2, TargetPrivate
<1>. QED BY <1>1, <1>3, <1>4, <1>5, <1>6

\* A mapped page changes only by a store through a table that maps it, or when its
\* last mapping goes.
LEMMA ContentChange ==
  ASSUME IInv, NEW p \in Proc, KernelStep(p) \/ UserStep(p),
         NEW t \in Table, NEW v \in VA, map[t][v] # NoFrame
  PROVE  \/ content'[map[t][v]] = content[map[t][v]]
         \/ Unmap(p) /\ t = Target(p) /\ v = ix[p] /\ map'[t][v] = NoFrame
         \/ \E w \in VA, x \in Val : UserStore(p, w, x) /\ map[Cur(p)][w] = map[t][v]
         \/ CopyoutWrite(p) /\ map[Cur(p)][ix[p]] = map[t][v]
<1>. DEFINE g == map[t][v]
            Keeps == content'[g] = content[g]
<1>0. g \in Frame /\ TypeOK /\ ThreadOK(p) /\ map \in [Table -> [VA -> Frame \cup {NoFrame}]]
  <2>1. TypeOK /\ ThreadOK(p) /\ map \in [Table -> [VA -> Frame \cup {NoFrame}]]
    BY ZenonT(60) DEF IInv, TypeOK
  <2>2. g \in Frame BY SMTT(60), Z3T(60), <2>1
  <2>. QED BY <2>1, <2>2
<1>a. ASSUME NEW f, NEW x, f # g, content' = [content EXCEPT ![f] = x] \/ content' = content PROVE Keeps
  <2>1. content \in [Frame -> Content] BY ZenonT(60), <1>0 DEF TypeOK
  <2>. HIDE DEF g
  <2>2. content'[g] = content[g] BY SMTT(60), Z3T(60), <1>0, <1>a, <2>1
  <2>. QED BY <2>2
<1>1. CASE UNCHANGED content BY <1>1
<1>2. ASSUME NEW w \in VA, NEW x \in Val, UserStore(p, w, x) PROVE Keeps \/ map[Cur(p)][w] = g
  BY ZenonT(60), <1>a, <1>2 DEF UserStore
<1>3. CASE CopyoutWrite(p)
  <2>1. Keeps \/ map[Cur(p)][ix[p]] = g BY ZenonT(60), <1>a, <1>3 DEF CopyoutWrite
  <2>. QED BY <1>3, <2>1
<1>4. CASE CowMap(p) \/ AllocMap(p)
  <2>1. pc[p] \in Uncounted /\ (UNCHANGED content \/ \E x : content' = [content EXCEPT ![hand[p]] = x])
    BY ZenonT(60), <1>4 DEF CowMap, AllocMap, Panic, allocVars, Uncounted
  <2>2. hand[p] # g BY ZenonT(60), <2>1, HandUnmapped
  <2>. QED BY ZenonT(60), <1>a, <1>1, <2>1, <2>2
<1>5. CASE CowFree(p) \/ MemFree(p)
  <2>1. pc[p] \in Counted
        /\ (UNCHANGED content \/ (temp[hand[p]] = 1 /\ content' = [content EXCEPT ![hand[p]] = Junk]))
    BY ZenonT(60), <1>5 DEF CowFree, MemFree, Decrement, Panic, allocVars, Counted
  <2>2. hand[p] \in Frame BY ZenonT(60), <1>0, <2>1 DEF TypeOK, ThreadOK
  <2>3. temp[hand[p]] = 1 => hand[p] # g BY ZenonT(60), <2>1, <2>2, LastHolder
  <2>. QED BY ZenonT(60), <1>a, <1>1, <2>1, <2>3
<1>6. CASE Unmap(p)
  <2>1. /\ ix[p] \in VA /\ Target(p) \in Table
        /\ \A q \in Proc : pc[q] = "copyinc" => Target(p) # Cur(q) /\ Target(p) # Cur(peer[q])
    BY ZenonT(60), <1>6, UnmapFacts
  <2>2. \/ UNCHANGED content
        \/ /\ temp[map[Target(p)][ix[p]]] = 1 /\ content' = [content EXCEPT ![map[Target(p)][ix[p]]] = Junk]
           /\ map' = [map EXCEPT ![Target(p)][ix[p]] = NoFrame]
    BY ZenonT(60), <1>6 DEF Unmap, Decrement, Panic, allocVars
  <2>3. CASE temp[g] = 1 /\ map[Target(p)][ix[p]] = g /\ map' = [map EXCEPT ![Target(p)][ix[p]] = NoFrame]
    <3>1. t = Target(p) /\ v = ix[p]
      <4>. DEFINE u == Target(p)
                  w == ix[p]
      <4>1. g \in Frame /\ temp[g] = 1 /\ map[u][w] = g /\ map[t][v] = g BY ZenonT(60), <1>0, <2>3
      <4>2. u \in Table /\ w \in VA /\ \A q \in Proc : pc[q] = "copyinc" => u # Cur(q) /\ u # Cur(peer[q])
        BY ZenonT(60), <2>1
      <4>. HIDE DEF g, u, w
      <4>3. t = u /\ v = w BY SMTT(60), Z3T(60), <4>1, <4>2, LastMapping
      <4>. QED BY ZenonT(60), <4>3 DEF u, w
    <3>2. map'[t][v] = NoFrame BY ZenonT(60), <1>0, <2>1, <2>3, <3>1
    <3>. QED BY ZenonT(60), <1>6, <3>1, <3>2
  <2>. QED BY ZenonT(60), <1>a, <1>1, <2>2, <2>3
<1>7. CASE \E w \in VA, x \in Val : UserStore(p, w, x) BY ZenonT(60), <1>2, <1>7
<1>. QED BY ZenonT(60), <1>1, <1>3, <1>4, <1>5, <1>6, <1>7, ContentWriters

\* A page that is mapped without W, and stays mapped, is not the one that changes, unless
\* copyout stores to it through a mapping without W.
LEMMA ProtectedKept ==
  ASSUME IInv, NEW p \in Proc, KernelStep(p) \/ UserStep(p),
         NEW t \in Table, NEW v \in VA, Protected(t, v), map'[t][v] = map[t][v]
  PROVE  \/ content'[map[t][v]] = content[map[t][v]]
         \/ UncheckedCopyout(p) /\ map[Cur(p)][ix[p]] = map[t][v]
<1>1. map[t][v] # NoFrame /\ "W" \notin perm[t][v] /\ WritableIsPrivate /\ ThreadOK(p) /\ Cur(p) \in Table
  BY ZenonT(60) DEF Protected, IInv, Cur, Table
<1>2. ASSUME NEW w \in VA, map[Cur(p)][w] = map[t][v], "W" \in perm[Cur(p)][w] PROVE FALSE
  <2>1. map[Cur(p)][w] # NoFrame BY ZenonT(60), <1>1, <1>2
  <2>2. Cur(p) = t /\ w = v BY SMTT(60), Z3T(60), <1>1, <1>2, <2>1 DEF WritableIsPrivate
  <2>. QED BY ZenonT(60), <1>1, <1>2, <2>2
<1>3. ASSUME NEW w \in VA, NEW x \in Val, UserStore(p, w, x), map[Cur(p)][w] = map[t][v] PROVE FALSE
  <2>1. "W" \in perm[Cur(p)][w] BY SMTT(60), <1>3 DEF UserStore, Writable
  <2>. QED BY ZenonT(60), <1>2, <1>3, <2>1
<1>4. ASSUME CopyoutWrite(p), map[Cur(p)][ix[p]] = map[t][v] PROVE UncheckedCopyout(p)
  <2>1. pc[p] = "write" BY ZenonT(60), <1>4 DEF CopyoutWrite
  <2>2. ix[p] \in VA BY ZenonT(60), <1>1, <2>1 DEF ThreadOK, InCow
  <2>. QED BY ZenonT(60), <1>2, <1>4, <2>2 DEF UncheckedCopyout
<1>. QED BY ZenonT(60), <1>1, <1>3, <1>4, ContentChange

\* What a step leaves alone of another process.
Stays(q) == /\ pc'[q] = pc[q] /\ op'[q] = op[q] /\ ix'[q] = ix[q] /\ lim'[q] = lim[q]
            /\ peer'[q] = peer[q] /\ val'[q] = val[q] /\ sz'[q] = sz[q] /\ state'[q] = state[q]

\* A step of one process leaves every other one in the kernel or in user mode alone;
\* the only ones it changes are the child that fork makes and the one that it frees.
LEMMA OthersStay ==
  ASSUME IInv, NEW p \in Proc, KernelStep(p) \/ UserStep(p), NEW q \in Proc, q # p
  PROVE  \/ Stays(q)
         \/ pc[q] = "dead" /\ Fork(p) /\ pc'[q] = "dead" /\ state'[q] = "USED"
         \/ pc[q] = "dead" /\ UnmapDone(p) /\ pc'[q] = "dead" /\ state'[q] = "UNUSED"
         \/ pc[q] = "dead" /\ ForkDone(p) /\ q = peer[p] /\ pc'[q] = "user"
<1>0. /\ TypeOK /\ ThreadOK(p) /\ ThreadOK(q)
      /\ state \in [Proc -> {"UNUSED", "USED", "LIVE", "ZOMBIE"}] /\ sz \in [Proc -> 0 .. NV]
      /\ pc \in [Proc -> Label] /\ peer \in [Proc -> Proc \cup {NoProc}]
      /\ ix \in [Proc -> 0 .. NV] /\ lim \in [Proc -> 0 .. NV] /\ val \in [Proc -> KVal \cup {Zero}]
      /\ op \in [Proc -> {"none", "fault", "read", "wait", "fork", "grow", "shrink", "exec"}]
  BY ZenonT(60) DEF IInv, TypeOK
<1>. USE DEF procVars, threadVars, Goto
<1>1. ASSUME NEW why, Panic(why) PROVE Stays(q) BY ZenonT(60), <1>1 DEF Panic, Stays
<1>2. Forget(p) => op'[q] = op[q] /\ ix'[q] = ix[q] /\ lim'[q] = lim[q] /\ peer'[q] = peer[q] /\ val'[q] = val[q]
  BY ZenonT(60), <1>0 DEF Forget
<1>3. Exit(p) => Stays(q) BY ZenonT(60), <1>0, <1>1, <1>2 DEF Exit, Stays
<1>4. TrapReturn(p) \/ UserExit(p) => Stays(q) BY ZenonT(60), <1>0, <1>2, <1>3 DEF TrapReturn, UserExit, Stays
<1>5. CowAlloc(p) \/ CowPush(p) => Stays(q) BY ZenonT(60), <1>0 DEF CowAlloc, CowPush, CowReturn, Stays
<1>6. CowMap(p) => Stays(q) BY ZenonT(60), <1>0 DEF CowMap, Stays
<1>7. CowFree(p) => Stays(q) BY ZenonT(60), <1>0, <1>1 DEF CowFree, CowReturn, Stays
<1>8. CopyoutWrite(p) => Stays(q) BY ZenonT(60), <1>0 DEF CopyoutWrite, Stays
<1>9. Unmap(p) => Stays(q) BY ZenonT(60), <1>0, <1>1 DEF Unmap, Stays
<1>10. FreePush(p) \/ AllocPop(p) => Stays(q) BY ZenonT(60), <1>0 DEF FreePush, AllocPop, StartUnmap, Stays
<1>11. AllocMap(p) => Stays(q) BY ZenonT(60), <1>0, <1>1 DEF AllocMap, Stays
<1>12. MemFree(p) => Stays(q) BY ZenonT(60), <1>0, <1>1 DEF MemFree, Stays
<1>13. AllocDone(p) => Stays(q) BY ZenonT(60), <1>0 DEF AllocDone, StartUnmap, Stays
<1>14. CopyPage(p) => Stays(q) BY ZenonT(60), <1>0, <1>1 DEF CopyPage, StartUnmap, Stays
<1>15. CopyIncrement(p) => Stays(q) BY ZenonT(60), <1>0 DEF CopyIncrement, Stays
<1>16. CASE ForkDone(p)
  <2>1. /\ pc[p] = "copy" /\ UNCHANGED <<op, ix, lim, peer, val>>
        /\ sz' = [sz EXCEPT ![peer[p]] = sz[p]] /\ state' = [state EXCEPT ![peer[p]] = "LIVE"]
        /\ pc' = [pc EXCEPT ![p] = "tret", ![peer[p]] = "user"]
    BY ZenonT(60), <1>16 DEF ForkDone
  <2>2. CASE q # peer[p] BY ZenonT(60), <1>0, <2>1, <2>2 DEF Stays
  <2>3. CASE q = peer[p]
    <3>1. state[q] = "USED" BY ZenonT(60), <1>0, <2>1, <2>3 DEF ThreadOK, Forking, InLoop
    <3>2. pc[q] = "dead" /\ pc'[q] = "user" BY ZenonT(60), <1>0, <2>1, <2>3, <3>1 DEF ThreadOK
    <3>. QED BY <1>16, <2>3, <3>2
  <2>. QED BY <2>2, <2>3
<1>17. CASE UnmapDone(p)
  <2>1. CASE \E why : Panic(why) BY ZenonT(60), <1>1, <2>1
  <2>2. CASE op[p] \notin {"fork", "wait"} BY ZenonT(60), <1>0, <1>1, <1>17, <2>2 DEF UnmapDone, Stays
  <2>3. CASE op[p] \in {"fork", "wait"} /\ ~\E why : Panic(why)
    <3>1. /\ pc[p] = "unmap" /\ UNCHANGED <<op, ix, lim, peer, val>> /\ pc' = [pc EXCEPT ![p] = "tret"]
          /\ sz' = [sz EXCEPT ![peer[p]] = 0] /\ state' = [state EXCEPT ![peer[p]] = "UNUSED"]
      BY ZenonT(60), <1>17, <2>3 DEF UnmapDone
    <3>2. CASE q # peer[p] BY ZenonT(60), <1>0, <3>1, <3>2 DEF Stays
    <3>3. CASE q = peer[p]
      <4>1. state[q] \in {"USED", "ZOMBIE"} BY ZenonT(60), <1>0, <2>3, <3>1, <3>3 DEF ThreadOK, Forking, InLoop
      <4>2. pc[q] = "dead" /\ pc'[q] = "dead" /\ state'[q] = "UNUSED"
        BY ZenonT(60), <1>0, <3>1, <3>3, <4>1 DEF ThreadOK
      <4>. QED BY <1>17, <4>2
    <3>. QED BY <3>2, <3>3
  <2>. QED BY ZenonT(60), <2>1, <2>2, <2>3
<1>18. \A v, x : UserStore(p, v, x) => Stays(q) BY ZenonT(60) DEF UserStore, Stays
<1>19. \A v, sp, first : StoreFault(p, v, sp, first) => Stays(q) BY ZenonT(60), <1>0, <1>1 DEF StoreFault, Stays
<1>20. \A v, x : Read(p, v, x) => Stays(q) BY ZenonT(60), <1>0 DEF Read, Copyout, Stays
<1>21. \A n : Sbrk(p, n) => Stays(q) BY ZenonT(60), <1>0 DEF Sbrk, StartUnmap, Stays
<1>22. (\A c : Kill(p, c) => Stays(q)) /\ (Exec(p) \/ ExecBad(p) => Stays(q))
  BY ZenonT(60), <1>0 DEF Kill, Exec, ExecBad, StartUnmap, Stays
<1>23. \A c : Wait(p, c) => Stays(q) BY SMTT(60), Z3T(60), <1>0 DEF Wait, Copyout, StartUnmap, Stays
<1>24. CASE Fork(p)
  <2>1. CASE UNCHANGED <<state, peer, op, ix, lim>> /\ pc' = [pc EXCEPT ![p] = "tret"]
    BY ZenonT(60), <1>0, <1>24, <2>1 DEF Fork, Stays
  <2>2. CASE ~(UNCHANGED <<state, peer, op, ix, lim>> /\ pc' = [pc EXCEPT ![p] = "tret"])
    <3>1. PICK c \in Proc :
            /\ state[c] = "UNUSED" /\ state' = [state EXCEPT ![c] = "USED"]
            /\ peer' = [peer EXCEPT ![p] = c] /\ op' = [op EXCEPT ![p] = "fork"]
            /\ ix' = [ix EXCEPT ![p] = 0] /\ lim' = [lim EXCEPT ![p] = sz[p]]
            /\ pc' = [pc EXCEPT ![p] = "copy"]
      BY ZenonT(60), <1>24, <2>2 DEF Fork
    <3>2. UNCHANGED <<sz, val>> BY ZenonT(60), <1>24 DEF Fork
    <3>3. CASE q # c BY ZenonT(60), <1>0, <3>1, <3>2, <3>3 DEF Stays
    <3>4. CASE q = c
      <4>1. pc[q] = "dead" /\ pc'[q] = "dead" /\ state'[q] = "USED"
        BY ZenonT(60), <1>0, <3>1, <3>4 DEF ThreadOK
      <4>. QED BY <1>24, <4>1
    <3>. QED BY <3>3, <3>4
  <2>. QED BY <2>1, <2>2
<1>25. CASE KernelStep(p)
  BY ZenonT(60), <1>4, <1>5, <1>6, <1>7, <1>8, <1>9, <1>10, <1>11, <1>12, <1>13, <1>14, <1>15, <1>16, <1>17, <1>25
     DEF KernelStep
<1>26. CASE UserStep(p)
  BY ZenonT(60), <1>4, <1>18, <1>19, <1>20, <1>21, <1>22, <1>23, <1>24, <1>26 DEF UserStep
<1>. QED BY <1>25, <1>26

\* Only a process that is alive takes steps.
LEMMA StepAlive ==
  ASSUME NEW p \in Proc, KernelStep(p) \/ UserStep(p)
  PROVE  pc[p] # "dead"
<1>1. CASE KernelStep(p)
  BY ZenonT(60), <1>1 DEF KernelStep, TrapReturn, CowAlloc, CowMap, CowFree, CowPush, CopyoutWrite, Unmap, FreePush,
     UnmapDone, AllocPop, AllocMap, MemFree, AllocDone, CopyPage, CopyIncrement, ForkDone
<1>2. CASE UserStep(p)
  BY ZenonT(60), <1>2 DEF UserStep, UserStore, StoreFault, Read, Sbrk, Kill, Wait, Exec, ExecBad, Fork, UserExit
<1>. QED BY <1>1, <1>2
\* Only custom_cow, uvmalloc, uvmunmap, uvmcopy and exec's commit change a page table.
LEMMA MapWriters ==
  ASSUME NEW p \in Proc, KernelStep(p) \/ UserStep(p)
  PROVE  \/ UNCHANGED map
         \/ CowMap(p) /\ map' = [map EXCEPT ![Cur(p)][ix[p]] = hand[p]]
         \/ AllocMap(p) /\ map' = [map EXCEPT ![Target(p)][ix[p]] = hand[p]]
         \/ Unmap(p) /\ map' = [map EXCEPT ![Target(p)][ix[p]] = NoFrame]
         \/ CopyPage(p) /\ map' = [map EXCEPT ![Cur(peer[p])][ix[p]] = map[Cur(p)][ix[p]]]
         \/ /\ AllocDone(p) /\ op[p] = "exec"
            /\ map' = [map EXCEPT ![Cur(p)] = map[New(p)], ![New(p)] = map[Cur(p)]]
<1>. USE DEF tableVars
<1>1. Exit(p) => UNCHANGED map BY ZenonT(60) DEF Exit, Panic
<1>2. TrapReturn(p) \/ UserExit(p) => UNCHANGED map BY ZenonT(60), <1>1 DEF TrapReturn, UserExit
<1>3. CowAlloc(p) \/ CowPush(p) \/ FreePush(p) \/ AllocPop(p) => UNCHANGED map
  BY ZenonT(60) DEF CowAlloc, CowPush, FreePush, AllocPop
<1>4. CowFree(p) \/ UnmapDone(p) \/ MemFree(p) => UNCHANGED map
  BY ZenonT(60) DEF CowFree, UnmapDone, MemFree, Panic
<1>5. CopyoutWrite(p) \/ CopyIncrement(p) \/ ForkDone(p) => UNCHANGED map
  BY ZenonT(60) DEF CopyoutWrite, CopyIncrement, ForkDone
<1>6. CowMap(p) => map' = [map EXCEPT ![Cur(p)][ix[p]] = hand[p]] BY ZenonT(60) DEF CowMap
<1>7. AllocMap(p) => UNCHANGED map \/ map' = [map EXCEPT ![Target(p)][ix[p]] = hand[p]]
  BY ZenonT(60) DEF AllocMap, Panic
<1>8. Unmap(p) => UNCHANGED map \/ map' = [map EXCEPT ![Target(p)][ix[p]] = NoFrame]
  BY ZenonT(60) DEF Unmap, Panic
<1>9. CopyPage(p) => UNCHANGED map \/ map' = [map EXCEPT ![Cur(peer[p])][ix[p]] = map[Cur(p)][ix[p]]]
  BY ZenonT(60) DEF CopyPage, Panic
<1>10. AllocDone(p) => \/ UNCHANGED map
                       \/ /\ op[p] = "exec"
                          /\ map' = [map EXCEPT ![Cur(p)] = map[New(p)], ![New(p)] = map[Cur(p)]]
  BY ZenonT(60) DEF AllocDone
<1>11. \A v, x : UserStore(p, v, x) \/ Read(p, v, x) => UNCHANGED map BY ZenonT(60) DEF UserStore, Read
<1>12. \A v, sp, first : StoreFault(p, v, sp, first) => UNCHANGED map BY ZenonT(60) DEF StoreFault, Panic
<1>13. (\A n : Sbrk(p, n) => UNCHANGED map) /\ (\A q : Kill(p, q) \/ Wait(p, q) => UNCHANGED map)
  BY ZenonT(60) DEF Sbrk, Kill, Wait
<1>14. Exec(p) \/ ExecBad(p) \/ Fork(p) => UNCHANGED map BY ZenonT(60) DEF Exec, ExecBad, Fork
<1>15. CASE KernelStep(p)
  BY ZenonT(60), <1>2, <1>3, <1>4, <1>5, <1>6, <1>7, <1>8, <1>9, <1>10, <1>15 DEF KernelStep
<1>16. CASE UserStep(p) BY ZenonT(60), <1>2, <1>11, <1>12, <1>13, <1>14, <1>16 DEF UserStep
<1>. QED BY ZenonT(60), <1>15, <1>16

\* A step changes only the tables that its process works on, and what it maps is a page
\* that nobody maps yet or one of a table it works on.
LEMMA Footprint ==
  ASSUME IInv, NEW p \in Proc, KernelStep(p) \/ UserStep(p)
  PROVE  /\ \A t \in Table : ~Works(p, t) => map'[t] = map[t]
         /\ \A t \in Table, v \in VA : map'[t][v] # NoFrame /\ map'[t][v] # map[t][v] =>
              \/ pc[p] \in Uncounted /\ map'[t][v] = hand[p]
              \/ \E u \in Table, w \in VA : Works(p, u) /\ map[u][w] = map'[t][v]
<1>0. map \in [Table -> [VA -> Frame \cup {NoFrame}]] /\ TypeOK /\ ThreadOK(p)
  BY ZenonT(60) DEF IInv, TypeOK
<1>1. Works(p, Cur(p)) /\ Works(p, New(p)) /\ (pc[p] \in InLoop => Works(p, Target(p))) BY ZenonT(60) DEF Works
<1>2. Cur(p) \in Table /\ New(p) \in Table BY ZenonT(60) DEF Cur, New, Table
<1>. DEFINE Maps(x) == /\ \A t \in Table : ~Works(p, t) => map'[t] = map[t]
                       /\ \A t \in Table, v \in VA : map'[t][v] # map[t][v] => map'[t][v] = x
<1>3. ASSUME NEW u, NEW i, NEW x, Works(p, u), map' = [map EXCEPT ![u][i] = x] PROVE Maps(x)
  <2>1. \A t \in Table : ~Works(p, t) => map'[t] = map[t] BY ZenonT(60), <1>0, <1>3
  <2>2. ASSUME NEW t \in Table, NEW v \in VA, map'[t][v] # map[t][v] PROVE map'[t][v] = x
    BY SMTT(60), Z3T(60), <1>0, <1>3, <2>2
  <2>. QED BY <2>1, <2>2
<1>4. CASE UNCHANGED map BY ZenonT(60), <1>4
<1>. HIDE DEF Maps
<1>5. CASE CowMap(p) /\ map' = [map EXCEPT ![Cur(p)][ix[p]] = hand[p]]
  <2>1. pc[p] \in Uncounted BY ZenonT(60), <1>5 DEF CowMap, Uncounted
  <2>2. Maps(hand[p]) BY ZenonT(60), <1>1, <1>3, <1>5, <2>1
  <2>. QED BY ZenonT(60), <2>1, <2>2 DEF Maps
<1>6. CASE AllocMap(p) /\ map' = [map EXCEPT ![Target(p)][ix[p]] = hand[p]]
  <2>1. pc[p] \in Uncounted /\ pc[p] \in InLoop BY ZenonT(60), <1>6 DEF AllocMap, Uncounted, InLoop
  <2>2. Maps(hand[p]) BY ZenonT(60), <1>1, <1>3, <1>6, <2>1
  <2>. QED BY ZenonT(60), <2>1, <2>2 DEF Maps
<1>7. CASE Unmap(p) /\ map' = [map EXCEPT ![Target(p)][ix[p]] = NoFrame]
  <2>1. pc[p] \in InLoop BY ZenonT(60), <1>7 DEF Unmap, InLoop
  <2>2. Maps(NoFrame) BY ZenonT(60), <1>1, <1>3, <1>7, <2>1
  <2>. QED BY ZenonT(60), <2>1, <2>2 DEF Maps
<1>8. CASE CopyPage(p) /\ map' = [map EXCEPT ![Cur(peer[p])][ix[p]] = map[Cur(p)][ix[p]]]
  <2>1. pc[p] \in InLoop /\ pc[p] = "copy" /\ ix[p] < lim[p] BY ZenonT(60), <1>8 DEF CopyPage, InLoop
  <2>2. Target(p) = Cur(peer[p]) BY ZenonT(60), <1>0, <2>1 DEF ThreadOK, Target
  <2>3. ix[p] \in VA
    <3>1. ix[p] \in 0 .. NV /\ lim[p] \in 0 .. NV BY ZenonT(60), <1>0 DEF TypeOK
    <3>. QED BY SMTT(60), Z3T(60), <2>1, <3>1, ConstantTypes DEF VA
  <2>4. Maps(map[Cur(p)][ix[p]]) BY ZenonT(60), <1>1, <1>3, <1>8, <2>1, <2>2
  <2>. QED BY ZenonT(60), <1>1, <1>2, <2>3, <2>4 DEF Maps
<1>9. CASE map' = [map EXCEPT ![Cur(p)] = map[New(p)], ![New(p)] = map[Cur(p)]]
  <2>1. Cur(p) # New(p) BY SMTT(60), Z3T(60) DEF Cur, New
  <2>2. /\ map'[Cur(p)] = map[New(p)] /\ map'[New(p)] = map[Cur(p)]
        /\ \A t \in Table : t # Cur(p) /\ t # New(p) => map'[t] = map[t]
    BY ZenonT(60), <1>0, <1>2, <1>9, <2>1
  <2>. QED BY ZenonT(60), <1>1, <1>2, <2>2
<1>. QED BY ZenonT(60), <1>4, <1>5, <1>6, <1>7, <1>8, <1>9, MapWriters
\* The pages of an allocation in progress are touched by nobody else.
LEMMA FreshApart ==
  ASSUME IInv, NEW p \in Proc, KernelStep(p) \/ UserStep(p), NEW T \in Table, ~Works(p, T), NEW v \in VA,
         map[T][v] # NoFrame,
         \A t \in Table, w \in VA : map[t][w] = map[T][v] => t = T /\ w = v
  PROVE  /\ map'[T][v] = map[T][v] /\ content'[map[T][v]] = content[map[T][v]]
         /\ \A t \in Table, w \in VA : map'[t][w] = map[T][v] => t = T /\ w = v
<1>1. map'[T][v] = map[T][v] BY ZenonT(60), Footprint
<1>2. Works(p, Cur(p)) /\ Cur(p) \in Table /\ (pc[p] \in InLoop => Works(p, Target(p)))
  BY ZenonT(60) DEF Works, Cur, Table
<1>3. \A w \in VA : map[Cur(p)][w] # map[T][v] BY ZenonT(60), <1>2
<1>4. content'[map[T][v]] = content[map[T][v]]
  <2>1. ASSUME Unmap(p), T = Target(p) PROVE FALSE BY ZenonT(60), <1>2, <2>1 DEF Unmap, InLoop
  <2>2. ASSUME CopyoutWrite(p), map[Cur(p)][ix[p]] = map[T][v] PROVE FALSE
    <3>1. ix[p] \in VA BY ZenonT(60), <2>2 DEF IInv, ThreadOK, CopyoutWrite, InCow
    <3>. QED BY ZenonT(60), <1>3, <2>2, <3>1
  <2>. QED BY ZenonT(60), <1>3, <2>1, <2>2, ContentChange
<1>5. ASSUME NEW t \in Table, NEW w \in VA, map'[t][w] = map[T][v] PROVE t = T /\ w = v
  <2>1. CASE map'[t][w] = map[t][w] BY ZenonT(60), <1>5, <2>1
  <2>2. CASE map'[t][w] # map[t][w]
    <3>0. /\ map'[t][w] # NoFrame /\ map'[t][w] # map[t][w]
          /\ \/ pc[p] \in Uncounted /\ map'[t][w] = hand[p]
             \/ \E u \in Table, x \in VA : Works(p, u) /\ map[u][x] = map'[t][w]
      BY ZenonT(60), <1>5, <2>2, Footprint
    <3>1. \/ pc[p] \in Uncounted /\ map[T][v] = hand[p]
          \/ \E u \in Table, x \in VA : Works(p, u) /\ map[u][x] = map[T][v]
      BY ZenonT(60), <1>5, <3>0
    <3>2. ~(pc[p] \in Uncounted /\ map[T][v] = hand[p]) BY ZenonT(60), HandUnmapped
    <3>. QED BY ZenonT(60), <3>1, <3>2
  <2>. QED BY <2>1, <2>2
<1>. QED BY <1>1, <1>4, <1>5

\* What FillsOK says of the other processes survives a step.
LEMMA OtherFills ==
  ASSUME IInv, TablesOK, FillsOK, NEW p \in Proc, KernelStep(p) \/ UserStep(p), NEW q \in Proc, q # p
  PROVE  FillOK(q)' /\ CopyoutOK(q)'
<1>1. CASE pc'[q] \in {"dead", "user"}
  BY ZenonT(60), <1>1 DEF FillOK, Filling, CopyoutOK, InCow
<1>2. CASE pc'[q] \notin {"dead", "user"}
  <2>1. Stays(q) /\ pc[q] # "dead" BY ZenonT(60), <1>2, OthersStay DEF Stays
  <2>2. /\ ThreadOK(q) /\ LoopOK(q) /\ FillOK(q) /\ CopyoutOK(q) /\ state[q] = "LIVE" /\ pc[p] # "dead"
        /\ Cur(q) \in Table
    BY ZenonT(60), <2>1, StepAlive DEF IInv, TablesOK, FillsOK, ThreadOK, Cur, Table
  <2>3. CopyoutOK(q)' BY ZenonT(60), <2>1, <2>2 DEF Stays, CopyoutOK
  <2>4. PICK T : T = Target(q) OBVIOUS
  <2>5. Target(q)' = T BY ZenonT(60), <2>1, <2>4 DEF Stays, Target, Cur, New
  <2>6. pc[q] \in InLoop => ~Works(p, T) /\ T \in Table BY ZenonT(60), <2>2, <2>4, WorksApart
  <2>7. ASSUME Filling(q), NEW v \in VA, AllocBase(q) <= v, v < ix[q]
        PROVE  /\ content'[map'[T][v]] = NewPage(q, v)
               /\ \A t \in Table, w \in VA : map'[t][w] = map'[T][v] => t = T /\ w = v
    <3>1. pc[q] \in InLoop BY ZenonT(60), <2>7 DEF Filling, InLoop
    <3>2. Holds(T, 0, ix[q]) BY ZenonT(60), <2>2, <2>4, <2>7 DEF LoopOK
    <3>3. 0 <= v BY SMTT(60), Z3T(60), ConstantTypes DEF VA
    <3>4. map[T][v] # NoFrame BY ZenonT(60), <2>7, <3>2, <3>3 DEF Holds
    <3>5. /\ content[map[T][v]] = NewPage(q, v)
          /\ \A t \in Table, w \in VA : map[t][w] = map[T][v] => t = T /\ w = v
      BY ZenonT(60), <2>2, <2>4, <2>7 DEF FillOK
    <3>6. T \in Table /\ ~Works(p, T) BY ZenonT(60), <2>6, <3>1
    <3>7. /\ map'[T][v] = map[T][v] /\ content'[map[T][v]] = content[map[T][v]]
          /\ \A t \in Table, w \in VA : map'[t][w] = map[T][v] => t = T /\ w = v
      BY SMTT(60), Z3T(60), SMTT(61), <3>4, <3>5, <3>6, FreshApart
    <3>. QED BY ZenonT(60), <3>5, <3>7
  <2>8. pc[q] \in {"copy", "copyinc"} => \A v \in VA : v < ix[q] => map'[T][v] = map'[Cur(q)][v]
    <3>. SUFFICES ASSUME pc[q] \in {"copy", "copyinc"} PROVE \A v \in VA : v < ix[q] => map'[T][v] = map'[Cur(q)][v]
      BY ZenonT(60)
    <3>1. pc[q] \in InLoop BY ZenonT(60) DEF InLoop
    <3>2. ~Works(p, Cur(q)) BY ZenonT(60), <2>2, WorksApart
    <3>3. map'[T] = map[T] /\ map'[Cur(q)] = map[Cur(q)] BY ZenonT(60), <2>2, <2>6, <3>1, <3>2, Footprint
    <3>4. \A v \in VA : v < ix[q] => map[T][v] = map[Cur(q)][v] BY ZenonT(60), <2>2, <2>4 DEF FillOK
    <3>. QED BY ZenonT(60), <3>3, <3>4
  <2>9. FillOK(q)'
    <3>1. Filling(q)' <=> Filling(q) BY ZenonT(60), <2>1 DEF Filling, Stays
    <3>2. AllocBase(q)' = AllocBase(q) /\ ix'[q] = ix[q] /\ pc'[q] = pc[q]
      BY ZenonT(60), <2>1 DEF AllocBase, Stays
    <3>3. \A v \in VA : NewPage(q, v)' = NewPage(q, v) BY ZenonT(60), <2>1 DEF NewPage, Stays
    <3>. HIDE DEF Filling, AllocBase, NewPage
    <3>. QED BY ZenonT(60), <2>5, <2>7, <2>8, <3>1, <3>2, <3>3 DEF FillOK, Cur
  <2>. QED BY <2>3, <2>9
<1>. QED BY <1>1, <1>2
\* The labels inside uvmalloc and uvmcopy.
Building == {"alloc", "allocmap", "memfree", "copy", "copyinc"}

\* The steps that lead into uvmalloc and uvmcopy, or stay there.
LEMMA BuildSteps ==
  ASSUME TypeOK, NEW p \in Proc, KernelStep(p) \/ UserStep(p)
  PROVE  \/ \E why : Panic(why)
         \/ pc'[p] \notin Building
         \/ AllocPop(p) \/ AllocMap(p) \/ CopyPage(p) \/ CopyIncrement(p)
         \/ (\E n \in -NV .. NV : Sbrk(p, n)) \/ Exec(p) \/ Fork(p)
<1>. DEFINE Leaves == pc'[p] \notin Building
            Stops == \E why : Panic(why)
<1>0. pc \in [Proc -> Label] BY ZenonT(60) DEF TypeOK
<1>1. ASSUME NEW e, pc' = [pc EXCEPT ![p] = e], e \notin Building PROVE Leaves BY ZenonT(60), <1>0, <1>1
<1>2. /\ "user" \notin Building /\ "tret" \notin Building /\ "dead" \notin Building /\ "unmap" \notin Building
      /\ "push" \notin Building /\ "write" \notin Building /\ "cow" \notin Building /\ "cowmap" \notin Building
      /\ "cowdec" \notin Building /\ "cowpush" \notin Building
  BY ZenonT(60) DEF Building
<1>3. pc' = pc /\ pc[p] \notin Building => Leaves BY ZenonT(60)
<1>. HIDE DEF Leaves, Stops
<1>. USE DEF Goto, threadVars
<1>4. Exit(p) => Leaves \/ Stops BY ZenonT(60), <1>1, <1>2 DEF Exit, Stops
<1>5. TrapReturn(p) \/ UserExit(p) => Leaves \/ Stops BY ZenonT(60), <1>1, <1>2, <1>4 DEF TrapReturn, UserExit
<1>6. CowAlloc(p) \/ CowMap(p) \/ CowPush(p) => Leaves
  BY ZenonT(60), <1>1, <1>2 DEF CowAlloc, CowMap, CowPush, CowReturn
<1>7. CowFree(p) \/ MemFree(p) => Leaves \/ Stops BY ZenonT(60), <1>1, <1>2 DEF CowFree, MemFree, CowReturn, Stops
<1>8. CopyoutWrite(p) \/ FreePush(p) => Leaves BY ZenonT(60), <1>1, <1>2 DEF CopyoutWrite, FreePush
<1>9. Unmap(p) => Leaves \/ Stops BY ZenonT(60), <1>1, <1>2, <1>3 DEF Unmap, Stops
<1>10. UnmapDone(p) => Leaves \/ Stops BY ZenonT(60), <1>1, <1>2 DEF UnmapDone, Stops
<1>11. AllocDone(p) => Leaves BY ZenonT(60), <1>1, <1>2 DEF AllocDone, StartUnmap
<1>12. ForkDone(p) => Leaves
  <2>1. ForkDone(p) => pc'[p] \in {"tret", "user"} BY ZenonT(60), <1>0 DEF ForkDone
  <2>. QED BY ZenonT(60), <2>1, <1>2 DEF Leaves
<1>13. \A v, x : UserStore(p, v, x) => Leaves BY ZenonT(60), <1>2, <1>3 DEF UserStore
<1>14. \A v, sp, first : StoreFault(p, v, sp, first) => Leaves \/ Stops BY ZenonT(60), <1>1, <1>2 DEF StoreFault, Stops
<1>15. \A v, x : Read(p, v, x) => Leaves BY ZenonT(60), <1>1, <1>2 DEF Read, Copyout
<1>16. \A c : Kill(p, c) => Leaves BY ZenonT(60), <1>2, <1>3 DEF Kill
<1>17. \A c : Wait(p, c) => Leaves BY ZenonT(60), <1>1, <1>2 DEF Wait, Copyout, StartUnmap
<1>18. ExecBad(p) => Leaves BY ZenonT(60), <1>1, <1>2 DEF ExecBad, StartUnmap
<1>19. CASE KernelStep(p)
  BY ZenonT(60), <1>5, <1>6, <1>7, <1>8, <1>9, <1>10, <1>11, <1>12, <1>19 DEF KernelStep, Leaves, Stops
<1>20. CASE UserStep(p)
  BY ZenonT(60), <1>5, <1>13, <1>14, <1>15, <1>16, <1>17, <1>18, <1>20 DEF UserStep, Leaves, Stops
<1>. QED BY <1>19, <1>20

\* uvmalloc puts its next page in place.
LEMMA AllocMapFills ==
  ASSUME IInv, TablesOK, FillsOK, NEW p \in Proc, AllocMap(p), ~\E why : Panic(why)
  PROVE  FillOK(p)'
<1>1. /\ pc[p] = "allocmap" /\ map[Target(p)][ix[p]] = NoFrame
      /\ content' = [content EXCEPT ![hand[p]] = NewPage(p, ix[p])]
      /\ UNCHANGED <<sz, op, peer>>
      /\ \/ map' = [map EXCEPT ![Target(p)][ix[p]] = hand[p]] /\ ix' = [ix EXCEPT ![p] = ix[p] + 1]
            /\ pc' = [pc EXCEPT ![p] = "alloc"]
         \/ UNCHANGED <<map, ix>> /\ pc' = [pc EXCEPT ![p] = "memfree"]
  <2>1. (IF op[p] = "exec" THEN Image[ix[p] + 1] ELSE [flags |-> {"W", "U"}, content |-> Zero]).content
          = NewPage(p, ix[p])
    BY SMTT(60), Z3T(60), SMTT(61) DEF NewPage
  <2>. QED BY ZenonT(60), <2>1 DEF AllocMap, Goto, procVars, tableVars
<1>2. /\ pc[p] \in Uncounted /\ pc[p] \in InLoop /\ Filling(p) /\ ThreadOK(p) /\ LoopOK(p) /\ FillOK(p) /\ TypeOK
      /\ map \in [Table -> [VA -> Frame \cup {NoFrame}]] /\ content \in [Frame -> Content]
      /\ ix \in [Proc -> 0 .. NV] /\ ix[p] \in 0 .. NV /\ lim[p] \in 0 .. NV /\ ix[p] < lim[p]
      /\ sz[p] \in 0 .. NV
  BY ZenonT(60), <1>1 DEF Uncounted, InLoop, Filling, IInv, TablesOK, FillsOK, TypeOK, ThreadOK
<1>3. ix[p] \in VA BY SMTT(60), Z3T(60), SMTT(61), <1>2, ConstantTypes DEF VA
<1>4. hand[p] \in Frame /\ \A t \in Table, v \in VA : map[t][v] # hand[p] BY ZenonT(60), <1>2, HandUnmapped
<1>5. PICK T \in Table, i \in VA, h \in Frame : T = Target(p) /\ i = ix[p] /\ h = hand[p]
  BY ZenonT(60), <1>2, <1>3, <1>4, TargetPrivate
<1>6. Target(p)' = T /\ AllocBase(p)' = AllocBase(p) /\ \A v \in VA : NewPage(p, v)' = NewPage(p, v)
  BY ZenonT(60), <1>1, <1>5 DEF Target, Cur, New, AllocBase, NewPage
<1>7. \A v \in VA : AllocBase(p) <= v /\ v < i =>
        /\ map[T][v] # NoFrame /\ map[T][v] \in Frame /\ map[T][v] # h /\ content[map[T][v]] = NewPage(p, v)
        /\ \A t \in Table, w \in VA : map[t][w] = map[T][v] => t = T /\ w = v
  <2>. SUFFICES ASSUME NEW v \in VA, AllocBase(p) <= v, v < i
       PROVE /\ map[T][v] # NoFrame /\ map[T][v] \in Frame /\ map[T][v] # h /\ content[map[T][v]] = NewPage(p, v)
             /\ \A t \in Table, w \in VA : map[t][w] = map[T][v] => t = T /\ w = v
    BY ZenonT(60)
  <2>1. 0 <= v BY SMTT(60), Z3T(60), ConstantTypes DEF VA
  <2>2. map[T][v] # NoFrame BY ZenonT(60), <1>2, <1>5, <2>1 DEF LoopOK, Holds
  <2>3. map[T][v] \in Frame \cup {NoFrame} BY ZenonT(60), <1>2
  <2>. QED BY SMTT(60), Z3T(60), SMTT(61), <1>2, <1>4, <1>5, <2>2, <2>3 DEF FillOK
<1>8. content'[h] = NewPage(p, i) /\ \A g \in Frame : g # h => content'[g] = content[g]
  BY ZenonT(60), <1>1, <1>2, <1>5
<1>9. CASE UNCHANGED <<map, ix>> /\ pc' = [pc EXCEPT ![p] = "memfree"]
  <2>1. ix'[p] = i /\ pc'[p] = "memfree" BY ZenonT(60), <1>5, <1>9 DEF IInv, TypeOK
  <2>2. \A v \in VA : AllocBase(p) <= v /\ v < i =>
          /\ content'[map'[T][v]] = NewPage(p, v)
          /\ \A t \in Table, w \in VA : map'[t][w] = map'[T][v] => t = T /\ w = v
    <3>1. map' = map BY ZenonT(60), <1>9
    <3>. QED BY ZenonT(60), <1>7, <1>8, <3>1
  <2>. HIDE DEF AllocBase, NewPage
  <2>. QED BY SMTT(60), Z3T(60), SMTT(61), <1>6, <2>1, <2>2 DEF FillOK
<1>10. CASE /\ map' = [map EXCEPT ![Target(p)][ix[p]] = hand[p]] /\ ix' = [ix EXCEPT ![p] = ix[p] + 1]
            /\ pc' = [pc EXCEPT ![p] = "alloc"]
  <2>1. ix'[p] = i + 1 /\ pc'[p] = "alloc" BY ZenonT(60), <1>5, <1>10 DEF IInv, TypeOK
  <2>2. map'[T][i] = h /\ \A t \in Table, v \in VA : t # T \/ v # i => map'[t][v] = map[t][v]
    <3>1. map' = [map EXCEPT ![T][i] = h] BY ZenonT(60), <1>5, <1>10
    <3>. QED BY SMTT(60), Z3T(60), <1>2, <3>1
  <2>3. \A v \in VA : v < i + 1 => v < i \/ v = i BY SMTT(60), Z3T(60), ConstantTypes DEF VA
  <2>4. \A t \in Table, v \in VA : map[t][v] # h BY ZenonT(60), <1>4, <1>5
  <2>5. ASSUME NEW v \in VA, AllocBase(p) <= v, v < i
        PROVE  /\ content'[map'[T][v]] = NewPage(p, v)
               /\ \A t \in Table, w \in VA : map'[t][w] = map'[T][v] => t = T /\ w = v
    <3>1. /\ map[T][v] \in Frame /\ map[T][v] # h /\ content[map[T][v]] = NewPage(p, v)
          /\ \A t \in Table, w \in VA : map[t][w] = map[T][v] => t = T /\ w = v
      BY ZenonT(60), <1>7, <2>5
    <3>2. v # i BY SMTT(60), Z3T(60), <2>5 DEF VA
    <3>3. map'[T][v] = map[T][v] BY ZenonT(60), <2>2, <3>2
    <3>. QED BY ZenonT(60), <1>8, <2>2, <3>1, <3>3
  <2>6. /\ content'[map'[T][i]] = NewPage(p, i)
        /\ \A t \in Table, w \in VA : map'[t][w] = map'[T][i] => t = T /\ w = i
    BY ZenonT(60), <1>8, <2>2, <2>4
  <2>7. \A v \in VA : AllocBase(p) <= v /\ v < i + 1 =>
          /\ content'[map'[T][v]] = NewPage(p, v)
          /\ \A t \in Table, w \in VA : map'[t][w] = map'[T][v] => t = T /\ w = v
    BY ZenonT(60), <2>3, <2>5, <2>6
  <2>. HIDE DEF AllocBase, NewPage
  <2>. QED BY SMTT(60), Z3T(60), <1>6, <2>1, <2>7 DEF FillOK
<1>. QED BY ZenonT(60), <1>1, <1>9, <1>10
\* A round of uvmcopy's loop.
LEMMA CopyFills ==
  ASSUME IInv, FillsOK, NEW p \in Proc, CopyPage(p) \/ CopyIncrement(p), ~\E why : Panic(why)
  PROVE  FillOK(p)'
<1>1. /\ ThreadOK(p) /\ FillOK(p) /\ pc[p] \in {"copy", "copyinc"} /\ pc[p] \in InLoop /\ op[p] = "fork"
      /\ map \in [Table -> [VA -> Frame \cup {NoFrame}]] /\ ix \in [Proc -> 0 .. NV] /\ pc \in [Proc -> Label]
      /\ ix[p] \in 0 .. NV
  BY ZenonT(60) DEF IInv, TypeOK, FillsOK, ThreadOK, CopyPage, CopyIncrement, InLoop
<1>2. PICK T \in Table, i \in 0 .. NV, c \in Proc : T = Target(p) /\ i = ix[p] /\ c = peer[p]
  BY ZenonT(60), <1>1, TargetPrivate DEF ThreadOK, Forking
<1>3. T = Cur(c) /\ T # Cur(p) /\ Cur(p) \in Table
  <2>1. state[c] = "USED" /\ state[p] = "LIVE" BY ZenonT(60), <1>1, <1>2 DEF ThreadOK, Forking
  <2>. QED BY SMTT(60), Z3T(60), SMTT(61), <1>1, <1>2, <2>1 DEF Target, Cur, Table
<1>4. \A v \in VA : v < i => map[T][v] = map[Cur(p)][v] BY ZenonT(60), <1>1, <1>2 DEF FillOK
<1>5. CASE pc'[p] \notin Building BY ZenonT(60), <1>5 DEF FillOK, Filling, Building
<1>6. CASE pc'[p] \in Building
  <2>1. UNCHANGED <<op, peer>> BY ZenonT(60) DEF CopyPage, CopyIncrement
  <2>2. Target(p)' = T BY ZenonT(60), <1>2, <2>1 DEF Target, Cur, New
  <2>3. CASE CopyIncrement(p)
    <3>1. pc[p] = "copyinc" /\ pc'[p] = "copy" /\ ix'[p] = i + 1 /\ map' = map
      BY ZenonT(60), <1>1, <1>2, <2>3 DEF CopyIncrement, Goto, tableVars
    <3>2. map[T][i] = map[Cur(p)][i] BY ZenonT(60), <1>1, <1>2, <1>3, <3>1 DEF ThreadOK
    <3>3. \A v \in VA : v < i + 1 => v < i \/ v = i BY SMTT(60), Z3T(60), ConstantTypes DEF VA
    <3>4. \A v \in VA : v < i + 1 => map'[T][v] = map'[Cur(p)][v] BY ZenonT(60), <1>4, <3>1, <3>2, <3>3
    <3>. QED BY ZenonT(60), <2>2, <3>1, <3>4 DEF FillOK, Filling, Cur
  <2>4. CASE CopyPage(p)
    <3>1. /\ pc'[p] = "copyinc" /\ ix'[p] = i
          /\ map' = [map EXCEPT ![Cur(c)][i] = map[Cur(p)][i]]
      <4>1. \/ /\ pc' = [pc EXCEPT ![p] = "copyinc"] /\ ix' = ix
               /\ map' = [map EXCEPT ![Cur(peer[p])][ix[p]] = map[Cur(p)][ix[p]]]
            \/ pc' = [pc EXCEPT ![p] = "unmap"]
        BY ZenonT(60), <2>4 DEF CopyPage, Goto, StartUnmap
      <4>2. pc' # [pc EXCEPT ![p] = "unmap"] BY ZenonT(60), <1>1, <1>6 DEF Building
      <4>. QED BY ZenonT(60), <1>1, <1>2, <4>1, <4>2
    <3>2. \A v \in VA : v < i => v # i BY SMTT(60), Z3T(60), SMTT(61), ConstantTypes DEF VA
    <3>3. \A v \in VA : v < i => map'[T][v] = map'[Cur(p)][v]
      <4>1. map' = [map EXCEPT ![T][i] = map[Cur(p)][i]] BY <1>3, <3>1
      <4>2. \A v \in VA : v # i => map'[T][v] = map[T][v] BY ZenonT(60), <1>1, <4>1
      <4>3. map'[Cur(p)] = map[Cur(p)] BY ZenonT(60), <1>1, <1>3, <4>1
      <4>. QED BY ZenonT(60), <1>4, <3>2, <4>2, <4>3
    <3>. QED BY ZenonT(60), <2>2, <3>1, <3>3 DEF FillOK, Filling, Cur
  <2>. QED BY <2>3, <2>4
<1>. QED BY <1>5, <1>6

\* What FillOK says depends on these variables only.
LEMMA SameFill ==
  ASSUME NEW q, FillOK(q), UNCHANGED <<map, content, pc, op, ix, peer, sz>>
  PROVE  FillOK(q)'
BY SMTT(60), Z3T(60) DEF FillOK, Filling, Target, Cur, New, AllocBase, NewPage

\* What FillsOK says of a process survives its own steps.
LEMMA OwnFills ==
  ASSUME IInv, TablesOK, FillsOK, NEW p \in Proc, KernelStep(p) \/ UserStep(p)
  PROVE  FillOK(p)'
<1>0. /\ TypeOK /\ FillOK(p) /\ pc \in [Proc -> Label] /\ ix \in [Proc -> 0 .. NV] /\ sz[p] \in 0 .. NV
      /\ op \in [Proc -> {"none", "fault", "read", "wait", "fork", "grow", "shrink", "exec"}]
  BY ZenonT(60) DEF IInv, TypeOK, FillsOK
<1>1. CASE \E why : Panic(why)
  <2>1. UNCHANGED <<map, content, pc, op, ix, peer, sz>>
    BY ZenonT(60), <1>1 DEF Panic, procVars, tableVars, allocVars, threadVars
  <2>. QED BY ZenonT(60), <1>0, <2>1, SameFill
<1>2. CASE pc'[p] \notin Building BY ZenonT(60), <1>2 DEF FillOK, Filling, Building
<1>3. CASE ~(\E why : Panic(why)) /\ pc'[p] \in Building /\ AllocPop(p)
  <2>1. UNCHANGED <<map, content, op, peer, sz>> /\ pc[p] = "alloc"
        /\ (UNCHANGED ix \/ pc' = [pc EXCEPT ![p] = "unmap"])
    BY ZenonT(60), <1>3 DEF AllocPop, procVars, tableVars, StartUnmap, Goto
  <2>2. UNCHANGED ix BY ZenonT(60), <1>0, <1>3, <2>1 DEF Building
  <2>3. pc'[p] = "allocmap"
    <3>1. pc' = [pc EXCEPT ![p] = "allocmap"] \/ pc' = [pc EXCEPT ![p] = "unmap"]
      BY ZenonT(60), <1>3 DEF AllocPop, StartUnmap, Goto
    <3>. QED BY ZenonT(60), <1>0, <1>3, <3>1 DEF Building
  <2>4. Filling(p) BY ZenonT(60), <2>1 DEF Filling
  <2>5. PICK T : T = Target(p) OBVIOUS
  <2>6. Target(p)' = T /\ AllocBase(p)' = AllocBase(p) /\ ix'[p] = ix[p] /\ \A v \in VA : NewPage(p, v)' = NewPage(p, v)
    BY ZenonT(60), <2>1, <2>2, <2>5 DEF Target, Cur, New, AllocBase, NewPage
  <2>7. \A v \in VA : AllocBase(p) <= v /\ v < ix[p] =>
          /\ content'[map'[T][v]] = NewPage(p, v)
          /\ \A t \in Table, w \in VA : map'[t][w] = map'[T][v] => t = T /\ w = v
    <3>1. \A v \in VA : AllocBase(p) <= v /\ v < ix[p] =>
            /\ content[map[T][v]] = NewPage(p, v)
            /\ \A t \in Table, w \in VA : map[t][w] = map[T][v] => t = T /\ w = v
      BY SMTT(60), Z3T(60), SMTT(61), <1>0, <2>4, <2>5 DEF FillOK
    <3>2. content' = content /\ map' = map BY ZenonT(60), <2>1
    <3>. HIDE DEF AllocBase, NewPage
    <3>. QED BY ZenonT(60), <3>1, <3>2
  <2>. QED BY SMTT(60), Z3T(60), SMTT(61), <2>3, <2>6, <2>7 DEF FillOK
<1>4. CASE ~(\E why : Panic(why)) /\ AllocMap(p) BY ZenonT(60), <1>4, AllocMapFills
<1>5. CASE ~(\E why : Panic(why)) /\ (CopyPage(p) \/ CopyIncrement(p)) BY ZenonT(60), <1>5, CopyFills
<1>6. \A v \in VA : ~(v < 0) /\ ~(sz[p] <= v /\ v < sz[p]) BY SMTT(60), Z3T(60), SMTT(61), <1>0, ConstantTypes DEF VA
<1>7. ASSUME NEW n \in -NV .. NV, Sbrk(p, n), pc'[p] \in Building PROVE FillOK(p)'
  <2>1. \/ /\ pc' = [pc EXCEPT ![p] = "alloc"] /\ op' = [op EXCEPT ![p] = "grow"]
           /\ ix' = [ix EXCEPT ![p] = sz[p]] /\ UNCHANGED sz
        \/ pc' = [pc EXCEPT ![p] = "unmap"]
    BY ZenonT(60), <1>7 DEF Sbrk, StartUnmap, Goto
  <2>2. pc'[p] = "alloc" /\ op'[p] = "grow" /\ ix'[p] = sz[p] /\ sz'[p] = sz[p]
    BY ZenonT(60), <1>0, <1>7, <2>1 DEF Building
  <2>3. AllocBase(p)' = sz[p] BY ZenonT(60), <2>2 DEF AllocBase
  <2>. QED BY ZenonT(60), <1>6, <2>2, <2>3 DEF FillOK
<1>8. CASE Exec(p)
  <2>1. pc'[p] = "alloc" /\ ix'[p] = 0 BY ZenonT(60), <1>0, <1>8 DEF Exec, Goto
  <2>. QED BY ZenonT(60), <1>6, <2>1 DEF FillOK
<1>9. CASE Fork(p) /\ pc'[p] \in Building
  <2>1. pc' = [pc EXCEPT ![p] = "tret"] \/ (pc' = [pc EXCEPT ![p] = "copy"] /\ ix' = [ix EXCEPT ![p] = 0])
    BY ZenonT(60), <1>9 DEF Fork, Goto
  <2>2. pc'[p] = "copy" /\ ix'[p] = 0 BY ZenonT(60), <1>0, <1>9, <2>1 DEF Building
  <2>. QED BY ZenonT(60), <1>6, <2>2 DEF FillOK, Filling
<1>. QED BY ZenonT(60), <1>0, <1>1, <1>2, <1>3, <1>4, <1>5, <1>7, <1>8, <1>9, BuildSteps
\* Whoever gets as far as copyout's store carries a value of the kernel.
LEMMA OwnCopyout ==
  ASSUME IInv, FillsOK, NEW p \in Proc, KernelStep(p) \/ UserStep(p)
  PROVE  CopyoutOK(p)'
<1>. DEFINE Leaves == pc'[p] \notin InCow
<1>0. /\ TypeOK /\ CopyoutOK(p) /\ pc \in [Proc -> Label] /\ val \in [Proc -> KVal \cup {Zero}]
      /\ op \in [Proc -> {"none", "fault", "read", "wait", "fork", "grow", "shrink", "exec"}]
  BY ZenonT(60) DEF IInv, TypeOK, FillsOK
<1>1. ASSUME NEW e, pc' = [pc EXCEPT ![p] = e], e \notin InCow PROVE Leaves BY ZenonT(60), <1>0, <1>1
<1>2. /\ "user" \notin InCow /\ "tret" \notin InCow /\ "dead" \notin InCow /\ "unmap" \notin InCow
      /\ "push" \notin InCow /\ "alloc" \notin InCow /\ "allocmap" \notin InCow /\ "memfree" \notin InCow
      /\ "copy" \notin InCow /\ "copyinc" \notin InCow
  BY ZenonT(60) DEF InCow
<1>3. pc' = pc /\ pc[p] \notin InCow => Leaves BY ZenonT(60)
<1>4. CASE Leaves BY ZenonT(60), <1>4 DEF CopyoutOK
<1>5. ASSUME NEW why, Panic(why) PROVE CopyoutOK(p)' BY ZenonT(60), <1>0, <1>5 DEF Panic, threadVars, CopyoutOK
<1>. HIDE DEF Leaves
<1>. USE DEF Goto, threadVars
<1>6. Exit(p) => CopyoutOK(p)' BY ZenonT(60), <1>1, <1>2, <1>4, <1>5 DEF Exit
<1>7. TrapReturn(p) \/ UserExit(p) => CopyoutOK(p)' BY ZenonT(60), <1>1, <1>2, <1>4, <1>6 DEF TrapReturn, UserExit
<1>8. CASE CowAlloc(p) \/ CowMap(p) \/ CowFree(p) \/ CowPush(p)
  <2>1. CASE \E why : Panic(why) BY ZenonT(60), <1>5, <2>1
  <2>2. CASE ~\E why : Panic(why)
    <3>1. /\ pc[p] \in InCow /\ pc[p] # "write" /\ UNCHANGED <<val, op>>
          /\ \/ \E e \in {"cowmap", "cowdec", "cowpush", "tret"} : pc' = [pc EXCEPT ![p] = e]
             \/ op[p] # "fault"
      <4>1. CASE CowAlloc(p) BY ZenonT(60), <4>1 DEF CowAlloc, CowReturn, InCow
      <4>2. CASE CowMap(p) BY ZenonT(60), <4>2 DEF CowMap, InCow
      <4>3. CASE CowFree(p) BY ZenonT(60), <2>2, <4>3 DEF CowFree, CowReturn, InCow
      <4>4. CASE CowPush(p) BY ZenonT(60), <4>4 DEF CowPush, CowReturn, InCow
      <4>. QED BY <1>8, <4>1, <4>2, <4>3, <4>4
    <3>2. (\E e \in {"cowmap", "cowdec", "cowpush", "tret"} : pc' = [pc EXCEPT ![p] = e]) => pc'[p] # "write"
      BY ZenonT(60), <1>0
    <3>. QED BY ZenonT(60), <1>0, <3>1, <3>2 DEF CopyoutOK
  <2>. QED BY <2>1, <2>2
<1>9. CopyoutWrite(p) \/ FreePush(p) => Leaves BY ZenonT(60), <1>1, <1>2 DEF CopyoutWrite, FreePush
<1>10. Unmap(p) => CopyoutOK(p)' BY ZenonT(60), <1>1, <1>2, <1>3, <1>4, <1>5 DEF Unmap
<1>11. UnmapDone(p) => CopyoutOK(p)' BY ZenonT(60), <1>1, <1>2, <1>4, <1>5 DEF UnmapDone
<1>12. AllocPop(p) \/ AllocDone(p) \/ CopyIncrement(p) => Leaves
  BY ZenonT(60), <1>1, <1>2 DEF AllocPop, AllocDone, CopyIncrement, StartUnmap
<1>13. AllocMap(p) \/ MemFree(p) => CopyoutOK(p)' BY ZenonT(60), <1>1, <1>2, <1>4, <1>5 DEF AllocMap, MemFree
<1>14. CopyPage(p) => CopyoutOK(p)' BY ZenonT(60), <1>1, <1>2, <1>4, <1>5 DEF CopyPage, StartUnmap
<1>15. ForkDone(p) => Leaves
  <2>1. ForkDone(p) => pc'[p] \in {"tret", "user"} BY ZenonT(60), <1>0 DEF ForkDone
  <2>. QED BY ZenonT(60), <2>1, <1>2 DEF Leaves
<1>16. \A v, x : UserStore(p, v, x) => Leaves BY ZenonT(60), <1>2, <1>3 DEF UserStore
<1>17. ASSUME NEW v, NEW sp, NEW first, StoreFault(p, v, sp, first) PROVE CopyoutOK(p)'
  <2>1. CASE pc' = [pc EXCEPT ![p] = "cow"] /\ op' = [op EXCEPT ![p] = "fault"]
    BY ZenonT(60), <1>0, <2>1 DEF CopyoutOK
  <2>. QED BY ZenonT(60), <1>1, <1>2, <1>4, <1>5, <1>17, <2>1 DEF StoreFault
<1>18. ASSUME NEW v, NEW x \in KVal, Copyout(p, v, x) PROVE CopyoutOK(p)'
  BY ZenonT(60), <1>0, <1>18 DEF Copyout, CopyoutOK
<1>19. \A v : \A x \in KVal : Read(p, v, x) => CopyoutOK(p)' BY ZenonT(60), <1>1, <1>2, <1>4, <1>18 DEF Read
<1>20. \A c : Kill(p, c) => Leaves BY ZenonT(60), <1>2, <1>3 DEF Kill
<1>21. \A c : Wait(p, c) => CopyoutOK(p)' BY ZenonT(60), <1>1, <1>2, <1>4, <1>18 DEF Wait, StartUnmap
<1>22. (\A n : Sbrk(p, n) => Leaves) /\ (Exec(p) \/ ExecBad(p) \/ Fork(p) => Leaves)
  BY ZenonT(60), <1>1, <1>2 DEF Sbrk, Exec, ExecBad, Fork, StartUnmap
<1>23. CASE KernelStep(p)
  BY ZenonT(60), <1>4, <1>7, <1>8, <1>9, <1>10, <1>11, <1>12, <1>13, <1>14, <1>15, <1>23 DEF KernelStep
<1>24. CASE UserStep(p)
  BY ZenonT(60), <1>4, <1>7, <1>16, <1>17, <1>19, <1>20, <1>21, <1>22, <1>24 DEF UserStep
<1>. QED BY <1>23, <1>24

\* Nothing is in progress at first.
LEMMA InitFills == Init => FillsOK
<1>1. Init => \A p \in Proc : pc[p] \in {"user", "dead"} BY ZenonT(60) DEF Init
<1>. QED BY ZenonT(60), <1>1 DEF FillsOK, FillOK, Filling, CopyoutOK, InCow

\* Every step keeps FillsOK.
LEMMA NextFills == IInv /\ TablesOK /\ FillsOK /\ [Next]_vars => FillsOK'
<1>. SUFFICES ASSUME IInv, TablesOK, FillsOK, [Next]_vars PROVE FillsOK'
  BY ZenonT(60)
<1>1. CASE UNCHANGED vars
  <2>1. UNCHANGED <<map, content, pc, op, ix, peer, val, sz>>
    BY ZenonT(60), <1>1 DEF vars, procVars, tableVars, allocVars, threadVars
  <2>2. ASSUME NEW q \in Proc, FillOK(q) PROVE FillOK(q)'
    BY ZenonT(60), <2>1, <2>2, SameFill
  <2>3. ASSUME NEW q \in Proc, CopyoutOK(q) PROVE CopyoutOK(q)' BY ZenonT(60), <2>1, <2>3 DEF CopyoutOK
  <2>. QED BY ZenonT(60), <2>2, <2>3 DEF FillsOK
<1>2. ASSUME NEW p \in Proc, KernelStep(p) \/ UserStep(p), NEW q \in Proc PROVE FillOK(q)' /\ CopyoutOK(q)'
  <2>1. CASE q = p BY ZenonT(60), <1>2, <2>1, OwnFills, OwnCopyout
  <2>2. CASE q # p BY ZenonT(60), <1>2, <2>2, OtherFills
  <2>. QED BY <2>1, <2>2
<1>. QED BY ZenonT(60), <1>1, <1>2 DEF Next, Halted, FillsOK
-----------------------------------------------------------------------------
(***************************************************************************)
(* What a step does to the memory that the programs see.                   *)
(***************************************************************************)
\* The pages below the size of a live process are there, in the middle of sbrk too.
LEMMA Visible ==
  ASSUME IInv, TablesOK, NEW q \in Proc, state[q] = "LIVE", NEW v \in VA, v < sz[q]
  PROVE  map[Cur(q)][v] # NoFrame
<1>1. ThreadOK(q) /\ TableOK(q) /\ LoopOK(q) /\ ix[q] \in 0 .. NV /\ sz[q] \in 0 .. NV
  BY ZenonT(60) DEF IInv, TypeOK, TablesOK
<1>2. 0 <= v /\ (sz[q] <= ix[q] => v < ix[q]) BY SMTT(60), Z3T(60), SMTT(61), <1>1, ConstantTypes DEF VA
<1>3. CASE ~(pc[q] \in InLoop /\ op[q] \in {"grow", "shrink"}) BY ZenonT(60), <1>1, <1>2, <1>3 DEF TableOK, Holds
<1>4. CASE pc[q] \in InLoop /\ op[q] \in {"grow", "shrink"}
  <2>1. Target(q) = Cur(q) /\ (Filling(q) \/ Giving(q)) /\ (Filling(q) => op[q] = "grow")
    BY ZenonT(60), <1>1, <1>4 DEF ThreadOK, InLoop, Filling, Giving, Target
  <2>2. CASE Filling(q) BY ZenonT(60), <1>1, <1>2, <2>1, <2>2 DEF LoopOK, Holds
  <2>3. CASE Giving(q) BY ZenonT(60), <1>1, <1>4, <2>3 DEF LoopOK
  <2>. QED BY <2>1, <2>2, <2>3
<1>. QED BY <1>3, <1>4

\* A store reaches the page of one process.
LEMMA StoreApart ==
  ASSUME IInv, NEW p \in Proc, NEW q \in Proc, NEW v \in VA, NEW w \in VA,
         map[Cur(p)][w] = map[Cur(q)][v], map[Cur(p)][w] # NoFrame, "W" \in perm[Cur(p)][w]
  PROVE  q = p /\ v = w
<1>1. WritableIsPrivate /\ Cur(p) \in Table /\ Cur(q) \in Table BY ZenonT(60) DEF IInv, Cur, Table
<1>2. Cur(p) = Cur(q) /\ w = v BY SMTT(60), Z3T(60), SMTT(61), <1>1 DEF WritableIsPrivate
<1>. QED BY SMTT(60), Z3T(60), <1>2 DEF Cur

\* A step changes the contents of a visible page by a store of its own process, by exec,
\* or by a copyout after a failed custom_cow.  custom_cow itself changes nothing.
LEMMA ViewKept ==
  ASSUME IInv, TablesOK, NEW p \in Proc, KernelStep(p) \/ UserStep(p),
         NEW q \in Proc, state[q] = "LIVE", NEW v \in VA, v < sz[q]
  PROVE  \/ content'[map'[Cur(q)][v]] = content[map[Cur(q)][v]]
         \/ q = p /\ AllocDone(p) /\ op[p] = "exec"
         \/ q = p /\ \E x \in Val : UserStore(p, v, x)
         \/ CopyoutWrite(p) /\ ("W" \notin perm[Cur(p)][ix[p]] \/ (q = p /\ v = ix[p]))
<1>1. /\ map[Cur(q)][v] # NoFrame /\ pc[p] # "dead" /\ ThreadOK(p) /\ LoopOK(p) /\ TypeOK /\ state[p] = "LIVE"
      /\ Cur(p) \in Table /\ Cur(q) \in Table
      /\ map \in [Table -> [VA -> Frame \cup {NoFrame}]] /\ content \in [Frame -> Content]
  <2>1. map[Cur(q)][v] # NoFrame /\ pc[p] # "dead" BY ZenonT(60), Visible, StepAlive
  <2>2. /\ ThreadOK(p) /\ LoopOK(p) /\ TypeOK /\ Cur(p) \in Table /\ Cur(q) \in Table
        /\ map \in [Table -> [VA -> Frame \cup {NoFrame}]] /\ content \in [Frame -> Content]
    BY ZenonT(60) DEF IInv, TypeOK, TablesOK, Cur, Table
  <2>. QED BY ZenonT(60), <2>1, <2>2 DEF ThreadOK
<1>2. CASE map'[Cur(q)][v] = map[Cur(q)][v]
  <2>1. ASSUME NEW w \in VA, NEW x \in Val, UserStore(p, w, x), map[Cur(p)][w] = map[Cur(q)][v]
        PROVE  q = p /\ UserStore(p, v, x)
    <3>1. "W" \in perm[Cur(p)][w] /\ map[Cur(p)][w] # NoFrame BY SMTT(60), Z3T(60), SMTT(61), <2>1 DEF UserStore, Writable
    <3>2. q = p /\ v = w BY SMTT(60), Z3T(60), SMTT(61), <2>1, <3>1, StoreApart
    <3>. QED BY ZenonT(60), <2>1, <3>2
  <2>2. ASSUME CopyoutWrite(p), map[Cur(p)][ix[p]] = map[Cur(q)][v]
        PROVE  "W" \notin perm[Cur(p)][ix[p]] \/ (q = p /\ v = ix[p])
    <3>1. ix[p] \in VA BY ZenonT(60), <1>1, <2>2 DEF ThreadOK, CopyoutWrite, InCow
    <3>2. "W" \in perm[Cur(p)][ix[p]] => q = p /\ v = ix[p]
      BY SMTT(60), Z3T(60), SMTT(61), <1>1, <2>2, <3>1, StoreApart
    <3>. QED BY ZenonT(60), <3>2
  <2>3. \/ content'[map[Cur(q)][v]] = content[map[Cur(q)][v]]
        \/ \E w \in VA, x \in Val : UserStore(p, w, x) /\ map[Cur(p)][w] = map[Cur(q)][v]
        \/ CopyoutWrite(p) /\ map[Cur(p)][ix[p]] = map[Cur(q)][v]
    BY ZenonT(60), <1>1, <1>2, ContentChange
  <2>. QED BY ZenonT(60), <1>2, <2>1, <2>2, <2>3
<1>3. CASE map'[Cur(q)][v] # map[Cur(q)][v]
  <2>1. q = p
    <3>. SUFFICES ASSUME q # p PROVE FALSE BY ZenonT(60)
    <3>1. ~Works(p, Cur(q)) BY ZenonT(60), <1>1, WorksApart
    <3>2. map'[Cur(q)] = map[Cur(q)] BY ZenonT(60), <1>1, <3>1, Footprint
    <3>. QED BY ZenonT(60), <1>3, <3>2
  <2>2. ASSUME NEW u, NEW i, NEW x, map' = [map EXCEPT ![u][i] = x] PROVE u = Cur(p) /\ v = i /\ map'[Cur(p)][v] = x
    BY SMTT(60), Z3T(60), SMTT(61), <1>1, <1>3, <2>1, <2>2
  <2>3. CASE CowMap(p) /\ map' = [map EXCEPT ![Cur(p)][ix[p]] = hand[p]]
    <3>1. v = ix[p] /\ map'[Cur(p)][v] = hand[p] BY ZenonT(60), <2>2, <2>3
    <3>2. hand[p] \in Frame
      <4>1. pc[p] \in Uncounted BY ZenonT(60), <2>3 DEF CowMap, Uncounted
      <4>. QED BY ZenonT(60), <4>1, HandUnmapped
    <3>3. content' = [content EXCEPT ![hand[p]] = content[map[Cur(p)][ix[p]]]] BY ZenonT(60), <2>3 DEF CowMap
    <3>. QED BY ZenonT(60), <1>1, <2>1, <3>1, <3>2, <3>3
  <2>4. CASE AllocMap(p) /\ map' = [map EXCEPT ![Target(p)][ix[p]] = hand[p]]
    <3>1. Target(p) = Cur(p) /\ v = ix[p] BY ZenonT(60), <2>2, <2>4
    <3>2. Filling(p) /\ op[p] \in {"grow", "exec"} BY ZenonT(60), <1>1, <2>4 DEF AllocMap, Filling, ThreadOK
    <3>3. op[p] = "grow" BY ZenonT(60), <3>1, <3>2 DEF Target, Cur, New
    <3>4. sz[p] <= ix[p] /\ sz[p] \in 0 .. NV BY ZenonT(60), <1>1, <3>2, <3>3 DEF LoopOK, TypeOK
    <3>. QED BY SMTT(60), Z3T(60), SMTT(61), <2>1, <3>1, <3>4, ConstantTypes DEF VA
  <2>5. CASE Unmap(p) /\ map' = [map EXCEPT ![Target(p)][ix[p]] = NoFrame]
    <3>1. Target(p) = Cur(p) /\ v = ix[p] BY ZenonT(60), <2>2, <2>5
    <3>2. Giving(p) /\ pc[p] \in InLoop BY ZenonT(60), <2>5 DEF Unmap, Giving, InLoop
    <3>3. op[p] \in {"grow", "shrink"}
      <4>1. op[p] \in {"fork", "wait"} => peer[p] # p BY ZenonT(60), <1>1, <3>2 DEF ThreadOK, Forking
      <4>2. op[p] \in {"fork", "wait", "grow", "shrink", "exec"} BY ZenonT(60), <1>1, <3>2 DEF ThreadOK, Giving
      <4>. QED BY ZenonT(60), <3>1, <4>1, <4>2 DEF Target, Cur, New
    <3>4. sz[p] <= ix[p] /\ sz[p] \in 0 .. NV BY ZenonT(60), <1>1, <3>2, <3>3 DEF LoopOK, TypeOK
    <3>. QED BY SMTT(60), Z3T(60), <2>1, <3>1, <3>4, ConstantTypes DEF VA
  <2>6. CASE CopyPage(p) /\ map' = [map EXCEPT ![Cur(peer[p])][ix[p]] = map[Cur(p)][ix[p]]]
    <3>1. Cur(peer[p]) = Cur(p) BY ZenonT(60), <2>2, <2>6
    <3>2. state[peer[p]] = "USED" BY ZenonT(60), <1>1, <2>6 DEF ThreadOK, Forking, CopyPage, InLoop
    <3>. QED BY ZenonT(60), <1>1, <3>1, <3>2 DEF Cur
  <2>. QED BY ZenonT(60), <1>3, <2>1, <2>3, <2>4, <2>5, <2>6, MapWriters
<1>. QED BY <1>2, <1>3
\* Only sbrk, exec and exit change the size or the life of their own process.
LEMMA SizeWriters ==
  ASSUME IInv, NEW p \in Proc, KernelStep(p) \/ UserStep(p)
  PROVE  \/ state'[p] = state[p] /\ sz'[p] = sz[p]
         \/ AllocDone(p)
         \/ \E n \in -NV .. NV : n < 0 /\ Sbrk(p, n)
         \/ Exit(p) /\ p # InitProc
<1>. DEFINE Same == state'[p] = state[p] /\ sz'[p] = sz[p]
            Quits == Exit(p) /\ p # InitProc
<1>0. /\ ThreadOK(p) /\ sz \in [Proc -> 0 .. NV] /\ state[p] = "LIVE"
      /\ state \in [Proc -> {"UNUSED", "USED", "LIVE", "ZOMBIE"}]
  BY ZenonT(60), StepAlive DEF IInv, TypeOK, ThreadOK
<1>. USE DEF procVars
<1>1. ASSUME UNCHANGED <<state, sz>> PROVE Same BY <1>1
<1>2. \A why : Panic(why) => Same BY ZenonT(60), <1>1 DEF Panic
<1>. HIDE DEF Same, Quits
<1>3. Exit(p) => Same \/ Quits BY ZenonT(60), <1>2 DEF Exit, Quits
<1>4. TrapReturn(p) \/ UserExit(p) => Same \/ Quits BY ZenonT(60), <1>1, <1>3 DEF TrapReturn, UserExit
<1>5. CowAlloc(p) \/ CowMap(p) \/ CowFree(p) \/ CowPush(p) => Same
  BY ZenonT(60), <1>1, <1>2 DEF CowAlloc, CowMap, CowFree, CowPush
<1>6. CopyoutWrite(p) \/ Unmap(p) \/ FreePush(p) => Same
  BY ZenonT(60), <1>1, <1>2 DEF CopyoutWrite, Unmap, FreePush
<1>7. AllocPop(p) \/ AllocMap(p) \/ MemFree(p) => Same BY ZenonT(60), <1>1, <1>2 DEF AllocPop, AllocMap, MemFree
<1>8. CopyPage(p) \/ CopyIncrement(p) => Same BY ZenonT(60), <1>1, <1>2 DEF CopyPage, CopyIncrement
<1>9. ASSUME NEW c, c # p, NEW s, NEW n, state' = [state EXCEPT ![c] = s], sz' = [sz EXCEPT ![c] = n] \/ UNCHANGED sz
      PROVE  Same
  BY ZenonT(60), <1>0, <1>9 DEF Same
<1>10. CASE ForkDone(p)
  <2>1. pc[p] = "copy" /\ sz' = [sz EXCEPT ![peer[p]] = sz[p]] /\ state' = [state EXCEPT ![peer[p]] = "LIVE"]
    BY ZenonT(60), <1>10 DEF ForkDone
  <2>2. peer[p] # p BY ZenonT(60), <1>0, <2>1 DEF ThreadOK, Forking, InLoop
  <2>. QED BY ZenonT(60), <1>9, <2>1, <2>2 DEF Same
<1>11. CASE UnmapDone(p)
  <2>1. CASE UNCHANGED <<state, sz>> BY <1>1, <2>1 DEF Same
  <2>2. CASE ~UNCHANGED <<state, sz>>
    <3>1. /\ pc[p] = "unmap" /\ op[p] \in {"fork", "wait"}
          /\ sz' = [sz EXCEPT ![peer[p]] = 0] /\ state' = [state EXCEPT ![peer[p]] = "UNUSED"]
      BY ZenonT(60), <1>11, <2>2 DEF UnmapDone, Panic
    <3>2. peer[p] # p BY ZenonT(60), <1>0, <3>1 DEF ThreadOK, Forking, InLoop
    <3>. QED BY ZenonT(60), <1>9, <3>1, <3>2 DEF Same
  <2>. QED BY <2>1, <2>2
<1>12. Fork(p) => Same
  <2>1. Fork(p) => UNCHANGED <<state, sz>>
                   \/ \E c \in Proc : state[c] = "UNUSED" /\ state' = [state EXCEPT ![c] = "USED"] /\ UNCHANGED sz
    BY ZenonT(60) DEF Fork
  <2>. QED BY ZenonT(60), <1>0, <1>1, <1>9, <2>1
<1>13. \A v, x : UserStore(p, v, x) \/ Read(p, v, x) => Same BY ZenonT(60), <1>1 DEF UserStore, Read
<1>14. \A v, sp, first : StoreFault(p, v, sp, first) => Same BY ZenonT(60), <1>1, <1>2 DEF StoreFault
<1>15. (\A q : Kill(p, q) \/ Wait(p, q) => Same) /\ (Exec(p) \/ ExecBad(p) => Same)
  BY ZenonT(60), <1>1 DEF Kill, Wait, Exec, ExecBad
<1>16. \A n : Sbrk(p, n) => Same \/ n < 0 BY ZenonT(60), <1>1 DEF Sbrk
<1>17. CASE KernelStep(p)
  BY ZenonT(60), <1>4, <1>5, <1>6, <1>7, <1>8, <1>10, <1>11, <1>17 DEF KernelStep, Same, Quits
<1>18. CASE UserStep(p)
  BY ZenonT(60), <1>4, <1>12, <1>13, <1>14, <1>15, <1>16, <1>18 DEF UserStep, Same, Quits
<1>. QED BY <1>17, <1>18

\* A view stays as it is when the process keeps its size and its pages their contents.
LEMMA SameView ==
  ASSUME NEW q \in Proc,
         state'[q] = "LIVE" => state[q] = "LIVE" /\ sz'[q] = sz[q],
         state[q] = "LIVE" => state'[q] = "LIVE",
         \A v \in VA : state[q] = "LIVE" /\ v < sz[q] => content'[map'[Cur(q)][v]] = content[map[Cur(q)][v]]
  PROVE  MemView(q)' = MemView(q)
<1>1. CASE state[q] # "LIVE" BY ZenonT(60), <1>1 DEF MemView
<1>2. CASE state[q] = "LIVE"
  <2>1. state'[q] = "LIVE" /\ sz'[q] = sz[q] BY ZenonT(60), <1>2
  <2>2. \A v \in VA : (IF v < sz'[q] THEN content'[map'[Cur(q)][v]] ELSE NoFrame)
                        = (IF v < sz[q] THEN content[map[Cur(q)][v]] ELSE NoFrame)
    BY ZenonT(60), <1>2, <2>1
  <2>. QED BY ZenonT(60), <1>2, <2>1, <2>2 DEF MemView, Cur
<1>. QED BY <1>1, <1>2

\* A step of p changes what another process sees only when it makes that process by
\* fork, or in copyout's store to a page mapped without W.
LEMMA OtherViews ==
  ASSUME IInv, TablesOK, NEW p \in Proc, KernelStep(p) \/ UserStep(p), ~UncheckedCopyout(p),
         NEW q \in Proc, q # p, ~(ForkDone(p) /\ q = peer[p])
  PROVE  MemView(q)' = MemView(q)
<1>1. /\ state'[q] = "LIVE" => state[q] = "LIVE" /\ sz'[q] = sz[q]
      /\ state[q] = "LIVE" => state'[q] = "LIVE"
  <2>1. ThreadOK(q) BY ZenonT(60) DEF IInv
  <2>. QED BY ZenonT(60), <2>1, OthersStay DEF Stays, ThreadOK
<1>2. \A v \in VA : state[q] = "LIVE" /\ v < sz[q] => content'[map'[Cur(q)][v]] = content[map[Cur(q)][v]]
  BY ZenonT(60), ViewKept DEF UncheckedCopyout
<1>. QED BY ZenonT(60), <1>1, <1>2, SameView
\* A store of a process to a page that it has writable changes that page of that process.
LEMMA StoreViews ==
  ASSUME IInv, TablesOK, NEW p \in Proc, pc[p] \in {"user", "write"}, NEW w \in VA, NEW x,
         map[Cur(p)][w] # NoFrame, "W" \in perm[Cur(p)][w],
         content' = [content EXCEPT ![map[Cur(p)][w]] = x], UNCHANGED <<map, state, sz>>
  PROVE  /\ \A q \in Proc : q # p => MemView(q)' = MemView(q)
         /\ MemView(p)' = [MemView(p) EXCEPT ![w] = x] /\ MemView(p)[w] \in Content
<1>1. /\ ThreadOK(p) /\ TableOK(p) /\ Cur(p) \in Table
      /\ map \in [Table -> [VA -> Frame \cup {NoFrame}]] /\ content \in [Frame -> Content]
  BY ZenonT(60) DEF IInv, TypeOK, TablesOK, Cur, Table
<1>2. state[p] = "LIVE" /\ Holds(Cur(p), 0, sz[p])
  BY ZenonT(60), <1>1 DEF ThreadOK, TableOK, InLoop
<1>3. w < sz[p] BY ZenonT(60), <1>2 DEF Holds
<1>4. PICK g \in Frame : g = map[Cur(p)][w] BY SMTT(60), Z3T(60), SMTT(61), <1>1
<1>5. content' = [content EXCEPT ![g] = x] /\ content'[g] = x /\ \A f \in Frame : f # g => content'[f] = content[f]
  BY ZenonT(60), <1>1, <1>4
<1>6. ASSUME NEW q \in Proc, NEW v \in VA, state[q] = "LIVE", v < sz[q], q # p \/ v # w
      PROVE  content'[map'[Cur(q)][v]] = content[map[Cur(q)][v]]
  <2>1. map[Cur(q)][v] # NoFrame BY ZenonT(60), <1>6, Visible
  <2>2. map[Cur(q)][v] # g BY SMTT(60), Z3T(60), SMTT(61), <1>4, <1>6, StoreApart
  <2>3. Cur(q) \in Table BY ZenonT(60) DEF Cur, Table
  <2>4. map[Cur(q)][v] \in Frame BY SMTT(60), Z3T(60), SMTT(61), <1>1, <2>1, <2>3
  <2>. QED BY ZenonT(60), <1>5, <2>2, <2>4
<1>7. ASSUME NEW q \in Proc, q # p PROVE MemView(q)' = MemView(q)
  BY ZenonT(60), <1>6, <1>7, SameView
<1>8. MemView(p)[w] \in Content BY ZenonT(60), <1>1, <1>2, <1>3, <1>4 DEF MemView
<1>9. MemView(p)' = [MemView(p) EXCEPT ![w] = x]
  <2>1. MemView(p)' = [v \in VA |-> IF v < sz[p] THEN content'[map'[Cur(p)][v]] ELSE NoFrame]
    <3>1. state'[p] = "LIVE" /\ sz'[p] = sz[p] BY ZenonT(60), <1>2
    <3>2. \A v \in VA : (IF state'[p] = "LIVE" /\ v < sz'[p] THEN content'[map'[Cur(p)][v]] ELSE NoFrame)
                          = (IF v < sz[p] THEN content'[map'[Cur(p)][v]] ELSE NoFrame)
      BY SMTT(60), Z3T(60), SMTT(61), <3>1
    <3>3. MemView(p)' = [v \in VA |-> IF state'[p] = "LIVE" /\ v < sz'[p] THEN content'[map'[Cur(p)][v]] ELSE NoFrame]
      BY DEF MemView, Cur
    <3>. QED BY ZenonT(60), <3>2, <3>3
  <2>2. [MemView(p) EXCEPT ![w] = x]
          = [v \in VA |-> IF v = w THEN x ELSE IF v < sz[p] THEN content[map[Cur(p)][v]] ELSE NoFrame]
    BY ZenonT(60), <1>2 DEF MemView
  <2>3. ASSUME NEW v \in VA
        PROVE  (IF v < sz[p] THEN content'[map'[Cur(p)][v]] ELSE NoFrame)
                 = (IF v = w THEN x ELSE IF v < sz[p] THEN content[map[Cur(p)][v]] ELSE NoFrame)
    <3>1. CASE v = w BY ZenonT(60), <1>3, <1>4, <1>5, <3>1
    <3>2. CASE v # w BY ZenonT(60), <1>2, <1>6, <3>2
    <3>. QED BY <3>1, <3>2
  <2>. QED BY ZenonT(60), <2>1, <2>2, <2>3
<1>. QED BY <1>7, <1>8, <1>9

\* sbrk that has grown the process: the new pages are zero.
LEMMA GrowView ==
  ASSUME IInv, TablesOK, FillsOK, NEW p \in Proc, AllocDone(p), op[p] # "exec"
  PROVE  MemView(p)' = [v \in VA |-> IF MemView(p)[v] = NoFrame /\ v < lim[p] THEN Zero ELSE MemView(p)[v]]
<1>1. /\ pc[p] = "alloc" /\ ix[p] = lim[p] /\ sz' = [sz EXCEPT ![p] = lim[p]] /\ UNCHANGED <<map, content, state>>
  BY ZenonT(60) DEF AllocDone, tableVars, allocVars
<1>2. /\ ThreadOK(p) /\ LoopOK(p) /\ FillOK(p) /\ Filling(p) /\ sz \in [Proc -> 0 .. NV]
      /\ map \in [Table -> [VA -> Frame \cup {NoFrame}]] /\ content \in [Frame -> Content]
      /\ sz[p] \in 0 .. NV /\ lim[p] \in 0 .. NV /\ Cur(p) \in Table
  BY ZenonT(60), <1>1 DEF IInv, TablesOK, FillsOK, Filling, TypeOK, Cur, Table
<1>3. /\ op[p] = "grow" /\ Target(p) = Cur(p) /\ sz[p] <= lim[p] /\ state[p] = "LIVE" /\ sz'[p] = lim[p]
      /\ state'[p] = "LIVE"
  BY ZenonT(60), <1>1, <1>2 DEF ThreadOK, LoopOK, Target
<1>4. ASSUME NEW v \in VA, sz[p] <= v, v < lim[p] PROVE content[map[Cur(p)][v]] = Zero
  BY ZenonT(60), <1>1, <1>2, <1>3, <1>4 DEF FillOK, AllocBase, NewPage
<1>5. ASSUME NEW v \in VA, v < sz[p] PROVE content[map[Cur(p)][v]] # NoFrame
  <2>1. map[Cur(p)][v] # NoFrame BY ZenonT(60), <1>3, <1>5, Visible
  <2>2. map[Cur(p)][v] \in Frame BY SMTT(60), Z3T(60), SMTT(61), <1>2, <2>1
  <2>. QED BY ZenonT(60), <1>2, <2>2, AbsentAssumption
<1>6. \A v \in VA : MemView(p)[v] = IF v < sz[p] THEN content[map[Cur(p)][v]] ELSE NoFrame
  BY ZenonT(60), <1>3 DEF MemView
<1>7. MemView(p)' = [v \in VA |-> IF v < lim[p] THEN content[map[Cur(p)][v]] ELSE NoFrame]
  BY ZenonT(60), <1>1, <1>3 DEF MemView, Cur
<1>8. ASSUME NEW v \in VA
      PROVE  (IF v < lim[p] THEN content[map[Cur(p)][v]] ELSE NoFrame)
               = IF MemView(p)[v] = NoFrame /\ v < lim[p] THEN Zero ELSE MemView(p)[v]
  <2>1. (sz[p] <= v \/ v < sz[p]) /\ (v < sz[p] => v < lim[p]) /\ (sz[p] <= v => ~(v < sz[p]))
    BY SMTT(60), Z3T(60), SMTT(61), <1>2, <1>3, ConstantTypes DEF VA
  <2>2. CASE v < sz[p] BY ZenonT(60), <1>5, <1>6, <2>1, <2>2
  <2>3. CASE sz[p] <= v BY ZenonT(60), <1>4, <1>6, <2>1, <2>3
  <2>. QED BY <2>1, <2>2, <2>3
<1>. QED BY ZenonT(60), <1>7, <1>8

\* exec that has built its second table: the program and nothing else.
LEMMA ExecView ==
  ASSUME IInv, TablesOK, FillsOK, NEW p \in Proc, AllocDone(p), op[p] = "exec"
  PROVE  MemView(p)' = [v \in VA |-> IF v < Len(Image) THEN Image[v + 1].content ELSE NoFrame]
<1>1. /\ pc[p] = "alloc" /\ ix[p] = lim[p] /\ sz' = [sz EXCEPT ![p] = lim[p]] /\ UNCHANGED <<content, state>>
      /\ map' = [map EXCEPT ![Cur(p)] = map[New(p)], ![New(p)] = map[Cur(p)]]
  BY ZenonT(60) DEF AllocDone, allocVars
<1>2. /\ ThreadOK(p) /\ FillOK(p) /\ Filling(p) /\ sz \in [Proc -> 0 .. NV]
      /\ map \in [Table -> [VA -> Frame \cup {NoFrame}]] /\ Cur(p) \in Table /\ New(p) \in Table
  BY ZenonT(60), <1>1 DEF IInv, FillsOK, Filling, TypeOK, Cur, New, Table
<1>3. /\ Target(p) = New(p) /\ state'[p] = "LIVE" /\ lim[p] = Len(Image) /\ sz'[p] = Len(Image)
  BY ZenonT(60), <1>1, <1>2 DEF ThreadOK, Target
<1>4. map'[Cur(p)] = map[New(p)]
  <2>1. Cur(p) # New(p) BY SMTT(60), Z3T(60) DEF Cur, New
  <2>. QED BY ZenonT(60), <1>1, <1>2, <2>1
<1>5. ASSUME NEW v \in VA, v < Len(Image) PROVE content'[map'[Cur(p)][v]] = Image[v + 1].content
  <2>1. 0 <= v BY SMTT(60), Z3T(60), SMTT(61), ConstantTypes DEF VA
  <2>2. content[map[New(p)][v]] = Image[v + 1].content
    BY ZenonT(60), <1>1, <1>2, <1>3, <1>5, <2>1 DEF FillOK, AllocBase, NewPage
  <2>. QED BY ZenonT(60), <1>1, <1>4, <2>2
<1>6. MemView(p)' = [v \in VA |-> IF v < Len(Image) THEN content'[map'[Cur(p)][v]] ELSE NoFrame]
  BY ZenonT(60), <1>3 DEF MemView, Cur
<1>. QED BY ZenonT(60), <1>5, <1>6
\* sbrk with a negative argument: the pages above the new size are gone.
LEMMA ShrinkView ==
  ASSUME IInv, NEW p \in Proc, NEW n \in -NV .. NV, n < 0, Sbrk(p, n)
  PROVE  /\ sz[p] + n \in 0 .. NV
         /\ MemView(p)' = [v \in VA |-> IF v < sz[p] + n THEN MemView(p)[v] ELSE NoFrame]
<1>1. /\ ThreadOK(p) /\ sz \in [Proc -> 0 .. NV] /\ sz[p] \in 0 .. NV
  BY ZenonT(60) DEF IInv, TypeOK
<1>2. ~(n > 0) BY SMTT(60), Z3T(60)
<1>3. /\ pc[p] = "user" /\ sz[p] + n >= 0 /\ sz[p] + n <= NV /\ sz' = [sz EXCEPT ![p] = sz[p] + n]
      /\ UNCHANGED <<state, map, content>>
  BY ZenonT(60), <1>2 DEF Sbrk, tableVars, allocVars
<1>4. state'[p] = "LIVE" /\ state[p] = "LIVE" /\ sz'[p] = sz[p] + n BY ZenonT(60), <1>1, <1>3 DEF ThreadOK
<1>5. sz[p] + n \in 0 .. NV /\ \A v \in VA : v < sz[p] + n => v < sz[p]
  BY SMTT(60), Z3T(60), SMTT(61), <1>1, <1>3, ConstantTypes DEF VA
<1>6. MemView(p)' = [v \in VA |-> IF v < sz[p] + n THEN content[map[Cur(p)][v]] ELSE NoFrame]
  BY ZenonT(60), <1>3, <1>4 DEF MemView, Cur
<1>7. \A v \in VA : v < sz[p] + n => MemView(p)[v] = content[map[Cur(p)][v]]
  BY ZenonT(60), <1>4, <1>5 DEF MemView
<1>. QED BY ZenonT(60), <1>5, <1>6, <1>7

\* fork that has shared all the pages: the child sees what the parent sees.
LEMMA ForkViews ==
  ASSUME IInv, TablesOK, FillsOK, NEW p \in Proc, ForkDone(p)
  PROVE  /\ peer[p] \in Proc /\ peer[p] # p
         /\ \A c \in Proc : c = peer[p] =>
              MemView(c) = [v \in VA |-> NoFrame] /\ MemView(c)' = MemView(p) /\ MemView(p)' = MemView(p)
<1>1. /\ pc[p] = "copy" /\ ix[p] = lim[p] /\ UNCHANGED <<map, content>>
      /\ sz' = [sz EXCEPT ![peer[p]] = sz[p]] /\ state' = [state EXCEPT ![peer[p]] = "LIVE"]
  BY ZenonT(60) DEF ForkDone, tableVars, allocVars
<1>2. /\ ThreadOK(p) /\ LoopOK(p) /\ FillOK(p) /\ sz \in [Proc -> 0 .. NV]
      /\ state \in [Proc -> {"UNUSED", "USED", "LIVE", "ZOMBIE"}]
  BY ZenonT(60) DEF IInv, TablesOK, FillsOK, TypeOK
<1>3. /\ op[p] = "fork" /\ lim[p] = sz[p] /\ state[p] = "LIVE" /\ Forking(p)
  BY ZenonT(60), <1>1, <1>2 DEF ThreadOK, LoopOK, Forking, InLoop
<1>4. peer[p] \in Proc /\ state[peer[p]] = "USED" /\ peer[p] # p BY ZenonT(60), <1>2, <1>3 DEF ThreadOK
<1>5. ASSUME NEW c \in Proc, c = peer[p]
      PROVE  MemView(c) = [v \in VA |-> NoFrame] /\ MemView(c)' = MemView(p) /\ MemView(p)' = MemView(p)
  <2>1. /\ state[c] = "USED" /\ state'[c] = "LIVE" /\ sz'[c] = sz[p]
        /\ state'[p] = "LIVE" /\ sz'[p] = sz[p]
    BY ZenonT(60), <1>1, <1>2, <1>3, <1>4, <1>5
  <2>2. \A v \in VA : v < sz[p] => map[Cur(c)][v] = map[Cur(p)][v]
    BY ZenonT(60), <1>1, <1>2, <1>3, <1>5 DEF FillOK, Target
  <2>3. MemView(c) = [v \in VA |-> NoFrame] BY ZenonT(60), <2>1 DEF MemView
  <2>4. MemView(c)' = [v \in VA |-> IF v < sz[p] THEN content[map[Cur(c)][v]] ELSE NoFrame]
    BY ZenonT(60), <1>1, <2>1 DEF MemView, Cur
  <2>5. MemView(p) = [v \in VA |-> IF v < sz[p] THEN content[map[Cur(p)][v]] ELSE NoFrame]
    BY ZenonT(60), <1>3 DEF MemView, Cur
  <2>6. MemView(c)' = MemView(p) BY ZenonT(60), <2>2, <2>4, <2>5
  <2>7. MemView(p)' = MemView(p) BY ZenonT(60), <1>1, <1>3, <2>1, SameView
  <2>. QED BY <2>3, <2>6, <2>7
<1>. QED BY ZenonT(60), <1>4, <1>5

\* exit: the memory is out of sight.
LEMMA ExitView ==
  ASSUME IInv, NEW p \in Proc, Exit(p), p # InitProc
  PROVE  MemView(p)' = [v \in VA |-> NoFrame]
<1>1. state' = [state EXCEPT ![p] = "ZOMBIE"] BY ZenonT(60) DEF Exit
<1>2. state'[p] = "ZOMBIE" BY ZenonT(60), <1>1 DEF IInv, TypeOK
<1>. QED BY ZenonT(60), <1>2 DEF MemView
=============================================================================
