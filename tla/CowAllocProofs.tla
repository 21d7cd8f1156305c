-------------------------- MODULE CowAllocProofs --------------------------
(***************************************************************************)
(* IInv of CowMemory is kept by a page that moves between the free list and*)
(* a thread, by the loops of uvmalloc and uvmunmap, by kfree and by        *)
(* custom_cow's change of mapping.                                         *)
(***************************************************************************)
EXTENDS CowMemoryFacts

\* custom_cow returns to usertrap or to copyout without having changed anything.
LEMMA CowFailStep ==
  ASSUME IInv, NEW p \in Proc, pc[p] = "cow",
         NEW e \in {"tret", "write"}, pc' = [pc EXCEPT ![p] = e],
         killed' \in [Proc -> BOOLEAN],
         UNCHANGED <<state, sz, parent, map, perm, content, temp, freelist,
                     op, ix, lim, hand, peer, val, panicked>>
  PROVE  IInv'
<1>1. TypeOK /\ \A q \in Proc : ThreadOK(q)
  BY ZenonT(60) DEF IInv
<1>2. TypeOK' BY ZenonT(60), <1>1 DEF TypeOK, Label
<1>3. ASSUME NEW q \in Proc PROVE ThreadOK(q)'
  <2>1. CASE q = p
    <3>1. ThreadOK(p) /\ pc'[p] = e
      BY ZenonT(60), <1>1 DEF TypeOK
    <3>. QED BY ZenonT(60), <2>1, <3>1 DEF ThreadOK, Forking, InLoop, InCow, Counted, Uncounted, Cur
  <2>2. CASE q # p
    BY ZenonT(60), <1>1, <2>2, Undisturbed DEF TypeOK
  <2>. QED BY ZenonT(60), <2>1, <2>2
<1>4. OneForker'
  BY ZenonT(60), <1>1, SameForkers DEF TypeOK, Forking, InLoop
<1>5. HandsOK' /\ RefCountExact' /\ WritableIsPrivate' /\ NoJunkMapped' /\ NoLeak'
  BY ZenonT(60), <1>1, Quiet DEF TypeOK, Uncounted, Counted
<1>. QED BY <1>2, <1>3, <1>4, <1>5 DEF IInv

\* The sets that the counts are compared with stay the same when no page table
\* changes and no thread enters or leaves a label that counts.
LEMMA SameSets ==
  ASSUME UNCHANGED map,
         \A q \in Proc :
           \/ pc'[q] = pc[q] /\ ix'[q] = ix[q] /\ peer'[q] = peer[q] /\ hand'[q] = hand[q]
           \/ pc[q] \notin Counted \cup {"copyinc"} /\ pc'[q] \notin Counted \cup {"copyinc"}
  PROVE  \A f \in Frame : Mapped(f)' = Mapped(f) /\ Holding(f)' = Holding(f)
<1>. SUFFICES ASSUME NEW f \in Frame
              PROVE  Mapped(f)' = Mapped(f) /\ Holding(f)' = Holding(f)
  BY ZenonT(60)
<1>1. \A q \in Proc : pc[q] = "copyinc" \/ pc'[q] = "copyinc" =>
        pc'[q] = pc[q] /\ ix'[q] = ix[q] /\ peer'[q] = peer[q]
  BY ZenonT(60)
<1>2. Mapped(f)' = Mapped(f)
  BY ZenonT(60), <1>1 DEF Mapped, Cur
<1>3. Holding(f)' = Holding(f)
  BY ZenonT(60) DEF Holding
<1>. QED BY ZenonT(60), <1>2, <1>3

\* The first half of kalloc, in custom_cow and in uvmalloc.
LEMMA PopStep ==
  ASSUME IInv, NEW p \in Proc, NEW f \in freelist,
         NEW e, \/ pc[p] = "cow" /\ e = "cowmap"
                \/ pc[p] = "alloc" /\ ix[p] < lim[p] /\ e = "allocmap",
         pc' = [pc EXCEPT ![p] = e],
         freelist' = freelist \ {f}, hand' = [hand EXCEPT ![p] = f],
         UNCHANGED <<state, sz, parent, killed, map, perm, content, temp,
                     op, ix, lim, peer, val, panicked>>
  PROVE  IInv'
<1>1. /\ TypeOK /\ (\A q \in Proc : ThreadOK(q)) /\ HandsOK
      /\ f \in Frame /\ f # NoFrame /\ temp[f] = 0
  BY ZenonT(60), ConstantTypes DEF IInv, TypeOK, HandsOK
<1>2. \A q \in Proc : hand[q] # f
  BY ZenonT(60), FreeUntouched DEF FreeIsUnreachable
<1>3. TypeOK' BY ZenonT(60), <1>1 DEF TypeOK, Label
<1>4. ASSUME NEW q \in Proc PROVE ThreadOK(q)'
  <2>1. CASE q = p
    BY ZenonT(60), <1>1, <2>1 DEF TypeOK, ThreadOK, Forking, InLoop, InCow, Counted, Uncounted, Cur
  <2>2. CASE q # p
    BY ZenonT(60), <1>1, <2>2, Undisturbed DEF TypeOK
  <2>. QED BY ZenonT(60), <2>1, <2>2
<1>5. OneForker'
  BY ZenonT(60), <1>1, SameForkers DEF TypeOK, Forking, InLoop
<1>6. HandsOK'
  <2>1. \A g \in freelist' : temp'[g] = 0 BY ZenonT(60), <1>1 DEF HandsOK
  <2>2. ASSUME NEW q \in Proc, pc'[q] \in Uncounted
        PROVE  /\ temp'[hand'[q]] = 0 /\ hand'[q] \notin freelist'
               /\ \A r \in Proc : r # q => hand'[r] # hand'[q]
    <3>1. CASE q = p BY ZenonT(60), <1>1, <1>2, <3>1 DEF TypeOK
    <3>2. CASE q # p BY ZenonT(60), <1>1, <1>2, <2>2, <3>2 DEF TypeOK, HandsOK
    <3>. QED BY ZenonT(60), <3>1, <3>2
  <2>. QED BY ZenonT(60), <2>1, <2>2 DEF HandsOK
<1>7. RefCountExact'
  <2>1. \A g \in Frame : Mapped(g)' = Mapped(g) /\ Holding(g)' = Holding(g)
    BY ZenonT(60), <1>1, SameSets DEF TypeOK, Counted
  <2>. QED BY ZenonT(60), <2>1 DEF IInv, RefCountExact
<1>8. WritableIsPrivate' /\ NoJunkMapped'
  BY SMTT(60), Z3T(60) DEF IInv, WritableIsPrivate, NoJunkMapped
<1>9. NoLeak'
  <2>. SUFFICES ASSUME NEW g \in Frame
                PROVE  g \in freelist' \/ temp'[g] > 0 \/ \E q \in Proc : hand'[q] = g
    BY ZenonT(60) DEF NoLeak
  <2>1. CASE g = f BY ZenonT(60), <1>1, <2>1 DEF TypeOK
  <2>2. CASE g # f
    <3>1. hand[p] = NoFrame BY ZenonT(60), <1>1 DEF ThreadOK, Counted, Uncounted
    <3>2. g # NoFrame BY ZenonT(60), ConstantTypes
    <3>. QED BY ZenonT(60), <1>1, <2>2, <3>1, <3>2 DEF IInv, NoLeak, TypeOK
  <2>. QED BY ZenonT(60), <2>1, <2>2
<1>. QED BY ZenonT(60), <1>3, <1>4, <1>5, <1>6, <1>7, <1>8, <1>9 DEF IInv

\* The second half of kfree, in custom_cow and in uvmunmap.
LEMMA PushStep ==
  ASSUME IInv, NEW p \in Proc,
         NEW e, \/ pc[p] = "cowpush" /\ e \in {"tret", "write"}
                \/ pc[p] = "push" /\ e = "unmap",
         pc' = [pc EXCEPT ![p] = e],
         freelist' = freelist \cup {hand[p]}, hand' = [hand EXCEPT ![p] = NoFrame],
         killed' \in [Proc -> BOOLEAN],
         UNCHANGED <<state, sz, parent, map, perm, content, temp,
                     op, ix, lim, peer, val, panicked>>
  PROVE  IInv'
<1>1. /\ TypeOK /\ (\A q \in Proc : ThreadOK(q)) /\ HandsOK
      /\ hand[p] \in Frame /\ temp[hand[p]] = 0 /\ pc[p] \in Uncounted
  BY ZenonT(60) DEF IInv, TypeOK, HandsOK, ThreadOK, Uncounted
<1>2. NoFrame \notin Frame BY ConstantTypes
<1>3. TypeOK' BY ZenonT(60), <1>1 DEF TypeOK, Label
<1>4. ASSUME NEW q \in Proc PROVE ThreadOK(q)'
  <2>1. CASE q = p
    <3>1. ThreadOK(p) /\ pc'[p] = e /\ hand'[p] = NoFrame
      BY ZenonT(60), <1>1 DEF TypeOK
    <3>. QED BY ZenonT(60), <2>1, <3>1 DEF ThreadOK, Forking, InLoop, InCow, Counted, Uncounted, Cur
  <2>2. CASE q # p
    BY ZenonT(60), <1>1, <2>2, Undisturbed DEF TypeOK
  <2>. QED BY ZenonT(60), <2>1, <2>2
<1>5. OneForker'
  BY ZenonT(60), <1>1, SameForkers DEF TypeOK, Forking, InLoop
<1>6. HandsOK'
  <2>1. \A g \in freelist' : temp'[g] = 0 BY ZenonT(60), <1>1 DEF HandsOK
  <2>2. ASSUME NEW q \in Proc, pc'[q] \in Uncounted
        PROVE  /\ temp'[hand'[q]] = 0 /\ hand'[q] \notin freelist'
               /\ \A r \in Proc : r # q => hand'[r] # hand'[q]
    <3>1. q # p /\ pc'[q] = pc[q] /\ hand'[q] = hand[q] /\ hand[q] \in Frame
      BY SMTT(60), Z3T(60), <1>1, <2>2 DEF TypeOK, Uncounted, ThreadOK
    <3>. QED BY ZenonT(60), <1>1, <1>2, <2>2, <3>1 DEF TypeOK, HandsOK
  <2>. QED BY ZenonT(60), <2>1, <2>2 DEF HandsOK
<1>7. RefCountExact'
  <2>1. \A g \in Frame : Mapped(g)' = Mapped(g) /\ Holding(g)' = Holding(g)
    BY ZenonT(60), <1>1, SameSets DEF TypeOK, Counted
  <2>. QED BY ZenonT(60), <2>1 DEF IInv, RefCountExact
<1>8. WritableIsPrivate' /\ NoJunkMapped'
  BY SMTT(60), Z3T(60), SMTT(61) DEF IInv, WritableIsPrivate, NoJunkMapped
<1>9. NoLeak'
  BY ZenonT(60), <1>1 DEF IInv, NoLeak, TypeOK
<1>. QED BY ZenonT(60), <1>3, <1>4, <1>5, <1>6, <1>7, <1>8, <1>9 DEF IInv

\* What uvmalloc puts into a page is initialised, also when exec loads it.
AllocNew(p) == IF op[p] = "exec" THEN Image[ix[p] + 1] ELSE [flags |-> {"W", "U"}, content |-> Zero]

\* What uvmalloc and loadseg put into a new page is not junk.
LEMMA AllocNewOK ==
  ASSUME IInv, NEW p \in Proc, pc[p] = "allocmap"
  PROVE  /\ AllocNew(p).content \in Content /\ AllocNew(p).content # Junk /\ AllocNew(p).flags \in Flags
         /\ ix[p] \in VA /\ ix[p] + 1 \in 0 .. NV /\ ix[p] + 1 <= lim[p]
<1>1. /\ ThreadOK(p) /\ ix[p] \in 0 .. NV /\ lim[p] \in 0 .. NV /\ ix[p] < lim[p]
      /\ NV \in Nat
  BY ZenonT(60), ConstantTypes DEF IInv, TypeOK, ThreadOK
<1>2. ix[p] \in VA /\ ix[p] + 1 \in 0 .. NV /\ ix[p] + 1 <= lim[p]
  BY <1>1 DEF VA
<1>3. CASE op[p] = "exec"
  <2>1. lim[p] = Len(Image) BY <1>1, <1>3 DEF ThreadOK
  <2>2. ix[p] + 1 \in 1 .. Len(Image) BY <1>1, <2>1
  <2>3. AllocNew(p) = Image[ix[p] + 1] BY <1>3 DEF AllocNew
  <2>. QED BY ZenonT(60), <1>2, <2>2, <2>3, ConstantTypes
<1>4. CASE op[p] # "exec"
  <2>1. AllocNew(p) = [flags |-> {"W", "U"}, content |-> Zero] BY <1>4 DEF AllocNew
  <2>. QED BY SMTT(60), Z3T(60), <1>2, <2>1, ConstantTypes DEF Flags
<1>. QED BY ZenonT(60), <1>3, <1>4

\* A fresh page is mapped at the place that the loop of uvmalloc has reached.
LEMMA InstallStep ==
  ASSUME IInv, NEW p \in Proc, AllocMap(p), pc' = [pc EXCEPT ![p] = "alloc"]
  PROVE  IInv'
<1>0. PICK t, v, h, x, fl : /\ t = Target(p) /\ v = ix[p] /\ h = hand[p]
                            /\ x = AllocNew(p).content /\ fl = AllocNew(p).flags
  BY ZenonT(60)
<1>b. /\ pc[p] = "allocmap" /\ map[t][v] = NoFrame
      /\ temp' = [temp EXCEPT ![h] = temp[h] + 1]
      /\ content' = [content EXCEPT ![h] = x]
      /\ map' = [map EXCEPT ![t][v] = h]
      /\ perm' = [perm EXCEPT ![t][v] = fl]
      /\ ix' = [ix EXCEPT ![p] = v + 1]
      /\ hand' = [hand EXCEPT ![p] = NoFrame]
      /\ UNCHANGED <<state, sz, parent, killed, freelist, op, lim, peer, val, panicked>>
  <2>1. ~Panic("mappages: remap") /\ pc' # [pc EXCEPT ![p] = "memfree"]
    BY ZenonT(60) DEF AllocMap, Panic, threadVars, IInv, TypeOK
  <2>. QED BY ZenonT(60), <1>0, <2>1 DEF AllocMap, AllocNew, Increment, Goto, procVars
<1>c. x \in Content /\ x # Junk /\ fl \in Flags
  BY ZenonT(60), <1>0, <1>b, AllocNewOK
<1>. DEFINE s == <<t, v>>
<1>1. /\ TypeOK /\ (\A q \in Proc : ThreadOK(q)) /\ HandsOK /\ pc[p] \in InLoop /\ pc[p] \in Uncounted
  BY ZenonT(60), <1>b DEF IInv, InLoop, Uncounted
<1>2. /\ t \in Table
      /\ \A q \in Proc : q # p /\ pc[q] # "dead" => t # Cur(q) /\ (Forking(q) => t # Cur(peer[q]))
  BY ZenonT(60), <1>0, <1>1, TargetPrivate
<1>3. v \in VA /\ v + 1 \in 0 .. NV /\ h \in Frame /\ h # NoFrame
  <2>1. h # NoFrame BY ZenonT(60), <1>0, <1>1 DEF ThreadOK
  <2>2. h \in Frame BY ZenonT(60), <1>0, <1>1, <2>1 DEF TypeOK
  <2>. QED BY ZenonT(60), <1>0, <1>b, <2>1, <2>2, AllocNewOK
<1>4. temp[h] = 0 /\ h \notin freelist /\ \A q \in Proc \ {p} : hand[q] # h
  BY ZenonT(60), <1>0, <1>1 DEF HandsOK
<1>5. \A u \in Table, w \in VA : map[u][w] # h
  BY ZenonT(60), <1>3, <1>4, ZeroUnused
<1>6. \A q \in Proc \ {p} : /\ pc'[q] = pc[q] /\ op'[q] = op[q] /\ ix'[q] = ix[q] /\ lim'[q] = lim[q]
                            /\ peer'[q] = peer[q] /\ hand'[q] = hand[q]
  BY ZenonT(60), <1>1, <1>b DEF TypeOK
<1>7. pc'[p] = "alloc" /\ hand'[p] = NoFrame /\ temp'[h] = 1 /\ \A g \in Frame \ {h} : temp'[g] = temp[g]
  BY SMTT(60), Z3T(60), SMTT(61), <1>1, <1>3, <1>4, <1>b DEF TypeOK
<1>8. map'[t][v] = h /\ \A u \in Table, w \in VA : u # t \/ w # v => map'[u][w] = map[u][w]
  BY ZenonT(60), <1>1, <1>2, <1>3, <1>b DEF TypeOK
<1>. HIDE DEF s
<1>9. /\ \A g \in Frame \ {h} : Mapped(g)' = Mapped(g)
      /\ Mapped(h)' = Mapped(h) \cup {s} /\ s \notin Mapped(h)
  <2>1. \A q \in Proc : pc[q] = "copyinc" \/ pc'[q] = "copyinc" =>
          pc'[q] = pc[q] /\ ix'[q] = ix[q] /\ peer'[q] = peer[q] /\ t # Cur(peer[q])
    BY SMTT(60), Z3T(60), SMTT(61), <1>1, <1>2, <1>6, <1>7, <1>b DEF ThreadOK, Forking, InLoop
  <2>2. \A g \in Frame : g # NoFrame BY ZenonT(60), ConstantTypes
  <2>3. TypeOK /\ t \in Table /\ v \in VA /\ h \in Frame \cup {NoFrame} /\ NoFrame = map[t][v] /\ h # NoFrame
    BY ZenonT(60), <1>1, <1>2, <1>3, <1>b
  <2>4. /\ \A g \in Frame \ {h, NoFrame} : Mapped(g)' = Mapped(g)
        /\ Mapped(h)' = Mapped(h) \cup {<<t, v>>} /\ <<t, v>> \notin Mapped(h)
    BY SMTT(60), Z3T(60), SMTT(61), <1>8, <2>1, <2>3, SlotSets
  <2>. QED BY ZenonT(60), <2>2, <2>4 DEF s
<1>10. TypeOK'
  <2>1. map' \in [Table -> [VA -> Frame \cup {NoFrame}]] BY ZenonT(60), <1>b, <1>c, <1>1, <1>2, <1>3 DEF TypeOK
  <2>2. perm' \in [Table -> [VA -> Flags]] BY ZenonT(60), <1>b, <1>c, <1>1, <1>2, <1>3 DEF TypeOK
  <2>3. content' \in [Frame -> Content] BY ZenonT(60), <1>b, <1>c, <1>1, <1>3 DEF TypeOK
  <2>4. temp' \in [Frame -> Nat] BY SMTT(60), Z3T(60), SMTT(61), <1>b, <1>c, <1>1, <1>3 DEF TypeOK
  <2>. QED BY ZenonT(60), <1>b, <1>c, <1>1, <1>3, <2>1, <2>2, <2>3, <2>4 DEF TypeOK, Label
<1>11. ThreadOK(p)'
  <2>1. ThreadOK(p) BY ZenonT(60), <1>1
  <2>. QED BY ZenonT(60), <1>7, <1>b, <2>1 DEF ThreadOK, Forking, InLoop, InCow, Counted, Uncounted, Cur
<1>12. \A q \in Proc \ {p} : ThreadOK(q)'
  <2>1. \A u \in Table : u # t => map'[u] = map[u] BY ZenonT(60), <1>1, <1>2, <1>b DEF TypeOK
  <2>2. \A q \in Proc \ {p} : pc[q] # "dead" => t # Cur(q) /\ (Forking(q) => t # Cur(peer[q]))
    BY ZenonT(60), <1>2
  <2>3. UNCHANGED <<state, parent>> BY ZenonT(60), <1>b
  <2>. QED BY SMTT(60), Z3T(60), SMTT(61), <1>6, <2>1, <2>2, <2>3, OthersOK
<1>13. OneForker'
  BY SMTT(60), Z3T(60), SMTT(61), <1>1, <1>6, <1>7, <1>b, SameForkers DEF Forking, InLoop, ThreadOK
<1>14. HandsOK'
  <2>1. \A g \in freelist' : temp'[g] = 0 BY ZenonT(60), <1>1, <1>4, <1>7, <1>b DEF HandsOK, TypeOK
  <2>2. ASSUME NEW q \in Proc, pc'[q] \in Uncounted
        PROVE  /\ temp'[hand'[q]] = 0 /\ hand'[q] \notin freelist'
               /\ \A r \in Proc : r # q => hand'[r] # hand'[q]
    <3>1. q # p /\ pc[q] \in Uncounted /\ hand'[q] = hand[q] BY ZenonT(60), <1>6, <1>7, <2>2 DEF Uncounted
    <3>2. hand[q] \in Frame /\ hand[q] # h /\ temp[hand[q]] = 0 /\ hand[q] # NoFrame
      BY SMTT(60), Z3T(60), SMTT(61), <1>1, <1>4, <3>1 DEF HandsOK, ThreadOK, TypeOK
    <3>. QED BY SMTT(60), Z3T(60), SMTT(61), <1>1, <1>6, <1>7, <1>b, <3>1, <3>2 DEF HandsOK
  <2>. QED BY ZenonT(60), <2>1, <2>2 DEF HandsOK
<1>15. RefCountExact'
  <2>. SUFFICES ASSUME NEW g \in Frame
                PROVE  temp'[g] = Cardinality(Mapped(g)') + Cardinality(Holding(g)')
    BY ZenonT(60) DEF RefCountExact
  <2>1. /\ temp[g] = Cardinality(Mapped(g)) + Cardinality(Holding(g))
        /\ Mapped(g) \in SUBSET (Table \X VA) /\ Holding(g) \in SUBSET Proc
    BY ZenonT(60) DEF IInv, RefCountExact, Mapped, Holding
  <2>2. /\ IsFiniteSet(Mapped(g)) /\ IsFiniteSet(Holding(g))
        /\ Cardinality(Mapped(g)) \in Nat /\ Cardinality(Holding(g)) \in Nat
    BY ZenonT(60), <2>1, SlotsFinite
  <2>3. Holding(g)' = Holding(g)
    BY ZenonT(60), <1>b, <1>6, <1>7 DEF Holding, Counted
  <2>4. CASE g = h
    <3>1. Cardinality(Mapped(g)') = Cardinality(Mapped(g)) + 1
      BY ZenonT(60), <1>9, <2>2, <2>4, CardAdd
    <3>2. temp[g] = 0 /\ temp'[g] = 1 BY ZenonT(60), <1>4, <1>7, <2>4
    <3>3. Cardinality(Holding(g)') = Cardinality(Holding(g)) BY ZenonT(60), <2>3
    <3>4. temp[g] = Cardinality(Mapped(g)) + Cardinality(Holding(g))
          /\ Cardinality(Mapped(g)) \in Nat /\ Cardinality(Holding(g)) \in Nat
      BY ZenonT(60), <2>1, <2>2
    <3>. QED BY SMTT(60), Z3T(60), SMTT(61), <3>1, <3>2, <3>3, <3>4
  <2>5. CASE g # h
    BY ZenonT(60), <1>7, <1>9, <2>1, <2>3, <2>5
  <2>. QED BY ZenonT(60), <2>4, <2>5
<1>16. WritableIsPrivate'
  <2>. SUFFICES ASSUME NEW u1 \in Table, NEW u2 \in Table, NEW w1 \in VA, NEW w2 \in VA,
                       map'[u1][w1] # NoFrame, "W" \in perm'[u1][w1], map'[u2][w2] = map'[u1][w1]
                PROVE  u1 = u2 /\ w1 = w2
    BY SMTT(60), Z3T(60) DEF WritableIsPrivate
  <2>1. CASE (u1 = t /\ w1 = v) \/ (u2 = t /\ w2 = v)
    BY SMTT(60), Z3T(60), SMTT(61), <1>5, <1>8, <2>1
  <2>2. CASE ~(u1 = t /\ w1 = v) /\ ~(u2 = t /\ w2 = v)
    <3>1. perm'[u1][w1] = perm[u1][w1] BY ZenonT(60), <1>1, <1>2, <1>b, <2>2 DEF TypeOK
    <3>2. WritableIsPrivate BY ZenonT(60) DEF IInv
    <3>. QED BY SMTT(60), Z3T(60), SMTT(61), <1>8, <2>2, <3>1, <3>2 DEF WritableIsPrivate
  <2>. QED BY ZenonT(60), <2>1, <2>2
<1>17. NoJunkMapped'
  <2>. SUFFICES ASSUME NEW u \in Table, NEW w \in VA, map'[u][w] # NoFrame
                PROVE  content'[map'[u][w]] # Junk
    BY ZenonT(60) DEF NoJunkMapped
  <2>1. CASE u = t /\ w = v BY ZenonT(60), <1>b, <1>c, <1>1, <1>3, <1>8, <2>1 DEF TypeOK
  <2>2. CASE ~(u = t /\ w = v)
    <3>1. map'[u][w] = map[u][w] /\ map[u][w] # h BY ZenonT(60), <1>5, <1>8, <2>2
    <3>2. map[u][w] \in Frame BY SMTT(60), Z3T(60), <1>1, <3>1 DEF TypeOK
    <3>. QED BY ZenonT(60), <1>b, <1>1, <3>1, <3>2 DEF IInv, NoJunkMapped, TypeOK
  <2>. QED BY ZenonT(60), <2>1, <2>2
<1>18. NoLeak'
  <2>. SUFFICES ASSUME NEW g \in Frame
                PROVE  g \in freelist' \/ temp'[g] > 0 \/ \E q \in Proc : hand'[q] = g
    BY ZenonT(60) DEF NoLeak
  <2>1. CASE g = h BY SMTT(60), Z3T(60), <1>7, <2>1
  <2>2. CASE g # h
    <3>2. g \in freelist \/ temp[g] > 0 \/ \E q \in Proc : hand[q] = g BY ZenonT(60) DEF IInv, NoLeak
    <3>. QED BY ZenonT(60), <1>0, <1>b, <1>6, <1>7, <2>2, <3>2
  <2>. QED BY ZenonT(60), <2>1, <2>2
<1>. QED BY ZenonT(60), <1>10, <1>11, <1>12, <1>13, <1>14, <1>15, <1>16, <1>17, <1>18 DEF IInv

\* mappages fails: the fresh page is counted but not mapped.
LEMMA MapFailedStep ==
  ASSUME IInv, NEW p \in Proc, AllocMap(p), pc' = [pc EXCEPT ![p] = "memfree"]
  PROVE  IInv'
<1>0. PICK h, x : h = hand[p] /\ x = AllocNew(p).content
  BY ZenonT(60)
<1>b. /\ pc[p] = "allocmap"
      /\ temp' = [temp EXCEPT ![h] = temp[h] + 1]
      /\ content' = [content EXCEPT ![h] = x]
      /\ UNCHANGED <<state, sz, parent, killed, map, perm, freelist, op, ix, lim, hand, peer, val, panicked>>
  <2>1. ~Panic("mappages: remap") /\ pc' # [pc EXCEPT ![p] = "alloc"]
    BY ZenonT(60) DEF AllocMap, Panic, threadVars, IInv, TypeOK
  <2>. QED BY ZenonT(60), <1>0, <2>1 DEF AllocMap, AllocNew, Increment, Goto, procVars, tableVars
<1>1. /\ TypeOK /\ (\A q \in Proc : ThreadOK(q)) /\ HandsOK /\ pc[p] \in Uncounted
      /\ x \in Content /\ x # Junk
  BY ZenonT(60), <1>0, <1>b, AllocNewOK DEF IInv, Uncounted
<1>2. h \in Frame /\ temp[h] = 0 /\ h \notin freelist /\ \A q \in Proc \ {p} : hand[q] # h
  <2>1. h # NoFrame BY ZenonT(60), <1>0, <1>1 DEF ThreadOK
  <2>2. h \in Frame BY ZenonT(60), <1>0, <1>1, <2>1 DEF TypeOK
  <2>. QED BY ZenonT(60), <1>0, <1>1, <2>2 DEF HandsOK
<1>3. \A u \in Table, w \in VA : map[u][w] # h
  BY ZenonT(60), <1>2, ZeroUnused
<1>4. /\ pc'[p] = "memfree" /\ \A q \in Proc \ {p} : pc'[q] = pc[q]
      /\ temp'[h] = 1 /\ \A g \in Frame \ {h} : temp'[g] = temp[g]
  BY SMTT(60), Z3T(60), SMTT(61), <1>1, <1>2, <1>b DEF TypeOK
<1>5. TypeOK'
  <2>1. content' \in [Frame -> Content] BY ZenonT(60), <1>b, <1>1, <1>2 DEF TypeOK
  <2>2. temp' \in [Frame -> Nat] BY SMTT(60), Z3T(60), SMTT(61), <1>b, <1>1, <1>2 DEF TypeOK
  <2>. QED BY ZenonT(60), <1>b, <1>1, <2>1, <2>2 DEF TypeOK, Label
<1>6. ASSUME NEW q \in Proc PROVE ThreadOK(q)'
  <2>1. ThreadOK(q) BY ZenonT(60), <1>1
  <2>2. CASE q = p
    BY ZenonT(60), <1>b, <1>4, <2>1, <2>2 DEF ThreadOK, Forking, InLoop, InCow, Counted, Uncounted, Cur
  <2>3. CASE q # p
    BY ZenonT(60), <1>b, <1>4, <2>1, <2>3 DEF ThreadOK, Forking, Cur
  <2>. QED BY ZenonT(60), <2>2, <2>3
<1>7. OneForker'
  BY SMTT(60), Z3T(60), SMTT(61), <1>b, <1>1, <1>4, SameForkers DEF Forking, InLoop, ThreadOK
<1>8. HandsOK'
  <2>1. \A g \in freelist' : temp'[g] = 0 BY ZenonT(60), <1>b, <1>1, <1>2, <1>4 DEF HandsOK, TypeOK
  <2>2. ASSUME NEW q \in Proc, pc'[q] \in Uncounted
        PROVE  /\ temp'[hand'[q]] = 0 /\ hand'[q] \notin freelist'
               /\ \A r \in Proc : r # q => hand'[r] # hand'[q]
    <3>1. q # p /\ pc[q] \in Uncounted BY ZenonT(60), <1>4, <2>2 DEF Uncounted
    <3>2. hand[q] \in Frame /\ hand[q] # h
      BY SMTT(60), Z3T(60), SMTT(61), <1>1, <1>2, <3>1 DEF ThreadOK, TypeOK
    <3>. QED BY ZenonT(60), <1>b, <1>1, <1>4, <3>1, <3>2 DEF HandsOK
  <2>. QED BY ZenonT(60), <2>1, <2>2 DEF HandsOK
<1>9. RefCountExact'
  <2>. SUFFICES ASSUME NEW g \in Frame
                PROVE  temp'[g] = Cardinality(Mapped(g)') + Cardinality(Holding(g)')
    BY ZenonT(60) DEF RefCountExact
  <2>1. /\ temp[g] = Cardinality(Mapped(g)) + Cardinality(Holding(g))
        /\ Mapped(g) \in SUBSET (Table \X VA) /\ Holding(g) \in SUBSET Proc
    BY ZenonT(60) DEF IInv, RefCountExact, Mapped, Holding
  <2>2. /\ IsFiniteSet(Mapped(g)) /\ IsFiniteSet(Holding(g))
        /\ Cardinality(Mapped(g)) \in Nat /\ Cardinality(Holding(g)) \in Nat
    BY ZenonT(60), <2>1, SlotsFinite
  <2>3. Mapped(g)' = Mapped(g)
    <3>1. \A q \in Proc : pc[q] = "copyinc" <=> pc'[q] = "copyinc" BY ZenonT(60), <1>b, <1>4
    <3>. QED BY ZenonT(60), <1>b, <3>1 DEF Mapped, Cur
  <2>4. CASE g = h
    <3>1. p \notin Holding(g) /\ Holding(g)' = Holding(g) \cup {p}
      BY ZenonT(60), <1>0, <1>b, <1>4, <2>4 DEF Holding, Counted
    <3>2. Cardinality(Holding(g)') = Cardinality(Holding(g)) + 1
      BY ZenonT(60), <2>2, <3>1, CardAdd
    <3>3. temp[g] = 0 /\ temp'[g] = 1 BY ZenonT(60), <1>2, <1>4, <2>4
    <3>4. Cardinality(Mapped(g)') = Cardinality(Mapped(g)) BY ZenonT(60), <2>3
    <3>5. temp[g] = Cardinality(Mapped(g)) + Cardinality(Holding(g))
          /\ Cardinality(Mapped(g)) \in Nat /\ Cardinality(Holding(g)) \in Nat
      BY ZenonT(60), <2>1, <2>2
    <3>. QED BY SMTT(60), Z3T(60), SMTT(61), <3>2, <3>3, <3>4, <3>5
  <2>5. CASE g # h
    <3>1. Holding(g)' = Holding(g)
      BY ZenonT(60), <1>0, <1>b, <1>4, <2>5 DEF Holding
    <3>. QED BY ZenonT(60), <1>4, <2>1, <2>3, <2>5, <3>1
  <2>. QED BY <2>4, <2>5
<1>10. WritableIsPrivate'
  <2>1. WritableIsPrivate BY ZenonT(60) DEF IInv
  <2>. QED BY SMTT(60), Z3T(60), SMTT(61), <1>b, <2>1 DEF WritableIsPrivate
<1>11. NoJunkMapped'
  <2>1. NoJunkMapped BY ZenonT(60) DEF IInv
  <2>. QED BY ZenonT(60), <1>b, <1>1, <2>1, CleanStore
<1>12. NoLeak'
  BY SMTT(60), Z3T(60), SMTT(61), <1>b, <1>4 DEF IInv, NoLeak
<1>. QED BY ZenonT(60), <1>5, <1>6, <1>7, <1>8, <1>9, <1>10, <1>11, <1>12 DEF IInv

\* One round of uvmalloc after kalloc.
LEMMA AllocMapStep ==
  ASSUME IInv, NEW p \in Proc, AllocMap(p)
  PROVE  IInv'
<1>1. CASE Panic("mappages: remap")
  BY ZenonT(60), <1>1, PanicStep DEF PanicMsg
<1>2. CASE ~Panic("mappages: remap")
  <2>1. pc' = [pc EXCEPT ![p] = "alloc"] \/ pc' = [pc EXCEPT ![p] = "memfree"]
    BY ZenonT(60), <1>2 DEF AllocMap, Goto
  <2>. QED BY ZenonT(60), <2>1, InstallStep, MapFailedStep
<1>. QED BY ZenonT(60), <1>1, <1>2

\* kalloc in custom_cow.
LEMMA CowAllocStep ==
  ASSUME IInv, NEW p \in Proc, CowAlloc(p)
  PROVE  IInv'
<1>. USE DEF tableVars
<1>1. ASSUME NEW f \in Frame, Pop(p, f), Goto(p, "cowmap"), UNCHANGED killed
      PROVE  IInv'
  BY ZenonT(60), <1>1, PopStep DEF CowAlloc, Pop, Goto
<1>2. ASSUME CowReturn(p, TRUE), UNCHANGED <<freelist, hand>>
      PROVE  IInv'
  <2>1. killed' \in [Proc -> BOOLEAN]
    <3>1. killed' = killed \/ killed' = [killed EXCEPT ![p] = TRUE] BY ZenonT(60), <1>2 DEF CowReturn
    <3>. QED BY ZenonT(60), <3>1 DEF IInv, TypeOK
  <2>2. PICK e \in {"tret", "write"} : pc' = [pc EXCEPT ![p] = e]
    BY ZenonT(60), <1>2 DEF CowReturn, Goto
  <2>. QED BY ZenonT(60), <1>2, <2>1, <2>2, CowFailStep DEF CowAlloc
<1>. QED BY ZenonT(60), <1>1, <1>2 DEF CowAlloc

\* kalloc in uvmalloc.
LEMMA AllocPopStep ==
  ASSUME IInv, NEW p \in Proc, AllocPop(p)
  PROVE  IInv'
<1>. USE DEF procVars, tableVars
<1>1. ASSUME NEW f \in Frame, Pop(p, f), Goto(p, "allocmap"), UNCHANGED <<ix, lim>>
      PROVE  IInv'
  BY ZenonT(60), <1>1, PopStep DEF AllocPop, Pop, Goto
<1>2. ASSUME StartUnmap(p, AllocBase(p), ix[p]), UNCHANGED <<freelist, hand>>
      PROVE  IInv'
  <2>1. pc[p] = "alloc" /\ op[p] \in {"grow", "exec"} /\ op' = [op EXCEPT ![p] = op[p]]
    BY ZenonT(60) DEF AllocPop, IInv, TypeOK, ThreadOK
  <2>2. AllocBase(p) \in 0 .. NV /\ ix[p] \in 0 .. NV /\ sz \in [Proc -> 0 .. NV]
    BY ZenonT(60), ConstantTypes DEF IInv, TypeOK, AllocBase
  <2>3. sz' \in [Proc -> 0 .. NV] BY ZenonT(60), <2>2 DEF AllocPop
  <2>. QED BY ZenonT(60), <1>2, <2>1, <2>2, <2>3, StartLoopStep DEF AllocPop, StartUnmap, Goto
<1>. QED BY ZenonT(60), <1>1, <1>2 DEF AllocPop

\* The second halves of kfree.
LEMMA PushSteps ==
  ASSUME IInv, NEW p \in Proc, CowPush(p) \/ FreePush(p)
  PROVE  IInv'
<1>. USE DEF procVars, tableVars
<1>1. CASE CowPush(p)
  <2>1. killed' \in [Proc -> BOOLEAN]
    <3>1. killed' = killed \/ killed' = [killed EXCEPT ![p] = FALSE] BY ZenonT(60), <1>1 DEF CowPush, CowReturn
    <3>. QED BY ZenonT(60), <3>1 DEF IInv, TypeOK
  <2>2. PICK e \in {"tret", "write"} : pc' = [pc EXCEPT ![p] = e]
    BY ZenonT(60), <1>1 DEF CowPush, CowReturn, Goto
  <2>. QED BY ZenonT(60), <1>1, <2>1, <2>2, PushStep DEF CowPush, Push
<1>2. CASE FreePush(p)
  <2>1. killed' \in [Proc -> BOOLEAN] BY ZenonT(60), <1>2 DEF FreePush, IInv, TypeOK
  <2>. QED BY ZenonT(60), <1>2, <2>1, PushStep DEF FreePush, Push, Goto
<1>. QED BY ZenonT(60), <1>1, <1>2

\* One round of uvmunmap: the entry goes, and with it one reference.
LEMMA UnmapStep ==
  ASSUME IInv, NEW p \in Proc, Unmap(p)
  PROVE  IInv'
<1>1. CASE Panic("uvmunmap: not mapped") \/ Panic("Error")
  BY ZenonT(60), <1>1, PanicStep DEF PanicMsg
<1>2. CASE ~(Panic("uvmunmap: not mapped") \/ Panic("Error"))
  <2>0. PICK t, v, f : t = Target(p) /\ v = ix[p] /\ f = map[t][v]
    BY ZenonT(60)
  <2>1. /\ pc[p] = "unmap" /\ v < lim[p] /\ f # NoFrame /\ temp[f] > 0
        /\ temp' = [temp EXCEPT ![f] = temp[f] - 1]
        /\ content' = IF temp[f] = 1 THEN [content EXCEPT ![f] = Junk] ELSE content
        /\ map' = [map EXCEPT ![t][v] = NoFrame]
        /\ perm' = [perm EXCEPT ![t][v] = {}]
        /\ ix' = [ix EXCEPT ![p] = v + 1]
        /\ UNCHANGED <<state, sz, parent, killed, freelist, op, lim, peer, val, panicked>>
    BY ZenonT(60), <1>2, <2>0 DEF Unmap, Decrement, procVars
  <2>2. /\ TypeOK /\ (\A q \in Proc : ThreadOK(q)) /\ HandsOK /\ pc[p] \in InLoop
    BY ZenonT(60), <2>1 DEF IInv, InLoop
  <2>3. /\ t \in Table
        /\ \A q \in Proc \ {p} : pc[q] # "dead" => t # Cur(q) /\ (Forking(q) => t # Cur(peer[q]))
    BY ZenonT(60), <2>0, <2>2, TargetPrivate
  <2>4. v \in VA /\ v + 1 \in 0 .. NV
    <3>1. v \in 0 .. NV /\ lim[p] \in 0 .. NV BY ZenonT(60), <2>0, <2>2 DEF TypeOK
    <3>2. v < lim[p] BY ZenonT(60), <2>0, <2>1
    <3>3. NV \in Nat BY ZenonT(60), ConstantTypes
    <3>. QED BY SMTT(60), Z3T(60), SMTT(61), <3>1, <3>2, <3>3 DEF VA
  <2>5. f \in Frame /\ temp[f] \in Nat BY SMTT(60), Z3T(60), SMTT(61), <2>0, <2>1, <2>2, <2>3, <2>4 DEF TypeOK
  <2>6. /\ temp[f] > 1 => pc' = pc /\ hand' = hand
        /\ temp[f] = 1 => pc' = [pc EXCEPT ![p] = "push"] /\ hand' = [hand EXCEPT ![p] = f]
    <3>1. IF temp[f] > 1 THEN UNCHANGED <<pc, hand>>
          ELSE pc' = [pc EXCEPT ![p] = "push"] /\ hand' = [hand EXCEPT ![p] = f]
      BY ZenonT(60), <1>2, <2>0 DEF Unmap, Goto
    <3>. QED BY SMTT(60), Z3T(60), <3>1
  <2>7. /\ \A q \in Proc \ {p} : /\ pc'[q] = pc[q] /\ op'[q] = op[q] /\ ix'[q] = ix[q] /\ lim'[q] = lim[q]
                                 /\ peer'[q] = peer[q] /\ hand'[q] = hand[q]
        /\ temp[f] > 1 => pc'[p] = "unmap" /\ hand'[p] = NoFrame
        /\ temp[f] = 1 => pc'[p] = "push" /\ hand'[p] = f
        /\ temp[f] > 1 \/ temp[f] = 1
    <3>1. temp[f] > 1 \/ temp[f] = 1 BY SMTT(60), Z3T(60), <2>1, <2>5
    <3>2. hand[p] = NoFrame BY ZenonT(60), <2>1, <2>2 DEF ThreadOK, Uncounted, Counted
    <3>. QED BY ZenonT(60), <2>1, <2>2, <2>6, <3>1, <3>2 DEF TypeOK
  <2>8. map'[t][v] = NoFrame /\ \A u \in Table, w \in VA : u # t \/ w # v => map'[u][w] = map[u][w]
    BY ZenonT(60), <2>1, <2>2, <2>3, <2>4 DEF TypeOK
  <2>9. /\ \A g \in Frame \ {f} : Mapped(g)' = Mapped(g)
        /\ Mapped(f)' = Mapped(f) \ {<<t, v>>} /\ <<t, v>> \in Mapped(f)
    <3>1. \A q \in Proc : pc[q] = "copyinc" \/ pc'[q] = "copyinc" =>
            pc'[q] = pc[q] /\ ix'[q] = ix[q] /\ peer'[q] = peer[q] /\ t # Cur(peer[q])
      BY SMTT(60), Z3T(60), SMTT(61), <2>1, <2>2, <2>3, <2>7 DEF ThreadOK, Forking, InLoop
    <3>2. \A g \in Frame : g # NoFrame BY ZenonT(60), ConstantTypes
    <3>3. /\ \A g \in Frame \ {NoFrame, f} : Mapped(g)' = Mapped(g)
          /\ Mapped(f)' = Mapped(f) \ {<<t, v>>} /\ <<t, v>> \in Mapped(f)
      <4>1. TypeOK /\ t \in Table /\ v \in VA /\ NoFrame \in Frame \cup {NoFrame} /\ f = map[t][v] /\ NoFrame # f
        BY ZenonT(60), <2>0, <2>1, <2>2, <2>3, <2>4
      <4>. QED BY SMTT(60), Z3T(60), SMTT(61), <2>8, <3>1, <4>1, SlotSets
    <3>. QED BY ZenonT(60), <3>2, <3>3
  <2>10. temp'[f] = temp[f] - 1 /\ \A g \in Frame \ {f} : temp'[g] = temp[g]
    BY ZenonT(60), <2>1, <2>2, <2>5 DEF TypeOK
  <2>11. TypeOK'
    <3>1. map' \in [Table -> [VA -> Frame \cup {NoFrame}]] BY ZenonT(60), <2>1, <2>2, <2>3, <2>4 DEF TypeOK
    <3>2. perm' \in [Table -> [VA -> Flags]]
      <4>1. {} \in Flags BY ZenonT(60) DEF Flags
      <4>. QED BY ZenonT(60), <2>1, <2>2, <2>3, <2>4, <4>1 DEF TypeOK
    <3>3. content' \in [Frame -> Content] BY ZenonT(60), <2>1, <2>2, ConstantTypes DEF TypeOK
    <3>4. temp' \in [Frame -> Nat] BY SMTT(60), Z3T(60), SMTT(61), <2>1, <2>2, <2>5 DEF TypeOK
    <3>5. pc' \in [Proc -> Label] BY ZenonT(60), <2>2, <2>6, <2>7 DEF TypeOK, Label
    <3>6. hand' \in [Proc -> Frame \cup {NoFrame}] BY ZenonT(60), <2>2, <2>5, <2>6, <2>7 DEF TypeOK
    <3>7. ix' \in [Proc -> 0 .. NV] BY ZenonT(60), <2>1, <2>2, <2>4 DEF TypeOK
    <3>. QED BY ZenonT(60), <2>1, <2>2, <3>1, <3>2, <3>3, <3>4, <3>5, <3>6, <3>7 DEF TypeOK
  <2>12. ThreadOK(p)'
    <3>1. ThreadOK(p) BY ZenonT(60), <2>2
    <3>2. pc'[p] \in {"unmap", "push"} /\ (hand'[p] # NoFrame <=> pc'[p] = "push")
      BY ZenonT(60), <2>1, <2>7
    <3>. QED BY ZenonT(60), <2>1, <3>1, <3>2 DEF ThreadOK, Forking, InLoop, InCow, Counted, Uncounted, Cur
  <2>13. \A q \in Proc \ {p} : ThreadOK(q)'
    <3>1. \A u \in Table : u # t => map'[u] = map[u] BY ZenonT(60), <2>1, <2>2, <2>3 DEF TypeOK
    <3>2. UNCHANGED <<state, parent>> BY ZenonT(60), <2>1
    <3>. QED BY SMTT(60), Z3T(60), SMTT(61), <2>3, <2>7, <3>1, <3>2, OthersOK
  <2>14. OneForker'
    <3>1. Forking(p)' => Forking(p) /\ peer'[p] = peer[p]
      BY ZenonT(60), <2>1, <2>2 DEF Forking
    <3>2. \A q \in Proc \ {p} : pc'[q] = pc[q] /\ op'[q] = op[q] /\ peer'[q] = peer[q]
      BY ZenonT(60), <2>7
    <3>. QED BY ZenonT(60), <3>1, <3>2, SameForkers
  <2>15. RefCountExact'
    <3>. SUFFICES ASSUME NEW g \in Frame
                  PROVE  temp'[g] = Cardinality(Mapped(g)') + Cardinality(Holding(g)')
      BY ZenonT(60) DEF RefCountExact
    <3>1. /\ temp[g] = Cardinality(Mapped(g)) + Cardinality(Holding(g))
          /\ Mapped(g) \in SUBSET (Table \X VA) /\ Holding(g) \in SUBSET Proc
      BY ZenonT(60) DEF IInv, RefCountExact, Mapped, Holding
    <3>2. /\ IsFiniteSet(Mapped(g)) /\ IsFiniteSet(Holding(g))
          /\ Cardinality(Mapped(g)) \in Nat /\ Cardinality(Holding(g)) \in Nat
      BY <3>1, SlotsFinite
    <3>3. Holding(g)' = Holding(g)
      BY ZenonT(60), <2>1, <2>7 DEF Holding, Counted
    <3>4. CASE g = f
      <4>1. Cardinality(Mapped(g)') = Cardinality(Mapped(g)) - 1
        BY ZenonT(60), <2>9, <3>2, <3>4, CardRemove
      <4>. QED BY SMTT(60), Z3T(60), SMTT(61), <2>10, <3>1, <3>2, <3>3, <3>4, <4>1
    <3>5. CASE g # f
      BY ZenonT(60), <2>9, <2>10, <3>1, <3>3, <3>5
    <3>. QED BY ZenonT(60), <3>4, <3>5
  <2>16. WritableIsPrivate'
    <3>. SUFFICES ASSUME NEW u1 \in Table, NEW u2 \in Table, NEW w1 \in VA, NEW w2 \in VA,
                         map'[u1][w1] # NoFrame, "W" \in perm'[u1][w1], map'[u2][w2] = map'[u1][w1]
                  PROVE  u1 = u2 /\ w1 = w2
      BY SMTT(60), Z3T(60) DEF WritableIsPrivate
    <3>1. (u1 # t \/ w1 # v) /\ (u2 # t \/ w2 # v) BY ZenonT(60), <2>8
    <3>2. perm'[u1][w1] = perm[u1][w1] BY ZenonT(60), <2>1, <2>2, <2>3, <3>1 DEF TypeOK
    <3>3. WritableIsPrivate BY ZenonT(60) DEF IInv
    <3>. QED BY SMTT(60), Z3T(60), SMTT(61), <2>8, <3>1, <3>2, <3>3 DEF WritableIsPrivate
  <2>17. temp[f] = 1 => /\ \A u \in Table, w \in VA : map[u][w] = f => u = t /\ w = v
                        /\ \A q \in Proc : hand[q] # f
    <3>. SUFFICES ASSUME temp[f] = 1
                  PROVE  /\ \A u \in Table, w \in VA : map[u][w] = f => u = t /\ w = v
                         /\ \A q \in Proc : hand[q] # f
      BY ZenonT(60)
    <3>1. \A q \in Proc : pc[q] = "copyinc" => t # Cur(q) /\ t # Cur(peer[q])
      BY ZenonT(60), <2>1, <2>2, <2>3 DEF ThreadOK, Forking, InLoop
    <3>2. /\ \A u \in Table, w \in VA : map[u][w] = f => u = t /\ w = v
          /\ \A q \in Proc : pc[q] \in Counted => hand[q] # f
      BY SMTT(60), Z3T(60), SMTT(61), <2>0, <2>3, <2>4, <2>5, <3>1, LastMapping
    <3>3. \A q \in Proc : pc[q] \in Uncounted => hand[q] # f
      BY SMTT(60), Z3T(60), SMTT(61), <2>2 DEF HandsOK
    <3>4. \A q \in Proc : pc[q] \notin Uncounted \cup Counted => hand[q] # f
      BY ZenonT(60), <2>1, <2>2 DEF ThreadOK
    <3>. QED BY ZenonT(60), <3>2, <3>3, <3>4
  <2>18. NoJunkMapped'
    <3>. SUFFICES ASSUME NEW u \in Table, NEW w \in VA, map'[u][w] # NoFrame
                  PROVE  content'[map'[u][w]] # Junk
      BY ZenonT(60) DEF NoJunkMapped
    <3>1. (u # t \/ w # v) /\ map'[u][w] = map[u][w] BY ZenonT(60), <2>8
    <3>2. map[u][w] \in Frame /\ content[map[u][w]] # Junk
      <4>1. map \in [Table -> [VA -> Frame \cup {NoFrame}]] BY ZenonT(60), <2>2 DEF TypeOK
      <4>2. NoJunkMapped BY ZenonT(60) DEF IInv
      <4>3. map[u] \in [VA -> Frame \cup {NoFrame}] BY ZenonT(60), <4>1
      <4>4. map[u][w] \in Frame BY ZenonT(60), <3>1, <4>3
      <4>. QED BY ZenonT(60), <3>1, <4>2, <4>4 DEF NoJunkMapped
    <3>3. temp[f] = 1 => map[u][w] # f BY ZenonT(60), <2>17, <3>1
    <3>. QED BY ZenonT(60), <2>1, <2>2, <3>1, <3>2, <3>3 DEF TypeOK
  <2>19. HandsOK'
    <3>1. \A g \in freelist' : temp'[g] = 0
      <4>1. f \notin freelist BY SMTT(60), Z3T(60), SMTT(61), <2>1, <2>2, <2>5 DEF HandsOK
      <4>. QED BY ZenonT(60), <2>1, <2>2, <2>10, <4>1 DEF HandsOK, TypeOK
    <3>2. ASSUME NEW q \in Proc, pc'[q] \in Uncounted
          PROVE  /\ temp'[hand'[q]] = 0 /\ hand'[q] \notin freelist'
                 /\ \A r \in Proc : r # q => hand'[r] # hand'[q]
      <4>1. CASE q = p
        <5>1. temp[f] = 1 BY ZenonT(60), <2>7, <3>2, <4>1 DEF Uncounted
        <5>2. f \notin freelist
          <6>1. \A g \in freelist : temp[g] = 0 BY ZenonT(60), <2>2 DEF HandsOK
          <6>. QED BY SMTT(60), Z3T(60), SMTT(61), <5>1, <6>1
        <5>3. temp'[f] = 0 BY SMTT(60), Z3T(60), SMTT(61), <2>10, <5>1
        <5>4. hand'[p] = f /\ freelist' = freelist BY ZenonT(60), <2>1, <2>7, <3>2, <4>1 DEF Uncounted
        <5>5. \A r \in Proc : r # p => hand'[r] # f BY ZenonT(60), <2>7, <2>17, <5>1
        <5>. QED BY ZenonT(60), <4>1, <5>2, <5>3, <5>4, <5>5
      <4>2. CASE q # p
        <5>1. pc[q] \in Uncounted /\ hand'[q] = hand[q] BY ZenonT(60), <2>7, <3>2, <4>2
        <5>2. hand[q] \in Frame /\ temp[hand[q]] = 0 /\ hand[q] # f /\ hand[q] # NoFrame
          BY SMTT(60), Z3T(60), SMTT(61), <2>1, <2>2, <5>1 DEF HandsOK, ThreadOK, TypeOK
        <5>3. temp'[hand'[q]] = 0 BY ZenonT(60), <2>10, <5>1, <5>2
        <5>4. hand[q] \notin freelist /\ \A r \in Proc : r # q => hand[r] # hand[q]
          BY ZenonT(60), <2>2, <5>1 DEF HandsOK
        <5>5. \A r \in Proc : hand'[r] = hand[r] \/ hand'[r] \in {f, NoFrame} BY ZenonT(60), <2>7
        <5>6. freelist' = freelist BY ZenonT(60), <2>1
        <5>. QED BY ZenonT(60), <5>1, <5>2, <5>3, <5>4, <5>5, <5>6
      <4>. QED BY ZenonT(60), <4>1, <4>2
    <3>. QED BY ZenonT(60), <3>1, <3>2 DEF HandsOK
  <2>20. NoLeak'
    <3>. SUFFICES ASSUME NEW g \in Frame
                  PROVE  g \in freelist' \/ temp'[g] > 0 \/ \E q \in Proc : hand'[q] = g
      BY ZenonT(60) DEF NoLeak
    <3>1. CASE g = f
      <4>1. CASE temp[f] > 1 BY SMTT(60), Z3T(60), SMTT(61), <2>5, <2>10, <3>1, <4>1
      <4>2. CASE temp[f] = 1 BY ZenonT(60), <2>7, <3>1, <4>2
      <4>. QED BY ZenonT(60), <2>7, <4>1, <4>2
    <3>2. CASE g # f
      <4>1. g \in freelist \/ temp[g] > 0 \/ \E q \in Proc : hand[q] = g BY ZenonT(60) DEF IInv, NoLeak
      <4>2. hand[p] = NoFrame /\ g # NoFrame
        BY ZenonT(60), <2>1, <2>2, ConstantTypes DEF ThreadOK, Uncounted, Counted
      <4>. QED BY ZenonT(60), <2>1, <2>7, <2>10, <3>2, <4>1, <4>2
    <3>. QED BY ZenonT(60), <3>1, <3>2
  <2>. QED BY ZenonT(60), <2>11, <2>12, <2>13, <2>14, <2>15, <2>16, <2>18, <2>19, <2>20 DEF IInv
<1>. QED BY ZenonT(60), <1>1, <1>2
-----------------------------------------------------------------------------
\* kfree of a reference that a thread holds: the sets behind the counts.
LEMMA DropHeldSets ==
  ASSUME NEW p \in Proc, NEW f \in Frame, pc[p] \in Counted, hand[p] = f,
         \A q \in Proc \ {p} : pc'[q] = pc[q] /\ ix'[q] = ix[q] /\ peer'[q] = peer[q] /\ hand'[q] = hand[q],
         pc'[p] \notin Counted \cup {"copyinc"}, UNCHANGED map
  PROVE  /\ \A g \in Frame : Mapped(g)' = Mapped(g)
         /\ \A g \in Frame \ {f} : Holding(g)' = Holding(g)
         /\ p \in Holding(f) /\ Holding(f)' = Holding(f) \ {p}
<1>1. \A q \in Proc : pc[q] = "copyinc" \/ pc'[q] = "copyinc" =>
        pc'[q] = pc[q] /\ ix'[q] = ix[q] /\ peer'[q] = peer[q]
  BY DEF Counted
<1>2. \A g \in Frame : Mapped(g)' = Mapped(g)
  BY <1>1 DEF Mapped, Cur
<1>3. \A g \in Frame \ {f} : Holding(g)' = Holding(g)
  BY DEF Holding
<1>4. p \in Holding(f) /\ Holding(f)' = Holding(f) \ {p}
  BY DEF Holding
<1>. QED BY <1>2, <1>3, <1>4

\* Dropping one reference in both the count and the set keeps them equal.
LEMMA DropHeldCount ==
  ASSUME IInv, NEW p \in Proc, NEW f \in Frame,
         \A g \in Frame : Mapped(g)' = Mapped(g),
         \A g \in Frame \ {f} : Holding(g)' = Holding(g),
         p \in Holding(f), Holding(f)' = Holding(f) \ {p},
         temp' = [temp EXCEPT ![f] = temp[f] - 1]
  PROVE  RefCountExact'
<1>. SUFFICES ASSUME NEW g \in Frame
              PROVE  temp'[g] = Cardinality(Mapped(g)') + Cardinality(Holding(g)')
  BY DEF RefCountExact
<1>1. /\ temp \in [Frame -> Nat]
      /\ temp[g] = Cardinality(Mapped(g)) + Cardinality(Holding(g))
  BY DEF IInv, TypeOK, RefCountExact
<1>2. CASE g # f BY <1>1, <1>2
<1>3. CASE g = f
  <2>1. Holding(f) \in SUBSET Proc /\ Mapped(f) \in SUBSET (Table \X VA) BY DEF Holding, Mapped
  <2>2. Cardinality(Holding(f) \ {p}) = Cardinality(Holding(f)) - 1
    BY <2>1, SlotsFinite, CardRemove
  <2>3. Cardinality(Holding(f)) \in Nat /\ Cardinality(Mapped(f)) \in Nat
    BY <2>1, SlotsFinite
  <2>4. temp'[f] = temp[f] - 1 /\ temp[f] = Cardinality(Mapped(f)) + Cardinality(Holding(f))
    BY <1>1, <1>3
  <2>5. Cardinality(Mapped(f)') = Cardinality(Mapped(f))
    OBVIOUS
  <2>6. Cardinality(Holding(f)') = Cardinality(Holding(f)) - 1
    BY <2>2
  <2>7. temp'[f] = Cardinality(Mapped(f)') + Cardinality(Holding(f)')
    BY SMTT(60), Z3T(60), SMTT(61), <2>3, <2>4, <2>5, <2>6
  <2>. QED BY <1>3, <2>7
<1>. QED BY <1>2, <1>3

\* kfree of a held page that others still refer to.
LEMMA DropShared ==
  ASSUME IInv, NEW p \in Proc, NEW f \in Frame, pc[p] \in Counted, hand[p] = f, temp[f] > 1,
         \A q \in Proc \ {p} : pc'[q] = pc[q] /\ ix'[q] = ix[q] /\ peer'[q] = peer[q] /\ hand'[q] = hand[q],
         pc'[p] \notin Uncounted \cup Counted \cup {"copyinc"}, hand'[p] = NoFrame,
         temp' = [temp EXCEPT ![f] = temp[f] - 1], UNCHANGED <<map, perm, content, freelist>>
  PROVE  HandsOK' /\ RefCountExact' /\ WritableIsPrivate' /\ NoJunkMapped' /\ NoLeak'
<1>1. RefCountExact' BY ZenonT(60), DropHeldSets, DropHeldCount
<1>2. WritableIsPrivate' /\ NoJunkMapped'
  <2>1. WritableIsPrivate /\ NoJunkMapped BY ZenonT(60) DEF IInv
  <2>. QED BY SMTT(60), Z3T(60), SMTT(61), <2>1 DEF WritableIsPrivate, NoJunkMapped
<1>3. temp \in [Frame -> Nat] /\ freelist \subseteq Frame /\ HandsOK /\ (\A q \in Proc : ThreadOK(q))
      /\ hand \in [Proc -> Frame \cup {NoFrame}]
  BY DEF IInv, TypeOK
<1>4. HandsOK'
  <2>1. \A g \in freelist' : temp'[g] = 0 BY SMTT(60), Z3T(60), SMTT(61), <1>3 DEF HandsOK
  <2>2. ASSUME NEW q \in Proc, pc'[q] \in Uncounted
        PROVE  /\ temp'[hand'[q]] = 0 /\ hand'[q] \notin freelist'
               /\ \A r \in Proc : r # q => hand'[r] # hand'[q]
    <3>1. q # p /\ pc[q] \in Uncounted /\ hand'[q] = hand[q] BY <2>2
    <3>2. temp[hand[q]] = 0 /\ hand[q] # f BY ZenonT(60), <3>1, <1>3 DEF HandsOK
    <3>3. hand[q] \in Frame BY SMTT(60), Z3T(60), SMTT(61), <3>1, <1>3 DEF ThreadOK
    <3>4. temp'[hand'[q]] = 0 BY ZenonT(60), <3>1, <3>2, <3>3, <1>3
    <3>. QED BY SMTT(60), Z3T(60), SMTT(61), <3>1, <3>3, <3>4, <1>3, ConstantTypes DEF HandsOK
  <2>. QED BY ZenonT(60), <2>1, <2>2 DEF HandsOK
<1>5. NoLeak'
  BY SMTT(60), Z3T(60), SMTT(61), <1>3 DEF IInv, NoLeak
<1>. QED BY ZenonT(60), <1>1, <1>2, <1>4, <1>5

\* kfree of a held page that nobody else refers to.
LEMMA DropLast ==
  ASSUME IInv, NEW p \in Proc, NEW f \in Frame, pc[p] \in Counted, hand[p] = f, temp[f] = 1,
         \A q \in Proc \ {p} : pc'[q] = pc[q] /\ ix'[q] = ix[q] /\ peer'[q] = peer[q] /\ hand'[q] = hand[q],
         pc'[p] \in {"cowpush", "push"}, hand'[p] = f,
         temp' = [temp EXCEPT ![f] = temp[f] - 1], content' = [content EXCEPT ![f] = Junk],
         UNCHANGED <<map, perm, freelist>>
  PROVE  HandsOK' /\ RefCountExact' /\ WritableIsPrivate' /\ NoJunkMapped' /\ NoLeak'
<1>1. RefCountExact'
  <2>1. pc'[p] \notin Counted \cup {"copyinc"} BY DEF Counted
  <2>. QED BY ZenonT(60), <2>1, DropHeldSets, DropHeldCount
<1>2. temp \in [Frame -> Nat] /\ freelist \subseteq Frame /\ HandsOK /\ (\A q \in Proc : ThreadOK(q))
      /\ hand \in [Proc -> Frame \cup {NoFrame}] /\ content \in [Frame -> Content]
      /\ map \in [Table -> [VA -> Frame \cup {NoFrame}]]
  BY DEF IInv, TypeOK
<1>3. /\ \A u \in Table, w \in VA : map[u][w] # f
      /\ \A q \in Proc : pc[q] \in Counted /\ hand[q] = f => q = p
  BY ZenonT(60), LastHolder
<1>4. WritableIsPrivate' /\ NoJunkMapped'
  <2>1. WritableIsPrivate /\ NoJunkMapped BY ZenonT(60) DEF IInv
  <2>. QED BY SMTT(60), Z3T(60), SMTT(61), <1>2, <1>3, <2>1 DEF WritableIsPrivate, NoJunkMapped
<1>5. \A q \in Proc \ {p} : hand[q] # f
  <2>1. ASSUME NEW q \in Proc, q # p, hand[q] = f PROVE FALSE
    <3>1. f # NoFrame BY ZenonT(60), ConstantTypes
    <3>2. pc[q] \in Uncounted \cup Counted BY ZenonT(60), <1>2, <2>1, <3>1 DEF ThreadOK
    <3>3. pc[q] \notin Counted BY ZenonT(60), <1>3, <2>1
    <3>4. pc[q] \notin Uncounted BY SMTT(60), Z3T(60), SMTT(61), <1>2, <2>1 DEF HandsOK
    <3>. QED BY ZenonT(60), <3>2, <3>3, <3>4
  <2>. QED BY ZenonT(60), <2>1
<1>6. HandsOK'
  <2>1. \A g \in freelist' : temp'[g] = 0 BY SMTT(60), Z3T(60), SMTT(61), <1>2 DEF HandsOK
  <2>2. ASSUME NEW q \in Proc, pc'[q] \in Uncounted
        PROVE  /\ temp'[hand'[q]] = 0 /\ hand'[q] \notin freelist'
               /\ \A r \in Proc : r # q => hand'[r] # hand'[q]
    <3>1. CASE q = p
      <4>1. f \notin freelist BY SMTT(60), Z3T(60), SMTT(61), <1>2 DEF HandsOK
      <4>2. temp'[f] = 0 BY SMTT(60), Z3T(60), SMTT(61), <1>2
      <4>3. freelist' = freelist BY ZenonT(60)
      <4>4. \A r \in Proc : r # p => hand'[r] # f BY ZenonT(60), <1>5
      <4>. QED BY ZenonT(60), <3>1, <4>1, <4>2, <4>3, <4>4
    <3>2. CASE q # p
      <4>1. pc[q] \in Uncounted /\ hand'[q] = hand[q] /\ hand[q] # f BY ZenonT(60), <2>2, <3>2, <1>5
      <4>2. hand[q] # NoFrame BY ZenonT(60), <4>1, <1>2 DEF ThreadOK
      <4>3. hand[q] \in Frame BY ZenonT(60), <4>2, <1>2
      <4>4. /\ temp[hand[q]] = 0 /\ hand[q] \notin freelist
            /\ \A r \in Proc : r # q => hand[r] # hand[q]
        BY ZenonT(60), <1>2, <4>1 DEF HandsOK
      <4>5. temp'[hand[q]] = 0 BY ZenonT(60), <1>2, <4>1, <4>3, <4>4
      <4>6. \A r \in Proc : hand'[r] = hand[r] BY ZenonT(60), <1>2
      <4>. QED BY ZenonT(60), <4>1, <4>4, <4>5, <4>6
    <3>. QED BY ZenonT(60), <3>1, <3>2
  <2>. QED BY ZenonT(60), <2>1, <2>2 DEF HandsOK
<1>7. NoLeak'
  BY <1>2 DEF IInv, NoLeak
<1>. QED BY ZenonT(60), <1>1, <1>4, <1>6, <1>7

\* kfree(pa) at the end of custom_cow.
LEMMA CowFreeStep ==
  ASSUME IInv, NEW p \in Proc, CowFree(p)
  PROVE  IInv'
<1>. DEFINE f == hand[p]
<1>1. CASE Panic("Error")
  BY <1>1, PanicStep DEF PanicMsg
<1>2. CASE ~Panic("Error")
  <2>1. /\ TypeOK /\ (\A q \in Proc : ThreadOK(q)) /\ f \in Frame /\ pc[p] = "cowdec"
        /\ pc[p] \in Counted
    <3>1. TypeOK /\ (\A q \in Proc : ThreadOK(q)) /\ pc[p] = "cowdec" BY ZenonT(60) DEF CowFree, IInv
    <3>2. pc[p] \in Counted BY ZenonT(60), <3>1 DEF Counted
    <3>3. f # NoFrame BY ZenonT(60), <3>1, <3>2 DEF ThreadOK
    <3>4. f \in Frame BY ZenonT(60), <3>1, <3>3 DEF TypeOK
    <3>. QED BY ZenonT(60), <3>1, <3>2, <3>4
  <2>2. /\ temp[f] > 0 /\ temp' = [temp EXCEPT ![f] = temp[f] - 1]
        /\ content' = IF temp[f] = 1 THEN [content EXCEPT ![f] = Junk] ELSE content
        /\ UNCHANGED <<state, sz, parent, map, perm, freelist, op, ix, lim, peer, val, panicked>>
    BY ZenonT(60), <1>2 DEF CowFree, Decrement, tableVars
  <2>3. killed' \in [Proc -> BOOLEAN]
    <3>1. killed' = killed \/ killed' = [killed EXCEPT ![p] = FALSE]
      BY <1>2 DEF CowFree, CowReturn
    <3>. QED BY ZenonT(60), <2>1, <3>1 DEF TypeOK
  <2>4. temp' \in [Frame -> Nat]
    BY <2>1, <2>2 DEF TypeOK
  <2>5. content' \in [Frame -> Content]
    BY ZenonT(60), <2>1, <2>2, ConstantTypes DEF TypeOK
  <2>6. CASE temp[f] > 1
    <3>1. PICK e \in {"tret", "write"} : pc' = [pc EXCEPT ![p] = e]
      BY ZenonT(60), <1>2, <2>6 DEF CowFree, CowReturn, Goto
    <3>2. hand' = [hand EXCEPT ![p] = NoFrame] /\ content' = content
      <4>1. hand' = [hand EXCEPT ![p] = NoFrame] BY ZenonT(60), <1>2, <2>6 DEF CowFree
      <4>2. temp[f] # 1 BY <2>6
      <4>. QED BY ZenonT(60), <2>2, <4>1, <4>2
    <3>3. TypeOK' BY <2>1, <2>2, <2>3, <2>4, <3>1, <3>2 DEF TypeOK, Label
    <3>4. ASSUME NEW q \in Proc PROVE ThreadOK(q)'
      <4>1. CASE q = p
        <5>1. ThreadOK(p) /\ pc'[p] = e /\ hand'[p] = NoFrame
          BY ZenonT(60), <2>1, <3>1, <3>2 DEF TypeOK
        <5>. QED BY ZenonT(60), <2>1, <2>2, <3>1, <4>1, <5>1 DEF ThreadOK, Forking, InLoop, InCow, Counted, Uncounted, Cur
      <4>2. CASE q # p
        BY ZenonT(60), <2>1, <2>2, <3>1, <3>2, <4>2, Undisturbed DEF TypeOK
      <4>. QED BY ZenonT(60), <4>1, <4>2
    <3>5. OneForker'
      BY ZenonT(60), <2>1, <2>2, <3>1, SameForkers DEF TypeOK, Forking, InLoop
    <3>6. HandsOK' /\ RefCountExact' /\ WritableIsPrivate' /\ NoJunkMapped' /\ NoLeak'
      <4>1. pc'[p] \notin Uncounted \cup Counted \cup {"copyinc"} /\ hand'[p] = NoFrame
        BY ZenonT(60), <2>1, <3>1, <3>2 DEF TypeOK, Uncounted, Counted
      <4>2. \A q \in Proc \ {p} : pc'[q] = pc[q] /\ ix'[q] = ix[q] /\ peer'[q] = peer[q] /\ hand'[q] = hand[q]
        BY ZenonT(60), <2>1, <2>2, <3>1, <3>2 DEF TypeOK
      <4>. QED BY ZenonT(60), <2>1, <2>2, <2>6, <3>2, <4>1, <4>2, DropShared
    <3>. QED BY ZenonT(60), <3>3, <3>4, <3>5, <3>6 DEF IInv
  <2>7. CASE ~(temp[f] > 1)
    <3>0. temp[f] = 1 BY SMTT(60), Z3T(60), SMTT(61), <2>1, <2>2, <2>7 DEF TypeOK
    <3>1. /\ pc' = [pc EXCEPT ![p] = "cowpush"] /\ hand' = hand
          /\ content' = [content EXCEPT ![f] = Junk]
      BY ZenonT(60), <1>2, <2>2, <2>7, <3>0 DEF CowFree, Goto
    <3>3. TypeOK' BY ZenonT(60), <2>1, <2>2, <2>3, <2>4, <2>5, <3>1 DEF TypeOK, Label
    <3>4. ASSUME NEW q \in Proc PROVE ThreadOK(q)'
      <4>1. CASE q = p
        <5>1. ThreadOK(p) /\ pc'[p] = "cowpush" /\ hand'[p] = hand[p]
          BY ZenonT(60), <2>1, <3>1 DEF TypeOK
        <5>. QED BY ZenonT(60), <2>1, <2>2, <3>1, <4>1, <5>1 DEF ThreadOK, Forking, InLoop, InCow, Counted, Uncounted, Cur
      <4>2. CASE q # p
        BY ZenonT(60), <2>1, <2>2, <3>1, <4>2, Undisturbed DEF TypeOK
      <4>. QED BY ZenonT(60), <4>1, <4>2
    <3>5. OneForker'
      BY ZenonT(60), <2>1, <2>2, <3>1, SameForkers DEF TypeOK, Forking, InLoop
    <3>6. HandsOK' /\ RefCountExact' /\ WritableIsPrivate' /\ NoJunkMapped' /\ NoLeak'
      <4>1. pc'[p] \in {"cowpush", "push"} /\ hand'[p] = f
        BY <2>1, <3>1 DEF TypeOK
      <4>2. \A q \in Proc \ {p} : pc'[q] = pc[q] /\ ix'[q] = ix[q] /\ peer'[q] = peer[q] /\ hand'[q] = hand[q]
        BY ZenonT(60), <2>1, <2>2, <3>1 DEF TypeOK
      <4>. QED BY ZenonT(60), <2>1, <2>2, <3>0, <3>1, <4>1, <4>2, DropLast
    <3>. QED BY ZenonT(60), <3>3, <3>4, <3>5, <3>6 DEF IInv
  <2>. QED BY ZenonT(60), <2>6, <2>7
<1>. QED BY <1>1, <1>2

\* kfree(mem) after mappages failed; uvmdealloc then gives back the rest.
LEMMA MemFreeStep ==
  ASSUME IInv, NEW p \in Proc, MemFree(p)
  PROVE  IInv'
<1>. DEFINE f == hand[p]
<1>1. CASE Panic("Error")
  BY <1>1, PanicStep DEF PanicMsg
<1>2. CASE ~Panic("Error")
  <2>1. /\ TypeOK /\ (\A q \in Proc : ThreadOK(q)) /\ f \in Frame /\ pc[p] = "memfree"
        /\ pc[p] \in Counted /\ op[p] \in {"grow", "exec"}
    <3>1. TypeOK /\ (\A q \in Proc : ThreadOK(q)) /\ pc[p] = "memfree" BY ZenonT(60) DEF MemFree, IInv
    <3>2. pc[p] \in Counted BY ZenonT(60), <3>1 DEF Counted
    <3>3. f # NoFrame /\ op[p] \in {"grow", "exec"} BY ZenonT(60), <3>1, <3>2 DEF ThreadOK
    <3>4. f \in Frame BY ZenonT(60), <3>1, <3>3 DEF TypeOK
    <3>. QED BY ZenonT(60), <3>1, <3>2, <3>3, <3>4
  <2>2. /\ temp[f] > 0 /\ temp' = [temp EXCEPT ![f] = temp[f] - 1]
        /\ content' = IF temp[f] = 1 THEN [content EXCEPT ![f] = Junk] ELSE content
        /\ ix' = [ix EXCEPT ![p] = AllocBase(p)] /\ lim' = [lim EXCEPT ![p] = ix[p]]
        /\ UNCHANGED <<state, sz, parent, killed, map, perm, freelist, op, peer, val, panicked>>
    BY ZenonT(60), <1>2 DEF MemFree, Decrement, procVars, tableVars
  <2>3. AllocBase(p) \in 0 .. NV /\ ix[p] \in 0 .. NV
    BY ZenonT(60), <2>1, ConstantTypes DEF TypeOK, AllocBase
  <2>4. temp' \in [Frame -> Nat]
    BY SMTT(60), Z3T(60), SMTT(61), <2>1, <2>2 DEF TypeOK
  <2>5. content' \in [Frame -> Content]
    BY ZenonT(60), <2>1, <2>2, ConstantTypes DEF TypeOK
  <2>6. CASE temp[f] > 1
    <3>1. pc' = [pc EXCEPT ![p] = "unmap"] /\ hand' = [hand EXCEPT ![p] = NoFrame]
      BY ZenonT(60), <1>2, <2>6 DEF MemFree, Goto
    <3>2. content' = content
      <4>1. temp[f] # 1 BY SMTT(60), Z3T(60), <2>6
      <4>. QED BY ZenonT(60), <2>2, <4>1
    <3>3. TypeOK' BY ZenonT(60), <2>1, <2>2, <2>3, <2>4, <3>1, <3>2 DEF TypeOK, Label
    <3>4. ASSUME NEW q \in Proc PROVE ThreadOK(q)'
      <4>1. CASE q = p
        <5>1. ThreadOK(p) /\ pc'[p] = "unmap" /\ hand'[p] = NoFrame
          BY ZenonT(60), <2>1, <3>1, <3>2 DEF TypeOK
        <5>. QED BY ZenonT(60), <2>1, <2>2, <4>1, <5>1 DEF ThreadOK, Forking, InLoop, InCow, Counted, Uncounted, Cur
      <4>2. CASE q # p
        BY ZenonT(60), <2>1, <2>2, <3>1, <3>2, <4>2, Undisturbed DEF TypeOK
      <4>. QED BY <4>1, <4>2
    <3>5. OneForker'
      BY ZenonT(60), <2>1, <2>2, <3>1, SameForkers DEF TypeOK, Forking, InLoop
    <3>6. HandsOK' /\ RefCountExact' /\ WritableIsPrivate' /\ NoJunkMapped' /\ NoLeak'
      <4>1. pc'[p] \notin Uncounted \cup Counted \cup {"copyinc"} /\ hand'[p] = NoFrame
        BY <2>1, <3>1 DEF TypeOK, Uncounted, Counted
      <4>2. \A q \in Proc \ {p} : pc'[q] = pc[q] /\ ix'[q] = ix[q] /\ peer'[q] = peer[q] /\ hand'[q] = hand[q]
        BY ZenonT(60), <2>1, <2>2, <3>1 DEF TypeOK
      <4>. QED BY ZenonT(60), <2>1, <2>2, <2>6, <3>2, <4>1, <4>2, DropShared
    <3>. QED BY <3>3, <3>4, <3>5, <3>6 DEF IInv
  <2>7. CASE ~(temp[f] > 1)
    <3>0. temp[f] = 1 BY SMTT(60), Z3T(60), SMTT(61), <2>1, <2>2, <2>7 DEF TypeOK
    <3>1. /\ pc' = [pc EXCEPT ![p] = "push"] /\ hand' = hand
          /\ content' = [content EXCEPT ![f] = Junk]
      BY ZenonT(60), <1>2, <2>2, <2>7, <3>0 DEF MemFree, Goto
    <3>3. TypeOK' BY ZenonT(60), <2>1, <2>2, <2>3, <2>4, <2>5, <3>1 DEF TypeOK, Label
    <3>4. ASSUME NEW q \in Proc PROVE ThreadOK(q)'
      <4>1. CASE q = p
        <5>1. ThreadOK(p) /\ pc'[p] = "push" /\ hand'[p] = hand[p]
          BY ZenonT(60), <2>1, <3>1 DEF TypeOK
        <5>. QED BY ZenonT(60), <2>1, <2>2, <4>1, <5>1 DEF ThreadOK, Forking, InLoop, InCow, Counted, Uncounted, Cur
      <4>2. CASE q # p
        BY ZenonT(60), <2>1, <2>2, <3>1, <4>2, Undisturbed DEF TypeOK
      <4>. QED BY <4>1, <4>2
    <3>5. OneForker'
      BY ZenonT(60), <2>1, <2>2, <3>1, SameForkers DEF TypeOK, Forking, InLoop
    <3>6. HandsOK' /\ RefCountExact' /\ WritableIsPrivate' /\ NoJunkMapped' /\ NoLeak'
      <4>1. pc'[p] \in {"cowpush", "push"} /\ hand'[p] = f
        BY ZenonT(60), <2>1, <3>1 DEF TypeOK
      <4>2. \A q \in Proc \ {p} : pc'[q] = pc[q] /\ ix'[q] = ix[q] /\ peer'[q] = peer[q] /\ hand'[q] = hand[q]
        BY ZenonT(60), <2>1, <2>2, <3>1 DEF TypeOK
      <4>. QED BY ZenonT(60), <2>1, <2>2, <3>0, <3>1, <4>1, <4>2, DropLast
    <3>. QED BY <3>3, <3>4, <3>5, <3>6 DEF IInv
  <2>. QED BY <2>6, <2>7
<1>. QED BY <1>1, <1>2
-----------------------------------------------------------------------------
\* custom_cow installs the private copy and still owns the old reference.
LEMMA CowMapStep ==
  ASSUME IInv, NEW p \in Proc, CowMap(p)
  PROVE  IInv'
<1>. DEFINE t == Cur(p)
<1>0. PICK v, h, pa : v = ix[p] /\ h = hand[p] /\ pa = map[t][v]
  BY ZenonT(60)
<1>. DEFINE s == <<t, v>>
<1>1. /\ pc[p] = "cowmap"
      /\ temp' = [temp EXCEPT ![h] = temp[h] + 1]
      /\ content' = [content EXCEPT ![h] = content[pa]]
      /\ map' = [map EXCEPT ![t][v] = h]
      /\ perm' = [perm EXCEPT ![t][v] = (@ \ {"COW"}) \cup {"W"}]
      /\ hand' = [hand EXCEPT ![p] = pa]
      /\ pc' = [pc EXCEPT ![p] = "cowdec"]
      /\ UNCHANGED <<state, sz, parent, killed, freelist, op, ix, lim, peer, val, panicked>>
  BY ZenonT(60), <1>0 DEF CowMap, Increment, Goto, procVars
<1>2. /\ TypeOK /\ (\A q \in Proc : ThreadOK(q)) /\ HandsOK
      /\ t \in Table /\ v \in VA /\ h \in Frame /\ pa \in Frame /\ temp[h] = 0 /\ h \notin freelist
      /\ \A q \in Proc \ {p} : hand[q] # h
  <2>1. TypeOK /\ (\A q \in Proc : ThreadOK(q)) /\ HandsOK BY ZenonT(60) DEF IInv
  <2>2. v \in VA /\ pa # NoFrame /\ h # NoFrame
    BY ZenonT(60), <1>0, <1>1, <2>1 DEF ThreadOK, InCow, Uncounted
  <2>3. t \in Table BY ZenonT(60) DEF Cur, Table
  <2>4. h \in Frame /\ pa \in Frame BY SMTT(60), Z3T(60), SMTT(61), <1>0, <2>1, <2>2, <2>3 DEF TypeOK
  <2>5. pc[p] \in Uncounted BY ZenonT(60), <1>1 DEF Uncounted
  <2>. QED BY ZenonT(60), <1>0, <2>1, <2>2, <2>3, <2>4, <2>5 DEF HandsOK
<1>3. \A u \in Table, w \in VA : map[u][w] # h
  BY ZenonT(60), <1>2, ZeroUnused
<1>4. temp[pa] > 0 /\ h # pa
  BY SMTT(60), Z3T(60), SMTT(61), <1>0, <1>2, <1>3, ZeroUnused DEF TypeOK
<1>5. content[pa] \in Content /\ content[pa] # Junk
  BY ZenonT(60), <1>0, <1>2, ConstantTypes DEF IInv, NoJunkMapped, TypeOK
<1>6. \A q \in Proc \ {p} : /\ pc'[q] = pc[q] /\ op'[q] = op[q] /\ ix'[q] = ix[q] /\ lim'[q] = lim[q]
                            /\ peer'[q] = peer[q] /\ hand'[q] = hand[q]
  BY ZenonT(60), <1>1, <1>2 DEF TypeOK
<1>7. pc'[p] = "cowdec" /\ hand'[p] = pa /\ v = ix'[p]
  BY ZenonT(60), <1>0, <1>1, <1>2 DEF TypeOK
<1>. HIDE DEF t, s
<1>8. /\ \A g \in Frame \ {h, pa} : Mapped(g)' = Mapped(g)
      /\ Mapped(h)' = Mapped(h) \cup {s} /\ s \notin Mapped(h)
      /\ Mapped(pa)' = Mapped(pa) \ {s} /\ s \in Mapped(pa)
      /\ map'[t][v] = h
      /\ \A u \in Table, w \in VA : <<u, w>> # s => map'[u][w] = map[u][w]
  <2>1. \A q \in Proc : pc[q] = "copyinc" \/ pc'[q] = "copyinc" =>
          pc'[q] = pc[q] /\ ix'[q] = ix[q] /\ peer'[q] = peer[q] /\ t # Cur(peer[q])
    BY ZenonT(60), <1>1, <1>6, <1>7, OwnTable DEF t
  <2>2. /\ TypeOK /\ t \in Table /\ v \in VA /\ h \in Frame \cup {NoFrame}
        /\ pa = map[t][v] /\ h # pa
    BY ZenonT(60), <1>0, <1>2, <1>4
  <2>3. map'[t][v] = h /\ \A u \in Table, w \in VA : u # t \/ w # v => map'[u][w] = map[u][w]
    BY ZenonT(60), <1>1, <1>2 DEF TypeOK
  <2>. QED BY SMTT(60), Z3T(60), SMTT(61), <2>1, <2>2, <2>3, SlotSets DEF s
<1>9. TypeOK'
  <2>1. map' \in [Table -> [VA -> Frame \cup {NoFrame}]] BY ZenonT(60), <1>1, <1>2 DEF TypeOK
  <2>2. perm' \in [Table -> [VA -> Flags]]
    <3>1. (perm[t][v] \ {"COW"}) \cup {"W"} \in Flags BY SMTT(60), Z3T(60), SMTT(61), <1>2 DEF TypeOK, Flags
    <3>. QED BY ZenonT(60), <1>1, <1>2, <3>1 DEF TypeOK
  <2>3. content' \in [Frame -> Content] BY ZenonT(60), <1>1, <1>2, <1>5 DEF TypeOK
  <2>4. temp' \in [Frame -> Nat] BY SMTT(60), Z3T(60), SMTT(61), <1>1, <1>2 DEF TypeOK
  <2>. QED BY ZenonT(60), <1>1, <1>2, <2>1, <2>2, <2>3, <2>4 DEF TypeOK, Label
<1>10. ThreadOK(p)'
  <2>1. ThreadOK(p) /\ pa # NoFrame /\ h # NoFrame BY ZenonT(60), <1>2, ConstantTypes
  <2>2. map'[Cur(p)][ix'[p]] = h BY ZenonT(60), <1>7, <1>8 DEF t
  <2>. QED BY ZenonT(60), <1>1, <1>7, <2>1, <2>2 DEF ThreadOK, Forking, InLoop, InCow, Counted, Uncounted, Cur
<1>11. \A q \in Proc \ {p} : ThreadOK(q)'
  <2>1. \A u \in Table : u # t => map'[u] = map[u] BY <1>1, <1>2 DEF TypeOK
  <2>2. \A q \in Proc \ {p} : pc[q] # "dead" => t # Cur(q) /\ (Forking(q) => t # Cur(peer[q]))
    BY ZenonT(60), <1>1, <1>2 DEF ThreadOK, Forking, t, Cur
  <2>3. UNCHANGED <<state, parent>> BY <1>1
  <2>. QED BY ZenonT(60), <1>6, <2>1, <2>2, <2>3, OthersOK
<1>12. OneForker'
  BY <1>1, <1>6, <1>7, SameForkers DEF Forking, InLoop
<1>13. HandsOK'
  <2>1. \A g \in freelist' : temp'[g] = 0 BY ZenonT(60), <1>1, <1>2 DEF HandsOK, TypeOK
  <2>2. ASSUME NEW q \in Proc, pc'[q] \in Uncounted
        PROVE  /\ temp'[hand'[q]] = 0 /\ hand'[q] \notin freelist'
               /\ \A r \in Proc : r # q => hand'[r] # hand'[q]
    <3>1. q # p /\ pc[q] \in Uncounted /\ hand'[q] = hand[q] BY ZenonT(60), <1>6, <1>7, <2>2 DEF Uncounted
    <3>2. hand[q] \in Frame /\ hand[q] # h /\ temp[hand[q]] = 0 /\ hand[q] # pa
      BY SMTT(60), Z3T(60), SMTT(61), <1>2, <1>4, <3>1 DEF HandsOK, ThreadOK, TypeOK
    <3>3. temp'[hand'[q]] = 0 BY ZenonT(60), <1>1, <1>2, <3>1, <3>2 DEF TypeOK
    <3>4. hand[q] \notin freelist /\ \A r \in Proc : r # q => hand[r] # hand[q]
      BY ZenonT(60), <1>2, <3>1 DEF HandsOK
    <3>5. freelist' = freelist BY ZenonT(60), <1>1
    <3>6. hand'[p] = pa BY ZenonT(60), <1>7
    <3>. QED BY ZenonT(60), <1>6, <3>1, <3>2, <3>3, <3>4, <3>5, <3>6
  <2>. QED BY ZenonT(60), <2>1, <2>2 DEF HandsOK
<1>14. RefCountExact'
  <2>. SUFFICES ASSUME NEW g \in Frame
                PROVE  temp'[g] = Cardinality(Mapped(g)') + Cardinality(Holding(g)')
    BY ZenonT(60) DEF RefCountExact
  <2>1. /\ temp[g] = Cardinality(Mapped(g)) + Cardinality(Holding(g))
        /\ Mapped(g) \in SUBSET (Table \X VA) /\ Holding(g) \in SUBSET Proc
        /\ temp \in [Frame -> Nat]
    BY DEF IInv, TypeOK, RefCountExact, Mapped, Holding
  <2>2. /\ IsFiniteSet(Mapped(g)) /\ IsFiniteSet(Holding(g))
        /\ Cardinality(Mapped(g)) \in Nat /\ Cardinality(Holding(g)) \in Nat
    BY ZenonT(60), <2>1, SlotsFinite
  <2>3. g # pa => Holding(g)' = Holding(g)
    BY ZenonT(60), <1>1, <1>6, <1>7 DEF Holding, Counted
  <2>4. CASE g = h
    <3>1. Cardinality(Mapped(g)') = Cardinality(Mapped(g)) + 1
      BY ZenonT(60), <1>8, <2>2, <2>4, CardAdd
    <3>2. temp'[g] = temp[g] + 1 BY ZenonT(60), <1>1, <2>1, <2>4
    <3>3. Cardinality(Holding(g)') = Cardinality(Holding(g)) BY ZenonT(60), <1>4, <2>3, <2>4
    <3>4. temp[g] = Cardinality(Mapped(g)) + Cardinality(Holding(g))
          /\ Cardinality(Mapped(g)) \in Nat /\ Cardinality(Holding(g)) \in Nat
      BY ZenonT(60), <2>1, <2>2
    <3>. QED BY SMTT(60), Z3T(60), SMTT(61), <3>1, <3>2, <3>3, <3>4
  <2>5. CASE g = pa
    <3>1. Cardinality(Mapped(g)') = Cardinality(Mapped(g)) - 1
      BY ZenonT(60), <1>8, <2>2, <2>5, CardRemove
    <3>2. p \notin Holding(g) /\ Holding(g)' = Holding(g) \cup {p}
      BY ZenonT(60), <1>1, <1>6, <1>7, <2>5 DEF Holding, Counted
    <3>3. Cardinality(Holding(g)') = Cardinality(Holding(g)) + 1
      BY ZenonT(60), <2>2, <3>2, CardAdd
    <3>4. temp'[g] = temp[g] BY ZenonT(60), <1>1, <1>4, <2>1, <2>5
    <3>5. temp[g] = Cardinality(Mapped(g)) + Cardinality(Holding(g))
          /\ Cardinality(Mapped(g)) \in Nat /\ Cardinality(Holding(g)) \in Nat
      BY ZenonT(60), <2>1, <2>2
    <3>. QED BY SMTT(60), Z3T(60), SMTT(61), <3>1, <3>3, <3>4, <3>5
  <2>6. CASE g # h /\ g # pa
    BY ZenonT(60), <1>1, <1>8, <2>1, <2>3, <2>6
  <2>. QED BY ZenonT(60), <2>4, <2>5, <2>6
<1>15. WritableIsPrivate'
  <2>. SUFFICES ASSUME NEW u1 \in Table, NEW u2 \in Table, NEW w1 \in VA, NEW w2 \in VA,
                       map'[u1][w1] # NoFrame, "W" \in perm'[u1][w1], map'[u2][w2] = map'[u1][w1]
                PROVE  u1 = u2 /\ w1 = w2
    BY SMTT(60), Z3T(60) DEF WritableIsPrivate
  <2>1. CASE <<u1, w1>> = s \/ <<u2, w2>> = s
    BY SMTT(60), Z3T(60), SMTT(61), <1>3, <1>8, <2>1 DEF s
  <2>2. CASE <<u1, w1>> # s /\ <<u2, w2>> # s
    <3>1. perm'[u1][w1] = perm[u1][w1] BY ZenonT(60), <1>1, <1>2, <2>2 DEF TypeOK, s
    <3>2. WritableIsPrivate BY ZenonT(60) DEF IInv
    <3>. QED BY SMTT(60), Z3T(60), SMTT(61), <1>8, <2>2, <3>1, <3>2 DEF WritableIsPrivate
  <2>. QED BY ZenonT(60), <2>1, <2>2
<1>16. NoJunkMapped'
  <2>. SUFFICES ASSUME NEW u \in Table, NEW w \in VA, map'[u][w] # NoFrame
                PROVE  content'[map'[u][w]] # Junk
    BY ZenonT(60) DEF NoJunkMapped
  <2>1. CASE <<u, w>> = s
    <3>1. map'[u][w] = h BY ZenonT(60), <1>8, <2>1 DEF s
    <3>2. content'[h] # Junk BY ZenonT(60), <1>1, <1>2, <1>5 DEF TypeOK
    <3>. QED BY ZenonT(60), <3>1, <3>2
  <2>2. CASE <<u, w>> # s
    <3>1. map'[u][w] = map[u][w] /\ map[u][w] # h BY ZenonT(60), <1>3, <1>8, <2>2
    <3>2. map[u][w] \in Frame BY SMTT(60), Z3T(60), SMTT(61), <1>2, <3>1 DEF TypeOK
    <3>. QED BY ZenonT(60), <1>1, <1>2, <3>1, <3>2 DEF IInv, NoJunkMapped, TypeOK
  <2>. QED BY ZenonT(60), <2>1, <2>2
<1>17. NoLeak'
  <2>. SUFFICES ASSUME NEW g \in Frame
                PROVE  g \in freelist' \/ temp'[g] > 0 \/ \E q \in Proc : hand'[q] = g
    BY ZenonT(60) DEF NoLeak
  <2>1. CASE g = h BY SMTT(60), Z3T(60), SMTT(61), <1>1, <1>2, <2>1 DEF TypeOK
  <2>2. CASE g # h
    <3>1. temp'[g] = temp[g] BY ZenonT(60), <1>1, <1>2, <2>2 DEF TypeOK
    <3>2. g \in freelist \/ temp[g] > 0 \/ \E q \in Proc : hand[q] = g BY DEF IInv, NoLeak
    <3>. QED BY ZenonT(60), <1>0, <1>1, <1>6, <2>2, <3>1, <3>2
  <2>. QED BY ZenonT(60), <2>1, <2>2
<1>. QED BY ZenonT(60), <1>9, <1>10, <1>11, <1>12, <1>13, <1>14, <1>15, <1>16, <1>17 DEF IInv
=============================================================================
