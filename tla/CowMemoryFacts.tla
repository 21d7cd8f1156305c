-------------------------- MODULE CowMemoryFacts --------------------------
(***************************************************************************)
(* Facts about CowMemory for any number of processes, frames and pages:    *)
(* counting, what leaves the page tables alone, and the short actions.     *)
(***************************************************************************)
EXTENDS CowMemory, FiniteSetTheorems, TLAPS

\* Sets of page table entries and of processes are finite, so the reference
\* counts can be compared with cardinalities.
LEMMA SlotsFinite ==
  /\ \A S \in SUBSET (Table \X VA) : IsFiniteSet(S) /\ Cardinality(S) \in Nat
  /\ \A S \in SUBSET Proc : IsFiniteSet(S) /\ Cardinality(S) \in Nat
<1>1. IsFiniteSet(VA)
  BY FS_Interval, ConstantsAssumption DEF VA
<1>2. IsFiniteSet({"cur", "new"})
  <2>1. IsFiniteSet({"cur"}) BY FS_Singleton
  <2>2. {"cur", "new"} = {"cur"} \cup {"new"} OBVIOUS
  <2>. QED BY <2>1, <2>2, FS_AddElement
<1>3. IsFiniteSet(Table)
  BY <1>2, FS_Product, ConstantsAssumption DEF Table
<1>4. IsFiniteSet(Table \X VA)
  BY <1>1, <1>3, FS_Product
<1>. QED BY <1>4, FS_Subset, FS_CardinalityType, ConstantsAssumption

\* Constants have the types that the variables need.
LEMMA ConstantTypes ==
  /\ NV \in Nat /\ 0 \in 0 .. NV /\ Len(Image) \in 0 .. NV
  /\ Zero \in Content /\ Junk \in Content /\ InitCode \in Content
  /\ Val \subseteq Content /\ KVal \subseteq Content
  /\ \A i \in 1 .. Len(Image) :
       Image[i].content \in Content /\ Image[i].content # Junk /\ Image[i].flags \in Flags
  /\ Zero # Junk /\ InitCode # Junk /\ Junk \notin Val \cup KVal
  /\ NoProc \notin Proc /\ NoFrame \notin Frame
BY ConstantsAssumption DEF Content, Zero, Junk, InitCode, NoProc

\* How one element changes a cardinality.
LEMMA CardAdd ==
  ASSUME NEW S, IsFiniteSet(S), NEW x, x \notin S
  PROVE  Cardinality(S \cup {x}) = Cardinality(S) + 1
BY FS_AddElement

\* Dropping one reference takes one from the count.
LEMMA CardRemove ==
  ASSUME NEW S, IsFiniteSet(S), NEW x \in S
  PROVE  /\ Cardinality(S \ {x}) = Cardinality(S) - 1
         /\ Cardinality(S) >= 1
<1>1. IsFiniteSet(S \ {x}) /\ Cardinality(S \ {x}) = Cardinality(S) - 1
  BY FS_RemoveElement
<1>2. Cardinality(S) \in Nat /\ Cardinality(S \ {x}) \in Nat
  BY <1>1, FS_CardinalityType
<1>. QED BY <1>1, <1>2

\* A count of zero means that there is no reference.
LEMMA CardZero ==
  ASSUME NEW S, IsFiniteSet(S), Cardinality(S) = 0
  PROVE  S = {}
BY FS_EmptySet
-----------------------------------------------------------------------------
\* The page table entry of the parent that uvmcopy is counting is counted.
LEMMA ParentCounted ==
  ASSUME IInv, NEW p \in Proc, pc[p] = "copyinc"
  PROVE  /\ ix[p] \in VA /\ peer[p] \in Proc /\ Cur(p) # Cur(peer[p])
         /\ <<Cur(p), ix[p]>> \in Mapped(map[Cur(p)][ix[p]])
<1>1. /\ ThreadOK(p) /\ ix[p] \in 0 .. NV /\ lim[p] \in 0 .. NV
      /\ \A q \in Proc : ThreadOK(q)
  BY ZenonT(60) DEF IInv, TypeOK
<1>2. ix[p] \in VA
  BY SMTT(60), Z3T(60), <1>1, ConstantsAssumption DEF ThreadOK, VA
<1>3. peer[p] \in Proc /\ state[peer[p]] = "USED" /\ state[p] = "LIVE"
  BY <1>1 DEF ThreadOK, Forking, InLoop
<1>4. ASSUME NEW q \in Proc, pc[q] = "copyinc", <<Cur(p), ix[p]>> = <<Cur(peer[q]), ix[q]>>
      PROVE  FALSE
  <2>1. peer[q] = p BY ZenonT(60), <1>4 DEF Cur
  <2>2. state[peer[q]] = "USED" BY <1>1, <1>4 DEF ThreadOK, Forking, InLoop
  <2>. QED BY <2>1, <2>2, <1>3
<1>5. <<Cur(p), ix[p]>> \in Table \X VA
  BY <1>2 DEF Cur, Table
<1>. QED BY <1>2, <1>3, <1>4, <1>5 DEF Mapped, Cur

\* A page with count 0 is in no page table and in no thread's books.
LEMMA ZeroUnused ==
  ASSUME IInv, NEW f \in Frame, temp[f] = 0
  PROVE  /\ \A t \in Table, v \in VA : map[t][v] # f
         /\ \A p \in Proc : pc[p] \in Counted => hand[p] # f
<1>1. Mapped(f) \in SUBSET (Table \X VA) /\ Holding(f) \in SUBSET Proc
  BY DEF Mapped, Holding
<1>2. Cardinality(Mapped(f)) = 0 /\ Cardinality(Holding(f)) = 0
  BY <1>1, SlotsFinite DEF IInv, RefCountExact
<1>3. Mapped(f) = {} /\ Holding(f) = {}
  BY <1>1, <1>2, SlotsFinite, CardZero
<1>4. ASSUME NEW t \in Table, NEW v \in VA, map[t][v] = f PROVE FALSE
  <2>1. PICK p \in Proc : pc[p] = "copyinc" /\ <<t, v>> = <<Cur(peer[p]), ix[p]>>
    BY ZenonT(60), <1>3, <1>4 DEF Mapped
  <2>2. map[Cur(p)][ix[p]] = f
    BY <2>1, <1>4 DEF IInv, ThreadOK
  <2>. QED BY ZenonT(60), <2>1, <2>2, <1>3, ParentCounted
<1>. QED BY <1>3, <1>4 DEF Holding

\* When kfree drops the count of a page to 0 it drops the last reference: here
\* a page table entry of a table that uvmcopy is not reading.
LEMMA LastMapping ==
  ASSUME IInv, NEW f \in Frame, temp[f] = 1,
         NEW t \in Table, NEW v \in VA, map[t][v] = f,
         \A q \in Proc : pc[q] = "copyinc" => t # Cur(q) /\ t # Cur(peer[q])
  PROVE  /\ \A u \in Table, w \in VA : map[u][w] = f => u = t /\ w = v
         /\ \A p \in Proc : pc[p] \in Counted => hand[p] # f
<1>1. Mapped(f) \in SUBSET (Table \X VA) /\ Holding(f) \in SUBSET Proc
  BY DEF Mapped, Holding
<1>2. <<t, v>> \in Mapped(f)
  BY DEF Mapped
<1>3. /\ Cardinality(Mapped(f) \ {<<t, v>>}) = Cardinality(Mapped(f)) - 1
      /\ Cardinality(Mapped(f)) >= 1
  BY ZenonT(60), <1>1, <1>2, SlotsFinite, CardRemove
<1>4. Cardinality(Mapped(f) \ {<<t, v>>}) = 0 /\ Cardinality(Holding(f)) = 0
  BY <1>1, <1>3, SlotsFinite DEF IInv, RefCountExact
<1>5. Mapped(f) \ {<<t, v>>} = {} /\ Holding(f) = {}
  <2>1. Mapped(f) \ {<<t, v>>} \in SUBSET (Table \X VA) BY ZenonT(60), <1>1
  <2>. QED BY <2>1, <1>1, <1>4, SlotsFinite, CardZero
<1>6. ASSUME NEW u \in Table, NEW w \in VA, map[u][w] = f, <<u, w>> # <<t, v>> PROVE FALSE
  <2>1. PICK p \in Proc : pc[p] = "copyinc" /\ <<u, w>> = <<Cur(peer[p]), ix[p]>>
    BY ZenonT(60), <1>5, <1>6 DEF Mapped
  <2>2. map[Cur(p)][ix[p]] = f
    BY <2>1, <1>6 DEF IInv, ThreadOK
  <2>3. <<Cur(p), ix[p]>> = <<t, v>>
    BY ZenonT(60), <2>1, <2>2, <1>5, ParentCounted
  <2>. QED BY ZenonT(60), <2>1, <2>3
<1>. QED BY <1>5, <1>6 DEF Holding

\* The same for a reference that a kernel thread holds.
LEMMA LastHolder ==
  ASSUME IInv, NEW f \in Frame, temp[f] = 1,
         NEW p \in Proc, pc[p] \in Counted, hand[p] = f
  PROVE  /\ \A u \in Table, w \in VA : map[u][w] # f
         /\ \A q \in Proc : pc[q] \in Counted /\ hand[q] = f => q = p
<1>1. Mapped(f) \in SUBSET (Table \X VA) /\ Holding(f) \in SUBSET Proc
  BY DEF Mapped, Holding
<1>2. p \in Holding(f)
  BY ZenonT(60) DEF Holding
<1>3. /\ Cardinality(Holding(f) \ {p}) = Cardinality(Holding(f)) - 1
      /\ Cardinality(Holding(f)) >= 1
  BY ZenonT(60), <1>1, <1>2, SlotsFinite, CardRemove
<1>4. Cardinality(Holding(f) \ {p}) = 0 /\ Cardinality(Mapped(f)) = 0
  BY SMTT(60), Z3T(60), <1>1, <1>3, SlotsFinite DEF IInv, RefCountExact
<1>5. Holding(f) \ {p} = {} /\ Mapped(f) = {}
  <2>1. Holding(f) \ {p} \in SUBSET Proc BY ZenonT(60), <1>1
  <2>. QED BY ZenonT(60), <2>1, <1>1, <1>4, SlotsFinite, CardZero
<1>6. ASSUME NEW u \in Table, NEW w \in VA, map[u][w] = f PROVE FALSE
  <2>1. PICK q \in Proc : pc[q] = "copyinc" /\ <<u, w>> = <<Cur(peer[q]), ix[q]>>
    BY ZenonT(60), <1>5, <1>6 DEF Mapped
  <2>2. map[Cur(q)][ix[q]] = f
    BY <2>1, <1>6 DEF IInv, ThreadOK
  <2>. QED BY ZenonT(60), <2>1, <2>2, <1>5, ParentCounted
<1>. QED BY <1>5, <1>6 DEF Holding
-----------------------------------------------------------------------------
\* A step that leaves memory, counts and hands alone, and moves no thread into
\* or out of a label at which these are read, keeps the counting invariants.
LEMMA Quiet ==
  ASSUME IInv,
         UNCHANGED <<map, perm, content, temp, freelist, hand>>,
         \A q \in Proc :
           \/ pc'[q] = pc[q] /\ ix'[q] = ix[q] /\ peer'[q] = peer[q]
           \/ /\ pc[q] \notin Uncounted \cup Counted \cup {"copyinc"}
              /\ pc'[q] \notin Uncounted \cup Counted \cup {"copyinc"}
  PROVE  HandsOK' /\ RefCountExact' /\ WritableIsPrivate' /\ NoJunkMapped' /\ NoLeak'
<1>1. HandsOK'
  BY ZenonT(60) DEF IInv, HandsOK, Uncounted, Counted
<1>2. RefCountExact'
  <2>. SUFFICES ASSUME NEW f \in Frame
                PROVE  Mapped(f)' = Mapped(f) /\ Holding(f)' = Holding(f)
    BY ZenonT(60) DEF IInv, RefCountExact
  <2>1. \A q \in Proc : pc[q] = "copyinc" \/ pc'[q] = "copyinc" =>
          pc'[q] = pc[q] /\ ix'[q] = ix[q] /\ peer'[q] = peer[q]
    BY ZenonT(60)
  <2>2. Mapped(f)' = Mapped(f)
    BY ZenonT(60), <2>1 DEF Mapped, Cur
  <2>3. Holding(f)' = Holding(f)
    BY ZenonT(60) DEF Holding, Counted, Uncounted
  <2>. QED BY ZenonT(60), <2>2, <2>3
<1>3. WritableIsPrivate' /\ NoJunkMapped' /\ NoLeak'
  BY DEF IInv, WritableIsPrivate, NoJunkMapped, NoLeak
<1>. QED BY ZenonT(60), <1>1, <1>2, <1>3
-----------------------------------------------------------------------------
\* panic() changes nothing but the flag.
LEMMA PanicStep ==
  ASSUME IInv, NEW why \in PanicMsg, Panic(why)
  PROVE  IInv'
<1>. USE DEF Panic, procVars, tableVars, allocVars, threadVars
<1>1. TypeOK' BY ZenonT(60) DEF IInv, TypeOK
<1>2. \A q \in Proc : ThreadOK(q)' BY ZenonT(60) DEF IInv, ThreadOK, Forking
<1>3. OneForker' BY ZenonT(60) DEF IInv, OneForker, Forking
<1>4. HandsOK' /\ RefCountExact' /\ WritableIsPrivate' /\ NoJunkMapped' /\ NoLeak'
  BY Quiet
<1>. QED BY ZenonT(60), <1>1, <1>2, <1>3, <1>4 DEF IInv

\* A thread in user mode or returning to it can forget its locals.
LEMMA ForgetTypes ==
  ASSUME TypeOK, NEW p \in Proc, Forget(p)
  PROVE  /\ op' \in [Proc -> {"none", "fault", "read", "wait", "fork", "grow", "shrink", "exec"}]
         /\ ix' \in [Proc -> 0 .. NV] /\ lim' \in [Proc -> 0 .. NV]
         /\ peer' \in [Proc -> Proc \cup {NoProc}] /\ val' \in [Proc -> KVal \cup {Zero}]
         /\ \A q \in Proc \ {p} : /\ op'[q] = op[q] /\ ix'[q] = ix[q] /\ lim'[q] = lim[q]
                                  /\ peer'[q] = peer[q] /\ val'[q] = val[q]
BY ZenonT(60), ConstantTypes DEF TypeOK, Forget

\* exit() keeps the memory and hands the children to init.
LEMMA ExitStep ==
  ASSUME IInv, NEW p \in Proc, pc[p] \in {"user", "tret"}, Exit(p)
  PROVE  IInv'
<1>1. CASE p = InitProc
  BY ZenonT(60), <1>1, PanicStep DEF Exit, PanicMsg
<1>2. CASE p # InitProc
  <2>1. /\ state' = [state EXCEPT ![p] = "ZOMBIE"]
        /\ parent' = [q \in Proc |-> IF parent[q] = p THEN InitProc ELSE parent[q]]
        /\ pc' = [pc EXCEPT ![p] = "dead"]
        /\ Forget(p)
        /\ UNCHANGED <<sz, killed, map, perm, content, temp, freelist, hand, panicked>>
    BY ZenonT(60), <1>2 DEF Exit, Goto, tableVars, allocVars
  <2>2. TypeOK' BY ZenonT(60), <2>1, ForgetTypes, ConstantsAssumption DEF IInv, TypeOK, Label
  <2>3. ASSUME NEW q \in Proc PROVE ThreadOK(q)'
    <3>1. ThreadOK(p) /\ ThreadOK(q) /\ TypeOK BY DEF IInv
    <3>2. CASE q = p
      BY ZenonT(60), <2>1, <3>1, <3>2 DEF TypeOK, ThreadOK, Forking, InLoop, InCow, Counted, Uncounted
    <3>3. CASE q # p
      <4>1. /\ pc'[q] = pc[q] /\ op'[q] = op[q] /\ ix'[q] = ix[q] /\ lim'[q] = lim[q]
            /\ peer'[q] = peer[q] /\ state'[q] = state[q]
        BY ZenonT(60), <2>1, <3>1, <3>3, ForgetTypes DEF TypeOK
      <4>2. state[p] = "LIVE" BY ZenonT(60), <3>1 DEF ThreadOK
      <4>3. \A r \in Proc : state[r] # "LIVE" => state'[r] = state[r]
        BY ZenonT(60), <2>1, <4>2, <3>1 DEF TypeOK
      <4>4. \A r \in Proc : parent[r] = q => parent'[r] = q
        BY ZenonT(60), <2>1, <3>3
      <4>. QED BY SMTT(60), Z3T(60), <2>1, <3>1, <4>1, <4>3, <4>4 DEF ThreadOK, Forking, Cur
    <3>. QED BY <3>2, <3>3
  <2>4. OneForker' BY SMTT(60), Z3T(60), SMTT(61), <2>1, ForgetTypes DEF IInv, TypeOK, OneForker, Forking, InLoop
  <2>5. HandsOK' /\ RefCountExact' /\ WritableIsPrivate' /\ NoJunkMapped' /\ NoLeak'
    BY SMTT(60), Z3T(60), <2>1, ForgetTypes, Quiet DEF IInv, TypeOK, Uncounted, Counted
  <2>. QED BY ZenonT(60), <2>2, <2>3, <2>4, <2>5 DEF IInv
<1>. QED BY ZenonT(60), <1>1, <1>2

\* The end of usertrap: exit() of a killed process, or the return to user mode.
LEMMA TrapReturnStep ==
  ASSUME IInv, NEW p \in Proc, TrapReturn(p)
  PROVE  IInv'
<1>1. CASE killed[p] /\ Exit(p)
  BY <1>1, ExitStep DEF TrapReturn
<1>2. CASE ~(killed[p] /\ Exit(p))
  <2>1. /\ pc[p] = "tret" /\ pc' = [pc EXCEPT ![p] = "user"]
        /\ Forget(p)
        /\ UNCHANGED <<state, sz, parent, killed, map, perm, content, temp, freelist, hand, panicked>>
    BY ZenonT(60), <1>2 DEF TrapReturn, Goto, procVars, tableVars, allocVars
  <2>2. TypeOK' BY <2>1, ForgetTypes DEF IInv, TypeOK, Label
  <2>3. ASSUME NEW q \in Proc PROVE ThreadOK(q)'
    <3>1. ThreadOK(q) /\ TypeOK BY ZenonT(60) DEF IInv
    <3>2. CASE q = p
      BY ZenonT(60), <2>1, <3>1, <3>2 DEF TypeOK, ThreadOK, Forking, InLoop, InCow, Counted, Uncounted
    <3>3. CASE q # p
      <4>1. /\ pc'[q] = pc[q] /\ op'[q] = op[q] /\ ix'[q] = ix[q] /\ lim'[q] = lim[q]
            /\ peer'[q] = peer[q]
        BY ZenonT(60), <2>1, <3>1, <3>3, ForgetTypes DEF TypeOK
      <4>. QED BY ZenonT(60), <2>1, <3>1, <4>1 DEF ThreadOK, Forking, Cur
    <3>. QED BY <3>2, <3>3
  <2>4. OneForker' BY SMTT(60), Z3T(60), <2>1, ForgetTypes DEF IInv, TypeOK, OneForker, Forking, InLoop
  <2>5. HandsOK' /\ RefCountExact' /\ WritableIsPrivate' /\ NoJunkMapped' /\ NoLeak'
    BY SMTT(60), Z3T(60), <2>1, ForgetTypes, Quiet DEF IInv, TypeOK, Uncounted, Counted
  <2>. QED BY ZenonT(60), <2>2, <2>3, <2>4, <2>5 DEF IInv
<1>. QED BY ZenonT(60), <1>1, <1>2

\* p is creating its child peer[p] in fork, or freeing it in fork or wait.
Parenting(p) == Forking(p) \/ (pc[p] \in InLoop \cup InCow /\ op[p] = "wait")

\* A thread is not disturbed by a step that keeps its locals, its page table,
\* and the slot and page table of the child it is creating or freeing.
LEMMA Undisturbed ==
  ASSUME NEW q \in Proc, ThreadOK(q),
         pc'[q] = pc[q], op'[q] = op[q], ix'[q] = ix[q], lim'[q] = lim[q],
         peer'[q] = peer[q], hand'[q] = hand[q], state'[q] = state[q],
         pc[q] \in InCow \cup {"copyinc"} => map'[Cur(q)] = map[Cur(q)],
         \A r \in Proc : state[r] \in {"USED", "ZOMBIE"} /\ r = peer[q] /\ Parenting(q)
                           => state'[r] = state[r] /\ (parent[r] = q => parent'[r] = q),
         pc[q] = "copyinc" => map'[Cur(peer[q])] = map[Cur(peer[q])]
  PROVE  ThreadOK(q)'
BY ZenonT(60) DEF ThreadOK, Forking, Cur, InLoop, Parenting

\* Only one thread works on a table: nobody else runs on it, reads it for a
\* fork, fills it or frees it.
LEMMA TargetPrivate ==
  ASSUME IInv, NEW p \in Proc, pc[p] \in InLoop
  PROVE  /\ Target(p) \in Table
         /\ \A q \in Proc : q # p /\ pc[q] # "dead" =>
              Target(p) # Cur(q) /\ (Forking(q) => Target(p) # Cur(peer[q]))
<1>1. ThreadOK(p) /\ \A q \in Proc : ThreadOK(q)
  BY ZenonT(60) DEF IInv
<1>2. state[p] = "LIVE"
  BY <1>1 DEF ThreadOK, InLoop
<1>3. CASE op[p] = "fork"
  <2>1. Target(p) = Cur(peer[p]) /\ peer[p] \in Proc /\ state[peer[p]] = "USED" /\ Forking(p)
    BY ZenonT(60), <1>1, <1>3 DEF Target, ThreadOK, Forking
  <2>2. ASSUME NEW q \in Proc, q # p, pc[q] # "dead"
        PROVE  peer[p] # q /\ (Forking(q) => peer[p] # peer[q])
    <3>1. state[q] = "LIVE" BY ZenonT(60), <1>1, <2>2 DEF ThreadOK
    <3>2. Forking(q) => peer[p] # peer[q] BY <2>1, <2>2 DEF IInv, OneForker
    <3>. QED BY ZenonT(60), <2>1, <3>1, <3>2
  <2>. QED BY SMTT(60), Z3T(60), <2>1, <2>2 DEF Cur, Table
<1>4. CASE op[p] = "wait"
  <2>1. Target(p) = Cur(peer[p]) /\ peer[p] \in Proc /\ state[peer[p]] = "ZOMBIE"
    BY ZenonT(60), <1>1, <1>4 DEF Target, ThreadOK
  <2>2. ASSUME NEW q \in Proc, q # p, pc[q] # "dead"
        PROVE  peer[p] # q /\ (Forking(q) => peer[p] # peer[q])
    <3>1. state[q] = "LIVE" BY ZenonT(60), <1>1, <2>2 DEF ThreadOK
    <3>2. Forking(q) => state[peer[q]] = "USED" BY <1>1 DEF ThreadOK
    <3>. QED BY ZenonT(60), <2>1, <3>1, <3>2
  <2>. QED BY SMTT(60), Z3T(60), <2>1, <2>2 DEF Cur, Table
<1>5. CASE op[p] \notin {"fork", "wait"}
  <2>1. Target(p) \in {Cur(p), New(p)}
    BY ZenonT(60), <1>5 DEF Target
  <2>2. \A q \in Proc : Forking(q) => peer[q] # p
    BY ZenonT(60), <1>1, <1>2 DEF ThreadOK
  <2>. QED BY SMTT(60), Z3T(60), <2>1, <2>2 DEF Cur, New, Table
<1>. QED BY <1>3, <1>4, <1>5

\* The other threads are not disturbed by a thread that changes one page table
\* which they neither run on nor copy.
LEMMA OthersOK ==
  ASSUME IInv, NEW p \in Proc, NEW t,
         \A q \in Proc \ {p} : /\ pc'[q] = pc[q] /\ op'[q] = op[q] /\ ix'[q] = ix[q]
                               /\ lim'[q] = lim[q] /\ peer'[q] = peer[q] /\ hand'[q] = hand[q],
         UNCHANGED <<state, parent>>,
         \A u \in Table : u # t => map'[u] = map[u],
         \A q \in Proc \ {p} : pc[q] # "dead" => t # Cur(q) /\ (Forking(q) => t # Cur(peer[q]))
  PROVE  \A q \in Proc \ {p} : ThreadOK(q)'
<1>. SUFFICES ASSUME NEW q \in Proc \ {p} PROVE ThreadOK(q)'
  BY ZenonT(60)
<1>1. ThreadOK(q) /\ Cur(q) \in Table
  BY ZenonT(60) DEF IInv, Cur, Table
<1>2. pc[q] \in InCow \cup {"copyinc"} => map'[Cur(q)] = map[Cur(q)]
  BY ZenonT(60), <1>1 DEF InCow
<1>3. pc[q] = "copyinc" => map'[Cur(peer[q])] = map[Cur(peer[q])]
  <2>. SUFFICES ASSUME pc[q] = "copyinc" PROVE map'[Cur(peer[q])] = map[Cur(peer[q])]
    BY ZenonT(60)
  <2>1. Forking(q) /\ peer[q] \in Proc
    BY ZenonT(60), <1>1 DEF ThreadOK, Forking, InLoop
  <2>. QED BY ZenonT(60), <2>1 DEF Cur, Table
<1>. QED BY ZenonT(60), <1>1, <1>2, <1>3, Undisturbed

\* A thread that does not begin a fork keeps the children of forks apart.
LEMMA SameForkers ==
  ASSUME IInv, NEW p \in Proc,
         \A q \in Proc \ {p} : pc'[q] = pc[q] /\ op'[q] = op[q] /\ peer'[q] = peer[q],
         Forking(p)' => Forking(p) /\ peer'[p] = peer[p]
  PROVE  OneForker'
<1>1. \A q \in Proc : Forking(q)' => Forking(q) /\ peer'[q] = peer[q]
  BY DEF Forking
<1>. QED BY <1>1 DEF IInv, OneForker

\* A store of anything but a fill pattern leaves no fill pattern in a mapped page.
LEMMA CleanStore ==
  ASSUME TypeOK, NoJunkMapped, NEW g, NEW x, x # Junk,
         content' = [content EXCEPT ![g] = x], UNCHANGED map
  PROVE  NoJunkMapped'
<1>. SUFFICES ASSUME NEW u \in Table, NEW w \in VA, map[u][w] # NoFrame
              PROVE  content'[map[u][w]] # Junk
  BY ZenonT(60) DEF NoJunkMapped
<1>1. content[map[u][w]] # Junk BY ZenonT(60) DEF NoJunkMapped
<1>2. content \in [Frame -> Content] /\ map \in [Table -> [VA -> Frame \cup {NoFrame}]]
  BY ZenonT(60) DEF TypeOK
<1>3. map[u] \in [VA -> Frame \cup {NoFrame}] BY ZenonT(60), <1>2
<1>4. map[u][w] \in Frame BY ZenonT(60), <1>3
<1>. QED BY ZenonT(60), <1>1, <1>2, <1>4

\* No page on the free list is mapped or in anyone's hands.
LEMMA FreeUntouched == IInv => FreeIsUnreachable
<1>. SUFFICES ASSUME IInv, NEW f \in freelist
              PROVE  /\ \A t \in Table, v \in VA : map[t][v] # f
                     /\ \A p \in Proc : hand[p] # f
  BY ZenonT(60) DEF FreeIsUnreachable
<1>1. f \in Frame /\ temp[f] = 0 /\ f # NoFrame
  BY ZenonT(60), ConstantTypes DEF IInv, TypeOK, HandsOK
<1>2. ASSUME NEW p \in Proc PROVE hand[p] # f
  <2>1. ThreadOK(p) BY DEF IInv
  <2>2. CASE pc[p] \in Uncounted BY <2>2 DEF IInv, HandsOK
  <2>3. CASE pc[p] \in Counted BY ZenonT(60), <2>3, <1>1, ZeroUnused
  <2>4. CASE pc[p] \notin Uncounted \cup Counted BY ZenonT(60), <2>1, <2>4, <1>1 DEF ThreadOK
  <2>. QED BY <2>2, <2>3, <2>4
<1>. QED BY ZenonT(60), <1>1, <1>2, ZeroUnused

\* kill() touches no memory.
LEMMA KillStep ==
  ASSUME IInv, NEW p \in Proc, NEW q \in Proc, Kill(p, q)
  PROVE  IInv'
<1>. USE DEF Kill, procVars, tableVars, allocVars, threadVars
<1>1. TypeOK' BY ZenonT(60) DEF IInv, TypeOK
<1>2. \A r \in Proc : ThreadOK(r)' BY ZenonT(60) DEF IInv, ThreadOK, Forking
<1>3. OneForker' BY ZenonT(60) DEF IInv, OneForker, Forking
<1>4. HandsOK' /\ RefCountExact' /\ WritableIsPrivate' /\ NoJunkMapped' /\ NoLeak'
  BY ZenonT(60), Quiet
<1>. QED BY ZenonT(60), <1>1, <1>2, <1>3, <1>4 DEF IInv

\* A store page fault up to kalloc in custom_cow.
LEMMA StoreFaultStep ==
  ASSUME IInv, NEW p \in Proc, NEW v \in 0 .. NV, NEW sp, NEW first,
         StoreFault(p, v, sp, first)
  PROVE  IInv'
<1>1. ASSUME Panic("custom_cow: pte should exist") PROVE IInv'
  BY ZenonT(60), <1>1, PanicStep DEF PanicMsg
<1>2. ASSUME NEW e \in {"tret", "cow"},
             UNCHANGED <<state, sz, parent, tableVars, allocVars, lim, hand, peer, val, panicked>>,
             killed' \in [Proc -> BOOLEAN],
             pc' = [pc EXCEPT ![p] = e],
             op' = [op EXCEPT ![p] = "fault"] \/ (e = "tret" /\ op' = op),
             ix' = [ix EXCEPT ![p] = v] \/ (e = "tret" /\ ix' = ix),
             e = "cow" => v \in VA /\ map[Cur(p)][v] # NoFrame
      PROVE  IInv'
  <2>. USE <1>2 DEF procVars, tableVars, allocVars, threadVars
  <2>0. pc[p] = "user" BY ZenonT(60) DEF StoreFault
  <2>1. TypeOK' BY ZenonT(60), <2>0 DEF IInv, TypeOK, Label
  <2>2. ASSUME NEW q \in Proc PROVE ThreadOK(q)'
    <3>1. ThreadOK(q) BY ZenonT(60) DEF IInv
    <3>2. CASE q = p
      <4>1. pc'[p] = e /\ hand'[p] = hand[p] /\ state'[p] = state[p] BY ZenonT(60) DEF IInv, TypeOK
      <4>2. CASE e = "tret"
        BY ZenonT(60), <2>0, <3>1, <3>2, <4>1, <4>2 DEF ThreadOK, Forking, InLoop, InCow, Counted, Uncounted, Cur
      <4>3. CASE e = "cow"
        <5>1. ix'[p] = v /\ op'[p] = "fault" BY ZenonT(60), <4>3 DEF IInv, TypeOK
        <5>. QED BY ZenonT(60), <2>0, <3>1, <3>2, <4>1, <4>3, <5>1 DEF ThreadOK, Forking, InLoop, InCow, Counted, Uncounted, Cur
      <4>. QED BY <4>2, <4>3
    <3>3. CASE q # p
      BY ZenonT(60), <2>0, <3>1, <3>3, Undisturbed DEF IInv, TypeOK
    <3>. QED BY ZenonT(60), <3>2, <3>3
  <2>3. OneForker' BY SMTT(60), Z3T(60), SMTT(61), <2>0 DEF IInv, TypeOK, OneForker, Forking, InLoop
  <2>4. HandsOK' /\ RefCountExact' /\ WritableIsPrivate' /\ NoJunkMapped' /\ NoLeak'
    BY ZenonT(60), <2>0, Quiet DEF IInv, TypeOK, Uncounted, Counted
  <2>. QED BY ZenonT(60), <2>1, <2>2, <2>3, <2>4 DEF IInv
<1>3. v \in VA \/ v = NV
  BY SMTT(60), Z3T(60), ConstantsAssumption DEF VA
<1>. QED BY ZenonT(60), <1>1, <1>2, <1>3 DEF StoreFault, GuardHit, Goto, procVars, threadVars, IInv, TypeOK

\* read() and its like up to the copyout.
LEMMA ReadStep ==
  ASSUME IInv, NEW p \in Proc, NEW v \in 0 .. NV, NEW x \in KVal, Read(p, v, x)
  PROVE  IInv'
<1>1. PICK e \in {"cow", "write", "tret"} :
        /\ pc[p] = "user" /\ pc' = [pc EXCEPT ![p] = e]
        /\ op' = [op EXCEPT ![p] = "read"]
        /\ e # "tret" => v \in VA /\ map[Cur(p)][v] # NoFrame /\ ix' = [ix EXCEPT ![p] = v]
        /\ ix' = ix \/ ix' = [ix EXCEPT ![p] = v]
        /\ val' = val \/ val' = [val EXCEPT ![p] = x]
        /\ UNCHANGED <<state, sz, parent, killed, map, perm, content, temp, freelist, lim, hand, peer, panicked>>
  BY ZenonT(60) DEF Read, Copyout, UserPage, Goto, procVars, tableVars, allocVars
<1>2. TypeOK' BY ZenonT(60), <1>1 DEF IInv, TypeOK, Label
<1>3. ASSUME NEW q \in Proc PROVE ThreadOK(q)'
  <2>1. ThreadOK(q) /\ TypeOK BY DEF IInv
  <2>2. CASE q = p
    BY ZenonT(60), <1>1, <2>1, <2>2 DEF TypeOK, ThreadOK, Forking, InLoop, InCow, Counted, Uncounted, Cur
  <2>3. CASE q # p
    BY ZenonT(60), <1>1, <2>1, <2>3, Undisturbed DEF TypeOK
  <2>. QED BY <2>2, <2>3
<1>4. OneForker' BY SMTT(60), Z3T(60), SMTT(61), <1>1 DEF IInv, TypeOK, OneForker, Forking, InLoop
<1>5. HandsOK' /\ RefCountExact' /\ WritableIsPrivate' /\ NoJunkMapped' /\ NoLeak'
  BY ZenonT(60), <1>1, Quiet DEF IInv, TypeOK, Uncounted, Counted
<1>. QED BY ZenonT(60), <1>2, <1>3, <1>4, <1>5 DEF IInv

\* sbrk, exec and the failure of exec: a thread starts a loop on its own table.
LEMMA StartLoopStep ==
  ASSUME IInv, NEW p \in Proc, pc[p] \in {"user", "alloc"},
         NEW e \in {"alloc", "unmap"}, NEW o \in {"grow", "shrink", "exec"},
         NEW i \in 0 .. NV, NEW n \in 0 .. NV,
         e = "alloc" => o # "shrink" /\ (o = "exec" => n = Len(Image)),
         pc' = [pc EXCEPT ![p] = e], op' = [op EXCEPT ![p] = o],
         ix' = [ix EXCEPT ![p] = i], lim' = [lim EXCEPT ![p] = n],
         sz' \in [Proc -> 0 .. NV],
         UNCHANGED <<state, parent, killed, map, perm, content, temp, freelist, hand, peer, val, panicked>>
  PROVE  IInv'
<1>2. TypeOK' BY ZenonT(60), ConstantTypes DEF IInv, TypeOK, Label
<1>3. ASSUME NEW q \in Proc PROVE ThreadOK(q)'
  <2>1. ThreadOK(q) /\ TypeOK BY ZenonT(60) DEF IInv
  <2>2. CASE q = p
    BY ZenonT(60), <2>1, <2>2 DEF TypeOK, ThreadOK, Forking, InLoop, InCow, Counted, Uncounted, Cur
  <2>3. CASE q # p
    BY ZenonT(60), <2>1, <2>3, Undisturbed DEF TypeOK
  <2>. QED BY <2>2, <2>3
<1>4. OneForker'
  <2>1. /\ \A q \in Proc \ {p} : pc'[q] = pc[q] /\ op'[q] = op[q] /\ peer'[q] = peer[q]
        /\ op'[p] # "fork"
    BY ZenonT(60) DEF IInv, TypeOK
  <2>. QED BY ZenonT(60), <2>1, SameForkers DEF Forking
<1>5. HandsOK' /\ RefCountExact' /\ WritableIsPrivate' /\ NoJunkMapped' /\ NoLeak'
  BY ZenonT(60), Quiet DEF IInv, TypeOK, Uncounted, Counted
<1>. QED BY ZenonT(60), <1>2, <1>3, <1>4, <1>5 DEF IInv

\* sbrk() up to its first page.
LEMMA SbrkStep ==
  ASSUME IInv, NEW p \in Proc, NEW n \in -NV .. NV, Sbrk(p, n)
  PROVE  IInv'
<1>. USE DEF Sbrk, StartUnmap, Goto, procVars, tableVars, allocVars
<1>1. sz \in [Proc -> 0 .. NV] /\ NV \in Nat /\ pc[p] = "user" /\ sz[p] + n <= NV
  BY ZenonT(60), ConstantTypes DEF IInv, TypeOK
<1>2. CASE n > 0
  <2>1. sz[p] + n \in 0 .. NV /\ sz[p] \in 0 .. NV /\ ~(n < 0)
    BY SMTT(60), Z3T(60), <1>1, <1>2
  <2>2. /\ pc' = [pc EXCEPT ![p] = "alloc"] /\ op' = [op EXCEPT ![p] = "grow"]
        /\ ix' = [ix EXCEPT ![p] = sz[p]] /\ lim' = [lim EXCEPT ![p] = sz[p] + n]
        /\ sz' \in [Proc -> 0 .. NV]
        /\ UNCHANGED <<state, parent, killed, map, perm, content, temp, freelist, hand, peer, val, panicked>>
    BY ZenonT(60), <1>1, <2>1
  <2>3. /\ pc[p] \in {"user", "alloc"} /\ "alloc" \in {"alloc", "unmap"}
        /\ "grow" \in {"grow", "shrink", "exec"} /\ "grow" # "shrink" /\ "grow" # "exec"
    BY ZenonT(60), <1>1
  <2>. HIDE DEF Sbrk
  <2>. QED BY ZenonT(60), <2>1, <2>2, <2>3, StartLoopStep
<1>3. CASE n < 0
  <2>1. sz[p] + n \in 0 .. NV /\ sz[p] \in 0 .. NV /\ sz' = [sz EXCEPT ![p] = sz[p] + n]
    BY SMTT(60), Z3T(60), SMTT(61), <1>1, <1>3
  <2>2. sz' \in [Proc -> 0 .. NV]
    BY <1>1, <2>1
  <2>. QED BY ZenonT(60), <1>3, <1>1, <2>1, <2>2, StartLoopStep
<1>. QED BY ZenonT(60), <1>2, <1>3

\* exec() up to its first page, and every way it gives up.
LEMMA ExecStep ==
  ASSUME IInv, NEW p \in Proc, Exec(p) \/ ExecBad(p)
  PROVE  IInv'
<1>1. sz \in [Proc -> 0 .. NV] /\ ix[p] \in 0 .. NV
  BY ZenonT(60) DEF IInv, TypeOK
<1>2. CASE Exec(p)
  BY ZenonT(60), <1>2, <1>1, ConstantTypes, StartLoopStep DEF Exec, Goto, procVars, tableVars, allocVars, IInv, TypeOK
<1>3. CASE ExecBad(p)
  <2>1. op' = [op EXCEPT ![p] = "exec"]
    BY ZenonT(60), <1>3 DEF ExecBad, IInv, TypeOK
  <2>. QED BY ZenonT(60), <1>3, <2>1, <1>1, ConstantTypes, StartLoopStep
       DEF ExecBad, StartUnmap, Goto, procVars, tableVars, allocVars, IInv, TypeOK
<1>. QED BY ZenonT(60), <1>2, <1>3

\* Threads that are creating or freeing a child have different children.
LEMMA PeerPrivate ==
  ASSUME IInv, NEW p \in Proc, NEW q \in Proc, p # q, Parenting(p), Parenting(q)
  PROVE  peer[p] # peer[q]
<1>1. ThreadOK(p) /\ ThreadOK(q) BY DEF IInv
<1>2. CASE Forking(p) /\ Forking(q) BY ZenonT(60), <1>2 DEF IInv, OneForker
<1>3. CASE Forking(p) /\ ~Forking(q) BY ZenonT(60), <1>1, <1>3 DEF ThreadOK, Parenting
<1>4. CASE ~Forking(p) /\ Forking(q) BY ZenonT(60), <1>1, <1>4 DEF ThreadOK, Parenting
<1>5. CASE ~Forking(p) /\ ~Forking(q) BY ZenonT(60), <1>1, <1>5 DEF ThreadOK, Parenting
<1>. QED BY ZenonT(60), <1>2, <1>3, <1>4, <1>5

\* The tables that a process may work on.
Works(p, t) == t = Cur(p) \/ t = New(p) \/ (pc[p] \in InLoop /\ t = Target(p))

\* Two loops never work on the same table.
LEMMA TargetsApart ==
  ASSUME IInv, NEW p \in Proc, NEW q \in Proc, p # q, pc[p] \in InLoop, pc[q] \in InLoop
  PROVE  Target(p) # Target(q)
<1>1. ThreadOK(p) /\ ThreadOK(q) /\ pc[p] # "dead" /\ pc[q] # "dead" BY ZenonT(60) DEF IInv, InLoop
<1>2. Target(p) # Cur(q) /\ Target(q) # Cur(p) BY ZenonT(60), <1>1, TargetPrivate
<1>3. CASE op[p] \in {"fork", "wait"} /\ op[q] \in {"fork", "wait"}
  <2>1. Parenting(p) /\ Parenting(q) BY ZenonT(60), <1>3 DEF Parenting, Forking
  <2>2. peer[p] # peer[q] BY ZenonT(60), <2>1, PeerPrivate
  <2>. QED BY ZenonT(60), <1>3, <2>2 DEF Target, Cur
<1>4. CASE op[p] \notin {"fork", "wait"} BY ZenonT(60), <1>2, <1>4 DEF Target, Cur, New
<1>5. CASE op[q] \notin {"fork", "wait"} BY ZenonT(60), <1>2, <1>5 DEF Target, Cur, New
<1>. QED BY ZenonT(60), <1>3, <1>4, <1>5

\* A process works on no table that another one relies on: not on exec's second table,
\* not on the table of a live process or of a free slot, and on no other loop's table.
LEMMA WorksApart ==
  ASSUME IInv, NEW p \in Proc, pc[p] # "dead", NEW q \in Proc, q # p
  PROVE  /\ ~Works(p, New(q))
         /\ state[q] \in {"UNUSED", "LIVE"} => ~Works(p, Cur(q))
         /\ pc[q] \in InLoop => ~Works(p, Target(q)) /\ Target(q) \in Table
         /\ Works(p, Cur(q)) => pc[p] \in InLoop /\ op[p] \in {"fork", "wait"} /\ peer[p] = q
<1>1. ThreadOK(p) /\ ThreadOK(q) BY ZenonT(60) DEF IInv
<1>2. ~Works(p, New(q))
  <2>1. New(q) # Cur(p) /\ New(q) # New(p) BY SMTT(60), Z3T(60), <1>1 DEF Cur, New
  <2>2. Target(p) # New(q) BY SMTT(60), Z3T(60), <1>1 DEF Target, Cur, New
  <2>. QED BY ZenonT(60), <2>1, <2>2 DEF Works
<1>3. Works(p, Cur(q)) => pc[p] \in InLoop /\ op[p] \in {"fork", "wait"} /\ peer[p] = q /\ pc[q] = "dead"
  <2>. SUFFICES ASSUME Works(p, Cur(q)) PROVE pc[p] \in InLoop /\ op[p] \in {"fork", "wait"} /\ peer[p] = q /\ pc[q] = "dead"
    BY ZenonT(60)
  <2>1. pc[p] \in InLoop /\ Target(p) = Cur(q) BY ZenonT(60), <1>1 DEF Works, Cur, New
  <2>2. op[p] \in {"fork", "wait"} /\ peer[p] = q BY ZenonT(60), <1>1, <2>1 DEF Target, Cur, New
  <2>3. pc[q] = "dead" BY ZenonT(60), <1>1, <2>1, TargetPrivate
  <2>. QED BY <2>1, <2>2, <2>3
<1>4. state[q] \in {"UNUSED", "LIVE"} => ~Works(p, Cur(q))
  BY ZenonT(60), <1>1, <1>3 DEF ThreadOK, Forking
<1>5. pc[q] \in InLoop => ~Works(p, Target(q)) /\ Target(q) \in Table
  <2>. SUFFICES ASSUME pc[q] \in InLoop PROVE ~Works(p, Target(q)) /\ Target(q) \in Table
    BY ZenonT(60)
  <2>1. Target(q) \in Table /\ Target(q) # Cur(p) BY ZenonT(60), <1>1, TargetPrivate
  <2>2. Target(q) # New(p) BY SMTT(60), Z3T(60), <1>1 DEF Target, Cur, New
  <2>3. pc[p] \in InLoop => Target(p) # Target(q) BY ZenonT(60), <1>1, TargetsApart
  <2>. QED BY ZenonT(60), <2>1, <2>2, <2>3 DEF Works
<1>. QED BY ZenonT(60), <1>2, <1>3, <1>4, <1>5

\* A change of one page table entry that no uvmcopy is counting.
LEMMA SlotSets ==
  ASSUME TypeOK, NEW t \in Table, NEW v \in VA, NEW h, NEW o,
         h \in Frame \cup {NoFrame}, o = map[t][v], h # o,
         map'[t][v] = h, \A u \in Table, w \in VA : u # t \/ w # v => map'[u][w] = map[u][w],
         \A q \in Proc : pc[q] = "copyinc" \/ pc'[q] = "copyinc" =>
           pc'[q] = pc[q] /\ ix'[q] = ix[q] /\ peer'[q] = peer[q] /\ t # Cur(peer[q])
  PROVE  /\ \A g \in Frame \ {h, o} : Mapped(g)' = Mapped(g)
         /\ Mapped(h)' = Mapped(h) \cup {<<t, v>>} /\ <<t, v>> \notin Mapped(h)
         /\ Mapped(o)' = Mapped(o) \ {<<t, v>>} /\ <<t, v>> \in Mapped(o)
<1>. DEFINE s == <<t, v>>
<1>1. map \in [Table -> [VA -> Frame \cup {NoFrame}]] BY ZenonT(60) DEF TypeOK
<1>2. /\ map'[t][v] = h
      /\ \A u \in Table, w \in VA : <<u, w>> # s => map'[u][w] = map[u][w]
  BY ZenonT(60), <1>1
<1>3. \A r \in Table \X VA : r[1] \in Table /\ r[2] \in VA /\ r = <<r[1], r[2]>>
  BY SMTT(60), Z3T(60)
<1>4. \A r \in Table \X VA : r # s => map'[r[1]][r[2]] = map[r[1]][r[2]]
  BY SMTT(60), Z3T(60), <1>2, <1>3
<1>5. s \in Table \X VA /\ s[1] = t /\ s[2] = v
  BY ZenonT(60)
<1>6. ~\E q \in Proc : pc[q] = "copyinc" /\ s = <<Cur(peer[q]), ix[q]>>
  BY ZenonT(60)
<1>7. \A r : (\E q \in Proc : pc[q] = "copyinc" /\ r = <<Cur(peer[q]), ix[q]>>)
               <=> (\E q \in Proc : pc'[q] = "copyinc" /\ r = <<Cur(peer'[q]), ix'[q]>>)
  BY ZenonT(60) DEF Cur
<1>8. \A g : Mapped(g)' = {r \in Table \X VA :
                             /\ map'[r[1]][r[2]] = g
                             /\ ~\E q \in Proc : pc[q] = "copyinc" /\ r = <<Cur(peer[q]), ix[q]>>}
  BY SMTT(60), Z3T(60), SMTT(61), <1>7 DEF Mapped, Cur
<1>. HIDE DEF s
<1>9. \A g \in Frame \ {h, o} : Mapped(g)' = Mapped(g)
  BY SMTT(60), Z3T(60), SMTT(61), <1>2, <1>4, <1>5, <1>8 DEF Mapped
<1>10. Mapped(h)' = Mapped(h) \cup {s} /\ s \notin Mapped(h)
  BY SMTT(60), Z3T(60), SMTT(61), <1>2, <1>4, <1>5, <1>6, <1>8 DEF Mapped
<1>11. Mapped(o)' = Mapped(o) \ {s} /\ s \in Mapped(o)
  BY SMTT(60), Z3T(60), SMTT(61), <1>2, <1>4, <1>5, <1>6, <1>8 DEF Mapped
<1>. QED BY ZenonT(60), <1>2, <1>9, <1>10, <1>11 DEF s

\* Nobody copies from or into the table of a process that is not forking.
LEMMA OwnTable ==
  ASSUME IInv, NEW p \in Proc, pc[p] # "dead", pc[p] # "copyinc"
  PROVE  \A q \in Proc : pc[q] = "copyinc" => Cur(p) # Cur(peer[q]) /\ Cur(p) # Cur(q)
BY ZenonT(60) DEF IInv, ThreadOK, Forking, InLoop, Cur

-----------------------------------------------------------------------------
(***************************************************************************)
(* IInv of CowMemory holds after userinit, and is kept by wait, fork and   *)
(* its copy loop, freeproc, the trap return, exec's change of tables, and  *)
(* the stores.                                                             *)
(***************************************************************************)
\* wait() takes a zombie that only its parent can take.
LEMMA WaitStep ==
  ASSUME IInv, NEW p \in Proc, NEW c \in Proc, Wait(p, c)
  PROVE  IInv'
<1>. DEFINE Shape(e, v, n, x) ==
              /\ pc' = [pc EXCEPT ![p] = e]
              /\ ix' = [ix EXCEPT ![p] = v] /\ lim' = [lim EXCEPT ![p] = n]
              /\ val' = [val EXCEPT ![p] = x]
              /\ e \in {"cow", "write"} => v \in VA /\ map[Cur(p)][v] # NoFrame
<1>0. \E e \in {"unmap", "cow", "write", "tret"}, v \in 0 .. NV, n \in 0 .. NV, x \in KVal \cup {Zero} :
        Shape(e, v, n, x)
  <2>1. /\ 0 \in 0 .. NV /\ sz[c] \in 0 .. NV /\ ix[p] \in 0 .. NV /\ lim[p] \in 0 .. NV
        /\ val[p] \in KVal \cup {Zero}
        /\ ix = [ix EXCEPT ![p] = ix[p]] /\ lim = [lim EXCEPT ![p] = lim[p]]
        /\ val = [val EXCEPT ![p] = val[p]]
    BY ConstantTypes DEF IInv, TypeOK
  <2>2. CASE StartUnmap(p, 0, sz[c]) /\ UNCHANGED val
    <3>1. Shape("unmap", 0, sz[c], val[p])
      BY <2>1, <2>2 DEF StartUnmap, Goto
    <3>. QED BY ZenonT(60), <2>1, <3>1
  <2>3. ASSUME NEW v \in 0 .. NV, NEW x \in KVal, UserPage(p, v), Copyout(p, v, x), UNCHANGED lim
        PROVE  \E e \in {"cow", "write"} : Shape(e, v, lim[p], x)
    <3>1. v \in VA /\ map[Cur(p)][v] # NoFrame
      BY <2>3 DEF UserPage
    <3>2. CASE "COW" \in perm[Cur(p)][v]
      <4>1. Shape("cow", v, lim[p], x) BY ZenonT(60), <2>1, <2>3, <3>1, <3>2 DEF Copyout, Goto
      <4>. QED BY <4>1
    <3>3. CASE "COW" \notin perm[Cur(p)][v]
      <4>1. Shape("write", v, lim[p], x) BY ZenonT(60), <2>1, <2>3, <3>1, <3>3 DEF Copyout, Goto
      <4>. QED BY <4>1
    <3>. QED BY <3>2, <3>3
  <2>4. ASSUME Goto(p, "tret"), UNCHANGED <<ix, val, lim>> PROVE Shape("tret", ix[p], lim[p], val[p])
    BY ZenonT(60), <2>1, <2>4 DEF Goto
  <2>5. \/ StartUnmap(p, 0, sz[c]) /\ UNCHANGED val
        \/ \E v \in 0 .. NV, x \in KVal : UserPage(p, v) /\ Copyout(p, v, x) /\ UNCHANGED lim
        \/ Goto(p, "tret") /\ UNCHANGED <<ix, val, lim>>
    BY DEF Wait
  <2>6. ASSUME NEW v \in 0 .. NV, NEW x \in KVal, UserPage(p, v) /\ Copyout(p, v, x) /\ UNCHANGED lim
        PROVE  \E e \in {"unmap", "cow", "write", "tret"}, i \in 0 .. NV, n \in 0 .. NV, y \in KVal \cup {Zero} :
                 Shape(e, i, n, y)
    <3>1. PICK e \in {"cow", "write"} : Shape(e, v, lim[p], x) BY ZenonT(60), <2>3, <2>6
    <3>2. x \in KVal \cup {Zero} /\ e \in {"unmap", "cow", "write", "tret"} BY <2>1
    <3>. HIDE DEF Shape
    <3>. QED BY ZenonT(60), <2>1, <3>1, <3>2
  <2>. HIDE DEF Shape
  <2>. QED BY ZenonT(60), <2>1, <2>2, <2>4, <2>5, <2>6
<1>a. /\ pc[p] = "user" /\ state[c] = "ZOMBIE" /\ parent[c] = p
      /\ op' = [op EXCEPT ![p] = "wait"]
      /\ peer' = [peer EXCEPT ![p] = c]
      /\ UNCHANGED <<state, sz, parent, killed, map, perm, content, temp, freelist, hand, panicked>>
  BY DEF Wait, procVars, tableVars, allocVars
<1>b. PICK e \in {"unmap", "cow", "write", "tret"}, v \in 0 .. NV, n \in 0 .. NV, x \in KVal \cup {Zero} :
        Shape(e, v, n, x)
  BY ZenonT(60), <1>0
<1>1. /\ e \in {"unmap", "cow", "write", "tret"} /\ v \in 0 .. NV /\ n \in 0 .. NV /\ x \in KVal \cup {Zero}
      /\ pc[p] = "user" /\ state[c] = "ZOMBIE" /\ parent[c] = p
      /\ pc' = [pc EXCEPT ![p] = e]
      /\ op' = [op EXCEPT ![p] = "wait"]
      /\ peer' = [peer EXCEPT ![p] = c]
      /\ ix' = [ix EXCEPT ![p] = v] /\ lim' = [lim EXCEPT ![p] = n]
      /\ val' = [val EXCEPT ![p] = x]
      /\ e \in {"cow", "write"} => v \in VA /\ map[Cur(p)][v] # NoFrame
      /\ UNCHANGED <<state, sz, parent, killed, map, perm, content, temp, freelist, hand, panicked>>
  BY <1>a, <1>b
<1>2. TypeOK' BY ZenonT(60), <1>1 DEF IInv, TypeOK, Label
<1>3. ASSUME NEW q \in Proc PROVE ThreadOK(q)'
  <2>1. ThreadOK(q) /\ TypeOK BY ZenonT(60) DEF IInv
  <2>2. CASE q = p
    BY SMTT(60), Z3T(60), SMTT(61), <1>1, <2>1, <2>2 DEF TypeOK, ThreadOK, Forking, InLoop, InCow, Counted, Uncounted, Cur
  <2>3. CASE q # p
    BY ZenonT(60), <1>1, <2>1, <2>3, Undisturbed DEF TypeOK
  <2>. QED BY ZenonT(60), <2>2, <2>3
<1>4. OneForker'
  <2>1. op \in [Proc -> {"none", "fault", "read", "wait", "fork", "grow", "shrink", "exec"}]
        /\ pc \in [Proc -> Label] /\ peer \in [Proc -> Proc \cup {NoProc}]
    BY ZenonT(60) DEF IInv, TypeOK
  <2>2. ~Forking(p)' BY ZenonT(60), <1>1, <2>1 DEF Forking
  <2>3. \A q \in Proc \ {p} : pc'[q] = pc[q] /\ op'[q] = op[q] /\ peer'[q] = peer[q]
    BY ZenonT(60), <1>1, <2>1
  <2>. QED BY ZenonT(60), <2>2, <2>3, SameForkers
<1>5. HandsOK' /\ RefCountExact' /\ WritableIsPrivate' /\ NoJunkMapped' /\ NoLeak'
  BY ZenonT(60), <1>1, Quiet DEF IInv, TypeOK, Uncounted, Counted
<1>. QED BY ZenonT(60), <1>2, <1>3, <1>4, <1>5 DEF IInv

\* fork() takes an unused slot, so no other fork works on that child.
LEMMA ForkStep ==
  ASSUME IInv, NEW p \in Proc, Fork(p)
  PROVE  IInv'
<1>1. CASE Goto(p, "tret") /\ UNCHANGED <<state, peer, op, ix, lim>>
  <2>. USE <1>1 DEF Fork, Goto, procVars, tableVars, allocVars
  <2>1. TypeOK' BY ZenonT(60) DEF IInv, TypeOK, Label
  <2>2. ASSUME NEW q \in Proc PROVE ThreadOK(q)'
    <3>1. ThreadOK(q) /\ TypeOK BY ZenonT(60) DEF IInv
    <3>2. CASE q = p
      BY ZenonT(60), <3>1, <3>2 DEF TypeOK, ThreadOK, Forking, InLoop, InCow, Counted, Uncounted, Cur
    <3>3. CASE q # p
      BY ZenonT(60), <3>1, <3>3, Undisturbed DEF TypeOK
    <3>. QED BY ZenonT(60), <3>2, <3>3
  <2>3. OneForker' BY ZenonT(60) DEF IInv, TypeOK, OneForker, Forking, InLoop
  <2>4. HandsOK' /\ RefCountExact' /\ WritableIsPrivate' /\ NoJunkMapped' /\ NoLeak'
    BY Quiet DEF IInv, TypeOK, Uncounted, Counted
  <2>. QED BY ZenonT(60), <2>1, <2>2, <2>3, <2>4 DEF IInv
<1>2. CASE ~(Goto(p, "tret") /\ UNCHANGED <<state, peer, op, ix, lim>>)
  <2>1. PICK c \in Proc :
          /\ pc[p] = "user" /\ state[c] = "UNUSED"
          /\ state' = [state EXCEPT ![c] = "USED"]
          /\ peer' = [peer EXCEPT ![p] = c]
          /\ op' = [op EXCEPT ![p] = "fork"]
          /\ ix' = [ix EXCEPT ![p] = 0] /\ lim' = [lim EXCEPT ![p] = sz[p]]
          /\ pc' = [pc EXCEPT ![p] = "copy"]
          /\ UNCHANGED <<sz, parent, killed, map, perm, content, temp, freelist, hand, val, panicked>>
    BY ZenonT(60), <1>2 DEF Fork, Goto, tableVars, allocVars
  <2>2. TypeOK' BY ZenonT(60), <2>1, ConstantTypes DEF IInv, TypeOK, Label
  <2>3. ASSUME NEW q \in Proc PROVE ThreadOK(q)'
    <3>1. ThreadOK(q) /\ ThreadOK(p) /\ TypeOK BY ZenonT(60) DEF IInv
    <3>2. CASE q = p
      BY ZenonT(60), <2>1, <3>1, <3>2 DEF TypeOK, ThreadOK, Forking, InLoop, InCow, Counted, Uncounted, Cur
    <3>3. CASE q = c
      BY ZenonT(60), <2>1, <3>1, <3>3 DEF TypeOK, ThreadOK, Forking, InLoop, InCow, Counted, Uncounted, Cur
    <3>4. CASE q # p /\ q # c
      BY ZenonT(60), <2>1, <3>1, <3>4, Undisturbed DEF TypeOK
    <3>. QED BY ZenonT(60), <3>2, <3>3, <3>4
  <2>4. OneForker'
    <3>1. \A q \in Proc : Forking(q) => state[peer[q]] = "USED" BY ZenonT(60) DEF IInv, ThreadOK
    <3>2. TypeOK /\ OneForker BY ZenonT(60) DEF IInv
    <3>3. /\ \A q \in Proc \ {p} : Forking(q)' => Forking(q) /\ peer'[q] = peer[q]
          /\ peer'[p] = c /\ state[c] # "USED"
      BY ZenonT(60), <2>1, <3>2 DEF TypeOK, Forking, InLoop
    <3>. QED BY SMTT(60), Z3T(60), <3>1, <3>2, <3>3 DEF OneForker
  <2>5. HandsOK' /\ RefCountExact' /\ WritableIsPrivate' /\ NoJunkMapped' /\ NoLeak'
    BY ZenonT(60), <2>1, Quiet DEF IInv, TypeOK, Uncounted, Counted
  <2>. QED BY ZenonT(60), <2>2, <2>3, <2>4, <2>5 DEF IInv
<1>. QED BY ZenonT(60), <1>1, <1>2

\* The end of fork: the child starts to run on the table that was built for it.
LEMMA ForkDoneStep ==
  ASSUME IInv, NEW p \in Proc, ForkDone(p)
  PROVE  IInv'
<1>. DEFINE c == peer[p]
<1>1. /\ pc[p] = "copy"
      /\ sz' = [sz EXCEPT ![c] = sz[p]]
      /\ parent' = [parent EXCEPT ![c] = p]
      /\ state' = [state EXCEPT ![c] = "LIVE"]
      /\ pc' = [pc EXCEPT ![p] = "tret", ![c] = "user"]
      /\ UNCHANGED <<killed, map, perm, content, temp, freelist, op, ix, lim, hand, peer, val, panicked>>
  BY ZenonT(60) DEF ForkDone, tableVars, allocVars
<1>2. /\ TypeOK /\ \A q \in Proc : ThreadOK(q)
      /\ c \in Proc /\ state[c] = "USED" /\ c # p /\ Parenting(p) /\ Forking(p)
      /\ pc[c] = "dead"
  BY ZenonT(60), <1>1 DEF IInv, ThreadOK, Forking, InLoop, Parenting
<1>3. TypeOK' BY <1>1, <1>2 DEF TypeOK, Label
<1>4. ASSUME NEW q \in Proc PROVE ThreadOK(q)'
  <2>1. CASE q = p
    BY ZenonT(60), <1>1, <1>2, <2>1 DEF TypeOK, ThreadOK, Forking, InLoop, InCow, Counted, Uncounted, Cur
  <2>2. CASE q = c
    BY ZenonT(60), <1>1, <1>2, <2>2 DEF TypeOK, ThreadOK, Forking, InLoop, InCow, Counted, Uncounted, Cur
  <2>3. CASE q # p /\ q # c
    <3>1. Parenting(q) => peer[q] # c BY ZenonT(60), <1>2, <2>3, PeerPrivate
    <3>. HIDE DEF c
    <3>. QED BY ZenonT(60), <1>1, <1>2, <2>3, <3>1, Undisturbed DEF TypeOK
  <2>. QED BY ZenonT(60), <2>1, <2>2, <2>3
<1>5. OneForker'
  <2>1. \A q \in Proc : Forking(q)' => Forking(q) /\ peer'[q] = peer[q]
    BY ZenonT(60), <1>1, <1>2 DEF TypeOK, Forking, InLoop
  <2>. QED BY ZenonT(60), <2>1 DEF IInv, OneForker
<1>6. HandsOK' /\ RefCountExact' /\ WritableIsPrivate' /\ NoJunkMapped' /\ NoLeak'
  BY ZenonT(60), <1>1, <1>2, Quiet DEF TypeOK, Uncounted, Counted
<1>. QED BY ZenonT(60), <1>3, <1>4, <1>5, <1>6 DEF IInv

\* freeproc releases the slot of the child.
LEMMA FreeprocStep ==
  ASSUME IInv, NEW p \in Proc, NEW c \in Proc, c = peer[p],
         pc[p] = "unmap", op[p] \in {"fork", "wait"},
         pc' = [pc EXCEPT ![p] = "tret"],
         state' = [state EXCEPT ![c] = "UNUSED"],
         sz' = [sz EXCEPT ![c] = 0],
         parent' = [parent EXCEPT ![c] = NoProc],
         killed' \in [Proc -> BOOLEAN],
         UNCHANGED <<map, perm, content, temp, freelist, op, ix, lim, hand, peer, val, panicked>>
  PROVE  IInv'
<1>1. TypeOK /\ \A q \in Proc : ThreadOK(q)
  BY ZenonT(60) DEF IInv
<1>2. state[c] \in {"USED", "ZOMBIE"} /\ c # p /\ Parenting(p) /\ pc[c] = "dead"
  BY ZenonT(60), <1>1 DEF ThreadOK, Forking, InLoop, Parenting
<1>3. TypeOK'
  <2>1. 0 \in 0 .. NV BY ConstantTypes
  <2>. QED BY ZenonT(60), <1>1, <2>1 DEF TypeOK, Label
<1>4. ASSUME NEW q \in Proc PROVE ThreadOK(q)'
  <2>1. CASE q = p
    BY ZenonT(60), <1>1, <1>2, <2>1 DEF TypeOK, ThreadOK, Forking, InLoop, InCow, Counted, Uncounted, Cur
  <2>2. CASE q = c
    BY ZenonT(60), <1>1, <1>2, <2>2 DEF TypeOK, ThreadOK, Forking, InLoop, InCow, Counted, Uncounted, Cur
  <2>3. CASE q # p /\ q # c
    <3>1. Parenting(q) => peer[q] # c BY ZenonT(60), <1>2, <2>3, PeerPrivate
    <3>. QED BY ZenonT(60), <1>1, <1>2, <2>3, <3>1, Undisturbed DEF TypeOK
  <2>. QED BY ZenonT(60), <2>1, <2>2, <2>3
<1>5. OneForker'
  BY ZenonT(60), <1>1, SameForkers DEF TypeOK, Forking, InLoop
<1>6. HandsOK' /\ RefCountExact' /\ WritableIsPrivate' /\ NoJunkMapped' /\ NoLeak'
  BY ZenonT(60), <1>1, Quiet DEF TypeOK, Uncounted, Counted
<1>. QED BY ZenonT(60), <1>3, <1>4, <1>5, <1>6 DEF IInv

\* The return of sbrk or exec, and of a growth that gave its pages back.
LEMMA ReturnStep ==
  ASSUME IInv, NEW p \in Proc, pc[p] \in {"unmap", "alloc"},
         pc' = [pc EXCEPT ![p] = "tret"], sz' \in [Proc -> 0 .. NV],
         UNCHANGED <<state, parent, killed, map, perm, content, temp, freelist,
                     op, ix, lim, hand, peer, val, panicked>>
  PROVE  IInv'
<1>1. TypeOK /\ \A q \in Proc : ThreadOK(q)
  BY ZenonT(60) DEF IInv
<1>2. TypeOK' BY ZenonT(60), <1>1 DEF TypeOK, Label
<1>3. ASSUME NEW q \in Proc PROVE ThreadOK(q)'
  <2>1. CASE q = p
    BY ZenonT(60), <1>1, <2>1 DEF TypeOK, ThreadOK, Forking, InLoop, InCow, Counted, Uncounted, Cur
  <2>2. CASE q # p
    BY <1>1, <2>2, Undisturbed DEF TypeOK
  <2>. QED BY ZenonT(60), <2>1, <2>2
<1>4. OneForker'
  BY <1>1, SameForkers DEF TypeOK, Forking, InLoop
<1>5. HandsOK' /\ RefCountExact' /\ WritableIsPrivate' /\ NoJunkMapped' /\ NoLeak'
  BY ZenonT(60), <1>1, Quiet DEF TypeOK, Uncounted, Counted
<1>. QED BY ZenonT(60), <1>2, <1>3, <1>4, <1>5 DEF IInv

\* The end of uvmfree or uvmdealloc.
LEMMA UnmapDoneStep ==
  ASSUME IInv, NEW p \in Proc, UnmapDone(p)
  PROVE  IInv'
<1>. USE DEF procVars, tableVars, allocVars
<1>1. CASE Panic("freewalk: leaf")
  BY ZenonT(60), <1>1, PanicStep DEF PanicMsg
<1>2. CASE ~Panic("freewalk: leaf") /\ op[p] \in {"fork", "wait"}
  <2>1. peer[p] \in Proc
    BY ZenonT(60), <1>2 DEF UnmapDone, IInv, ThreadOK, Forking, InLoop
  <2>2. killed' \in [Proc -> BOOLEAN]
    BY ZenonT(60), <1>2 DEF UnmapDone, IInv, TypeOK
  <2>. QED BY ZenonT(60), <1>2, <2>1, <2>2, FreeprocStep DEF UnmapDone, Goto
<1>3. CASE ~Panic("freewalk: leaf") /\ op[p] \notin {"fork", "wait"}
  <2>1. sz' \in [Proc -> 0 .. NV]
    BY ZenonT(60), <1>3 DEF UnmapDone, IInv, TypeOK
  <2>. QED BY ZenonT(60), <1>3, <2>1, ReturnStep DEF UnmapDone, Goto
<1>. QED BY ZenonT(60), <1>1, <1>2, <1>3

\* A store that changes only what a mapped page holds.
LEMMA UserStoreStep ==
  ASSUME IInv, NEW p \in Proc, NEW v \in VA, NEW x \in Val, UserStore(p, v, x)
  PROVE  IInv'
<1>1. /\ content' = [content EXCEPT ![map[Cur(p)][v]] = x]
      /\ UNCHANGED <<state, sz, parent, killed, map, perm, temp, freelist,
                     pc, op, ix, lim, hand, peer, val, panicked>>
  BY ZenonT(60) DEF UserStore, procVars, tableVars, threadVars
<1>2. TypeOK' BY ZenonT(60), <1>1, ConstantTypes DEF IInv, TypeOK
<1>3. \A q \in Proc : ThreadOK(q)' BY ZenonT(60), <1>1 DEF IInv, ThreadOK, Forking
<1>4. OneForker' BY ZenonT(60), <1>1 DEF IInv, OneForker, Forking
<1>5. HandsOK' /\ RefCountExact' /\ WritableIsPrivate' /\ NoLeak'
  <2>1. HandsOK /\ RefCountExact /\ WritableIsPrivate /\ NoLeak BY ZenonT(60) DEF IInv
  <2>2. \A f \in Frame : Mapped(f)' = Mapped(f) /\ Holding(f)' = Holding(f)
    BY ZenonT(60), <1>1 DEF Mapped, Holding, Cur
  <2>3. HandsOK' BY ZenonT(60), <1>1, <2>1 DEF HandsOK
  <2>4. RefCountExact' BY ZenonT(60), <1>1, <2>1, <2>2 DEF RefCountExact
  <2>5. WritableIsPrivate' BY SMTT(60), Z3T(60), SMTT(61), <1>1, <2>1 DEF WritableIsPrivate
  <2>6. NoLeak' BY ZenonT(60), <1>1, <2>1 DEF NoLeak
  <2>. QED BY ZenonT(60), <2>3, <2>4, <2>5, <2>6
<1>6. NoJunkMapped'
  <2>1. TypeOK /\ NoJunkMapped /\ x # Junk BY ZenonT(60), ConstantTypes DEF IInv
  <2>. QED BY ZenonT(60), <1>1, <2>1, CleanStore
<1>. QED BY ZenonT(60), <1>2, <1>3, <1>4, <1>5, <1>6 DEF IInv

\* The memmove of copyout; wait() then starts to free the child.
LEMMA CopyoutWriteStep ==
  ASSUME IInv, NEW p \in Proc, CopyoutWrite(p)
  PROVE  IInv'
<1>1. /\ pc[p] = "write"
      /\ content' = [content EXCEPT ![map[Cur(p)][ix[p]]] = val[p]]
      /\ IF op[p] = "wait"
         THEN /\ pc' = [pc EXCEPT ![p] = "unmap"]
              /\ ix' = [ix EXCEPT ![p] = 0]
              /\ lim' = [lim EXCEPT ![p] = sz[peer[p]]]
         ELSE pc' = [pc EXCEPT ![p] = "tret"] /\ UNCHANGED <<ix, lim>>
      /\ UNCHANGED <<state, sz, parent, killed, map, perm, temp, freelist, op, hand, peer, val, panicked>>
  BY ZenonT(60) DEF CopyoutWrite, Goto, procVars, tableVars
<1>2. /\ TypeOK /\ ThreadOK(p) /\ val[p] \in Content /\ val[p] # Junk
      /\ op[p] = "wait" => sz[peer[p]] \in 0 .. NV
  <2>1. val[p] \in KVal \cup {Zero} /\ TypeOK /\ ThreadOK(p) BY ZenonT(60) DEF IInv, TypeOK
  <2>2. op[p] = "wait" => peer[p] \in Proc BY ZenonT(60), <1>1, <2>1 DEF ThreadOK, InCow
  <2>. QED BY ZenonT(60), <2>1, <2>2, ConstantTypes DEF TypeOK
<1>3. TypeOK'
  <2>1. 0 \in 0 .. NV BY ZenonT(60), ConstantTypes
  <2>2. CASE op[p] = "wait" BY ZenonT(60), <1>1, <1>2, <2>1, <2>2 DEF TypeOK, Label
  <2>3. CASE op[p] # "wait" BY ZenonT(60), <1>1, <1>2, <2>3 DEF TypeOK, Label
  <2>. QED BY ZenonT(60), <2>2, <2>3
<1>4. ASSUME NEW q \in Proc PROVE ThreadOK(q)'
  <2>1. ThreadOK(q) BY ZenonT(60) DEF IInv
  <2>2. CASE q = p
    BY SMTT(60), Z3T(60), SMTT(61), <1>1, <1>2, <2>2 DEF TypeOK, ThreadOK, Forking, InLoop, InCow, Counted, Uncounted, Cur
  <2>3. CASE q # p
    BY ZenonT(60), <1>1, <1>2, <2>1, <2>3, Undisturbed DEF TypeOK
  <2>. QED BY ZenonT(60), <2>2, <2>3
<1>5. OneForker' BY ZenonT(60), <1>1, <1>2, SameForkers DEF TypeOK, Forking, InLoop
<1>6. /\ \A f \in Frame : Mapped(f)' = Mapped(f) /\ Holding(f)' = Holding(f)
      /\ \A q \in Proc : pc'[q] \in Uncounted <=> pc[q] \in Uncounted
  <2>1. /\ \A q \in Proc : pc[q] = "copyinc" \/ pc'[q] = "copyinc" =>
             pc'[q] = pc[q] /\ ix'[q] = ix[q] /\ peer'[q] = peer[q]
        /\ \A q \in Proc : pc'[q] \in Uncounted <=> pc[q] \in Uncounted
        /\ \A q \in Proc : pc'[q] \in Counted <=> pc[q] \in Counted
    BY SMTT(60), Z3T(60), <1>1, <1>2 DEF TypeOK, Counted, Uncounted
  <2>2. \A f \in Frame : Mapped(f)' = Mapped(f)
    BY ZenonT(60), <2>1, <1>1 DEF Mapped, Cur
  <2>. QED BY ZenonT(60), <2>1, <2>2, <1>1 DEF Holding
<1>7. HandsOK' /\ RefCountExact' /\ WritableIsPrivate' /\ NoLeak'
  <2>1. HandsOK /\ RefCountExact /\ WritableIsPrivate /\ NoLeak BY ZenonT(60) DEF IInv
  <2>2. UNCHANGED <<map, perm, temp, freelist, hand>> BY ZenonT(60), <1>1
  <2>3. HandsOK' BY ZenonT(60), <1>6, <2>1, <2>2 DEF HandsOK
  <2>4. RefCountExact' BY ZenonT(60), <1>6, <2>1, <2>2 DEF RefCountExact
  <2>5. WritableIsPrivate' BY SMTT(60), Z3T(60), <2>1, <2>2 DEF WritableIsPrivate
  <2>6. NoLeak' BY ZenonT(60), <2>1, <2>2 DEF NoLeak
  <2>. QED BY ZenonT(60), <2>3, <2>4, <2>5, <2>6
<1>8. NoJunkMapped'
  <2>1. NoJunkMapped BY ZenonT(60) DEF IInv
  <2>. QED BY ZenonT(60), <1>1, <1>2, <2>1, CleanStore
<1>. QED BY ZenonT(60), <1>3, <1>4, <1>5, <1>7, <1>8 DEF IInv

\* A permutation of the page table entries keeps cardinalities.
LEMMA CardSwap ==
  ASSUME NEW X, NEW S \in SUBSET X, NEW T \in SUBSET X, IsFiniteSet(S),
         NEW sw \in [X -> X], \A s \in X : sw[sw[s]] = s,
         \A s \in X : s \in S <=> sw[s] \in T
  PROVE  Cardinality(T) = Cardinality(S)
<1>. DEFINE F == [s \in S |-> sw[s]]
<1>1. F \in [S -> T] OBVIOUS
<1>2. \A a, b \in S : F[a] = F[b] => a = b
  <2>1. \A a \in S : sw[F[a]] = a OBVIOUS
  <2>. QED BY <2>1
<1>3. \A y \in T : \E s \in S : F[s] = y
  <2>. SUFFICES ASSUME NEW y \in T PROVE \E s \in S : F[s] = y
    OBVIOUS
  <2>1. sw[y] \in S /\ F[sw[y]] = y OBVIOUS
  <2>. QED BY <2>1
<1>. HIDE DEF F
<1>4. F \in Injection(S, T)
  BY ZenonT(60), <1>1, <1>2 DEF Injection, IsInjective
<1>5. F \in Surjection(S, T)
  BY ZenonT(60), <1>1, <1>3 DEF Surjection
<1>6. ExistsBijection(S, T)
  BY ZenonT(60), <1>4, <1>5 DEF ExistsBijection, Bijection
<1>. QED BY <1>6, FS_Bijection

\* exec commits: the two tables of the process change places.
LEMMA CommitStep ==
  ASSUME IInv, NEW p \in Proc, AllocDone(p), op[p] = "exec"
  PROVE  IInv'
<1>0. PICK n, z : n = sz[p] /\ z = lim[p]
  OBVIOUS
<1>1. /\ pc[p] = "alloc"
      /\ sz' = [sz EXCEPT ![p] = z]
      /\ map' = [map EXCEPT ![Cur(p)] = map[New(p)], ![New(p)] = map[Cur(p)]]
      /\ perm' = [perm EXCEPT ![Cur(p)] = perm[New(p)], ![New(p)] = perm[Cur(p)]]
      /\ pc' = [pc EXCEPT ![p] = "unmap"]
      /\ ix' = [ix EXCEPT ![p] = 0] /\ lim' = [lim EXCEPT ![p] = n]
      /\ UNCHANGED <<state, parent, killed, content, temp, freelist, op, hand, peer, val, panicked>>
  BY ZenonT(60), <1>0 DEF AllocDone, StartUnmap, Goto, allocVars
<1>2. /\ TypeOK /\ (\A q \in Proc : ThreadOK(q)) /\ n \in 0 .. NV /\ z \in 0 .. NV /\ 0 \in 0 .. NV
      /\ Cur(p) \in Table /\ New(p) \in Table /\ Cur(p) # New(p)
  BY ZenonT(60), <1>0, ConstantTypes DEF IInv, TypeOK, Cur, New, Table
<1>3. /\ map'[Cur(p)] = map[New(p)] /\ map'[New(p)] = map[Cur(p)]
      /\ perm'[Cur(p)] = perm[New(p)] /\ perm'[New(p)] = perm[Cur(p)]
      /\ \A u \in Table : u # Cur(p) /\ u # New(p) => map'[u] = map[u] /\ perm'[u] = perm[u]
  BY ZenonT(60), <1>1, <1>2 DEF TypeOK
<1>4. \A q \in Proc \ {p} : /\ pc'[q] = pc[q] /\ op'[q] = op[q] /\ ix'[q] = ix[q] /\ lim'[q] = lim[q]
                            /\ peer'[q] = peer[q] /\ hand'[q] = hand[q]
  BY ZenonT(60), <1>1, <1>2 DEF TypeOK
<1>5. pc'[p] = "unmap" BY ZenonT(60), <1>1, <1>2 DEF TypeOK
<1>6. TypeOK'
  <2>1. map' \in [Table -> [VA -> Frame \cup {NoFrame}]] BY ZenonT(60), <1>1, <1>2 DEF TypeOK
  <2>2. perm' \in [Table -> [VA -> Flags]] BY ZenonT(60), <1>1, <1>2 DEF TypeOK
  <2>. QED BY ZenonT(60), <1>1, <1>2, <2>1, <2>2 DEF TypeOK, Label
<1>7. ASSUME NEW q \in Proc PROVE ThreadOK(q)'
  <2>1. ThreadOK(q) BY ZenonT(60), <1>2
  <2>2. CASE q = p
    BY ZenonT(60), <1>1, <1>5, <2>1, <2>2 DEF ThreadOK, Forking, InLoop, InCow, Counted, Uncounted, Cur
  <2>3. CASE q # p
    <3>1. Cur(q) \in Table /\ Cur(q) # Cur(p) /\ Cur(q) # New(p) BY ZenonT(60), <2>3 DEF Cur, New, Table
    <3>2. pc[q] = "copyinc" => peer[q] \in Proc /\ peer[q] # p
      BY ZenonT(60), <1>1, <1>2, <2>1 DEF ThreadOK, Forking, InLoop
    <3>3. pc[q] = "copyinc" => map'[Cur(peer[q])] = map[Cur(peer[q])]
      <4>1. pc[q] = "copyinc" => Cur(peer[q]) \in Table /\ Cur(peer[q]) # Cur(p) /\ Cur(peer[q]) # New(p)
        BY ZenonT(60), <3>2 DEF Cur, New, Table
      <4>. QED BY ZenonT(60), <1>3, <4>1
    <3>4. map'[Cur(q)] = map[Cur(q)] BY ZenonT(60), <1>3, <3>1
    <3>5. UNCHANGED <<state, parent>> BY ZenonT(60), <1>1
    <3>. QED BY ZenonT(60), <1>4, <2>1, <2>3, <3>3, <3>4, <3>5, Undisturbed
  <2>. QED BY <2>2, <2>3
<1>8. OneForker'
  BY ZenonT(60), <1>1, <1>4, <1>5, SameForkers DEF Forking
<1>9. HandsOK'
  BY ZenonT(60), <1>1, <1>4, <1>5 DEF IInv, HandsOK, Uncounted
<1>. DEFINE X == Table \X VA
            flip(u) == IF u = Cur(p) THEN New(p) ELSE IF u = New(p) THEN Cur(p) ELSE u
            sw == [s \in X |-> <<flip(s[1]), s[2]>>]
<1>10. \A u \in Table : flip(u) \in Table /\ flip(flip(u)) = u /\ map'[flip(u)] = map[u]
  BY ZenonT(60), <1>2, <1>3
<1>11. RefCountExact'
  <2>. SUFFICES ASSUME NEW g \in Frame
                PROVE  temp'[g] = Cardinality(Mapped(g)') + Cardinality(Holding(g)')
    BY ZenonT(60) DEF RefCountExact
  <2>1. Holding(g)' = Holding(g) BY ZenonT(60), <1>1, <1>4, <1>5 DEF Holding, Counted
  <2>2. sw \in [X -> X] /\ \A s \in X : sw[sw[s]] = s
    <3>. HIDE DEF flip
    <3>. QED BY SMTT(60), Z3T(60), <1>10
  <2>3. \A s \in X : s \in Mapped(g) <=> sw[s] \in Mapped(g)'
    <3>. SUFFICES ASSUME NEW s \in X PROVE s \in Mapped(g) <=> sw[s] \in Mapped(g)'
      BY ZenonT(60)
    <3>1. sw[s] = <<flip(s[1]), s[2]>> /\ sw[s] \in X /\ s[1] \in Table /\ s[2] \in VA
          /\ s = <<s[1], s[2]>>
      BY ZenonT(60), <2>2
    <3>2. map'[sw[s][1]][sw[s][2]] = map[s[1]][s[2]]
      BY ZenonT(60), <1>10, <3>1
    <3>3. \A q \in Proc : pc[q] = "copyinc" \/ pc'[q] = "copyinc" =>
            /\ pc'[q] = pc[q] /\ ix'[q] = ix[q] /\ peer'[q] = peer[q]
            /\ Cur(peer[q]) # Cur(p) /\ Cur(peer[q]) # New(p)
      <4>1. \A q \in Proc : pc[q] = "copyinc" => Cur(peer[q]) # Cur(p) BY ZenonT(60), <1>1, OwnTable
      <4>2. \A r : Cur(r) # New(p) BY ZenonT(60) DEF Cur, New
      <4>. QED BY ZenonT(60), <1>1, <1>4, <1>5, <4>1, <4>2
    <3>4. \A q \in Proc : pc[q] = "copyinc" =>
            (s = <<Cur(peer[q]), ix[q]>> <=> sw[s] = <<Cur(peer[q]), ix[q]>>)
      BY SMTT(60), Z3T(60), SMTT(61), <3>1, <3>3
    <3>5. (\E q \in Proc : pc[q] = "copyinc" /\ s = <<Cur(peer[q]), ix[q]>>)
            <=> (\E q \in Proc : pc'[q] = "copyinc" /\ sw[s] = <<Cur(peer'[q]), ix'[q]>>)
      BY SMTT(60), Z3T(60), SMTT(61), <3>3, <3>4
    <3>. HIDE DEF sw, flip
    <3>6. sw[s] \in Mapped(g)' <=> /\ map'[sw[s][1]][sw[s][2]] = g
                                   /\ ~\E q \in Proc : pc'[q] = "copyinc" /\ sw[s] = <<Cur(peer'[q]), ix'[q]>>
      BY ZenonT(60), <3>1 DEF Mapped, Cur
    <3>. QED BY ZenonT(60), <3>2, <3>5, <3>6 DEF Mapped
  <2>4. Mapped(g) \in SUBSET X /\ Mapped(g)' \in SUBSET X BY ZenonT(60) DEF Mapped
  <2>5. IsFiniteSet(Mapped(g)) BY ZenonT(60), <2>4, SlotsFinite
  <2>. HIDE DEF sw, X
  <2>6. Cardinality(Mapped(g)') = Cardinality(Mapped(g))
    BY SMTT(60), Z3T(60), SMTT(61), <2>2, <2>3, <2>4, <2>5, CardSwap
  <2>. QED BY ZenonT(60), <1>1, <2>1, <2>6 DEF IInv, RefCountExact
<1>12. WritableIsPrivate'
  <2>. SUFFICES ASSUME NEW u1 \in Table, NEW u2 \in Table, NEW w1 \in VA, NEW w2 \in VA,
                       map'[u1][w1] # NoFrame, "W" \in perm'[u1][w1], map'[u2][w2] = map'[u1][w1]
                PROVE  u1 = u2 /\ w1 = w2
    BY SMTT(60), Z3T(60) DEF WritableIsPrivate
  <2>1. /\ flip(u1) \in Table /\ flip(u2) \in Table /\ flip(flip(u1)) = u1 /\ flip(flip(u2)) = u2
        /\ map'[u1] = map[flip(u1)] /\ map'[u2] = map[flip(u2)] /\ perm'[u1] = perm[flip(u1)]
    BY ZenonT(60), <1>2, <1>3
  <2>. HIDE DEF flip
  <2>. QED BY SMTT(60), Z3T(60), SMTT(61), <2>1 DEF IInv, WritableIsPrivate
<1>13. NoJunkMapped'
  <2>. SUFFICES ASSUME NEW u \in Table, NEW w \in VA, map'[u][w] # NoFrame
                PROVE  content'[map'[u][w]] # Junk
    BY ZenonT(60) DEF NoJunkMapped
  <2>1. flip(u) \in Table /\ map'[u] = map[flip(u)]
    BY ZenonT(60), <1>2, <1>3
  <2>. HIDE DEF flip
  <2>. QED BY ZenonT(60), <1>1, <2>1 DEF IInv, NoJunkMapped
<1>14. NoLeak'
  BY ZenonT(60), <1>1 DEF IInv, NoLeak
<1>. QED BY ZenonT(60), <1>6, <1>7, <1>8, <1>9, <1>11, <1>12, <1>13, <1>14 DEF IInv

\* The end of uvmalloc: growproc returns, or exec commits.
LEMMA AllocDoneStep ==
  ASSUME IInv, NEW p \in Proc, AllocDone(p)
  PROVE  IInv'
<1>1. CASE op[p] # "exec"
  <2>1. sz' \in [Proc -> 0 .. NV] BY ZenonT(60) DEF AllocDone, IInv, TypeOK
  <2>. QED BY ZenonT(60), <1>1, <2>1, ReturnStep DEF AllocDone, Goto, tableVars, allocVars
<1>. QED BY ZenonT(60), <1>1, CommitStep

\* The flags uvmcopy gives to both mappings: no longer writable, copied on write.
LEMMA CowFlags ==
  ASSUME NEW P \in Flags
  PROVE  LET fl == IF "W" \in P THEN (P \ {"W"}) \cup {"COW"} ELSE P
         IN  fl \in Flags /\ "W" \notin fl
BY SMTT(60), Z3T(60) DEF Flags

\* uvmcopy marks the page of the parent, and maps it in the child uncounted.
LEMMA CopyPageStep ==
  ASSUME IInv, NEW p \in Proc, CopyPage(p)
  PROVE  IInv'
<1>1. CASE Panic("uvmcopy: page not present") \/ Panic("mappages: remap")
  BY ZenonT(60), <1>1, PanicStep DEF PanicMsg
<1>2. CASE ~(Panic("uvmcopy: page not present") \/ Panic("mappages: remap"))
  <2>0. PICK c, v, f, fl, n :
          /\ c = peer[p] /\ v = ix[p] /\ f = map[Cur(p)][v] /\ n = lim[p]
          /\ fl = IF "W" \in perm[Cur(p)][v] THEN (perm[Cur(p)][v] \ {"W"}) \cup {"COW"}
                  ELSE perm[Cur(p)][v]
    BY ZenonT(60)
  <2>1. /\ pc[p] = "copy" /\ v < n /\ f # NoFrame /\ map[Cur(c)][v] = NoFrame
        /\ \/ /\ map' = [map EXCEPT ![Cur(c)][v] = f]
              /\ perm' = [perm EXCEPT ![Cur(p)][v] = fl, ![Cur(c)][v] = fl]
              /\ pc' = [pc EXCEPT ![p] = "copyinc"] /\ UNCHANGED <<ix, lim>>
           \/ /\ perm' = [perm EXCEPT ![Cur(p)][v] = fl] /\ UNCHANGED map
              /\ pc' = [pc EXCEPT ![p] = "unmap"]
              /\ ix' = [ix EXCEPT ![p] = 0] /\ lim' = [lim EXCEPT ![p] = v]
        /\ UNCHANGED <<state, sz, parent, killed, content, temp, freelist, op, hand, peer, val, panicked>>
    BY ZenonT(60), <1>2, <2>0 DEF CopyPage, StartUnmap, Goto, procVars, allocVars
  <2>2. /\ TypeOK /\ (\A q \in Proc : ThreadOK(q)) /\ c \in Proc /\ state[c] = "USED" /\ op[p] = "fork"
        /\ Forking(p) /\ c # p
    BY ZenonT(60), <2>0, <2>1 DEF IInv, ThreadOK, Forking, InLoop
  <2>3. v \in VA /\ v \in 0 .. NV /\ n \in 0 .. NV /\ 0 \in 0 .. NV
    <3>1. v \in 0 .. NV /\ n \in 0 .. NV BY ZenonT(60), <2>0, <2>2 DEF TypeOK
    <3>2. v < n BY ZenonT(60), <2>1
    <3>3. NV \in Nat BY ZenonT(60), ConstantTypes
    <3>. QED BY SMTT(60), Z3T(60), SMTT(61), <3>1, <3>2, <3>3 DEF VA
  <2>4. /\ Cur(p) \in Table /\ Cur(c) \in Table /\ Cur(c) # Cur(p)
    BY ZenonT(60), <2>2 DEF Cur, Table
  <2>5. f \in Frame /\ fl \in Flags /\ "W" \notin fl
    <3>1. map[Cur(p)][v] \in Frame \cup {NoFrame} /\ perm[Cur(p)][v] \in Flags
      <4>1. map \in [Table -> [VA -> Frame \cup {NoFrame}]] /\ perm \in [Table -> [VA -> Flags]]
        BY ZenonT(60), <2>2 DEF TypeOK
      <4>. QED BY SMTT(60), Z3T(60), SMTT(61), <2>3, <2>4, <4>1
    <3>2. f \in Frame BY ZenonT(60), <2>0, <2>1, <3>1
    <3>3. fl \in Flags /\ "W" \notin fl
      BY ZenonT(60), <2>0, <3>1, CowFlags
    <3>. QED BY ZenonT(60), <3>2, <3>3
  <2>6. \A q \in Proc \ {p} : /\ pc'[q] = pc[q] /\ op'[q] = op[q] /\ ix'[q] = ix[q] /\ lim'[q] = lim[q]
                              /\ peer'[q] = peer[q] /\ hand'[q] = hand[q]
    BY ZenonT(60), <2>1, <2>2 DEF TypeOK
  <2>7. pc'[p] \in {"copyinc", "unmap"} /\ hand'[p] = NoFrame
    <3>1. hand[p] = NoFrame /\ pc \in [Proc -> Label]
      BY ZenonT(60), <2>1, <2>2 DEF TypeOK, ThreadOK, Uncounted, Counted
    <3>2. pc' = [pc EXCEPT ![p] = "copyinc"] \/ pc' = [pc EXCEPT ![p] = "unmap"] BY ZenonT(60), <2>1
    <3>3. pc'[p] \in {"copyinc", "unmap"} BY ZenonT(60), <3>1, <3>2
    <3>. QED BY ZenonT(60), <2>1, <3>1, <3>3
  <2>8. /\ \A u \in Table, w \in VA : u # Cur(c) \/ w # v => map'[u][w] = map[u][w]
        /\ IF pc'[p] = "copyinc" THEN map'[Cur(c)][v] = f /\ ix'[p] = v /\ lim'[p] = n
                                 ELSE map'[Cur(c)][v] = NoFrame
    BY SMTT(60), Z3T(60), SMTT(61), <2>0, <2>1, <2>2, <2>3, <2>4 DEF TypeOK
  <2>9. \A u \in Table, w \in VA :
          "W" \in perm'[u][w] => perm'[u][w] = perm[u][w] /\ (u # Cur(p) \/ w # v)
                                 /\ (pc'[p] = "copyinc" => u # Cur(c) \/ w # v)
    <3>1. CASE pc'[p] = "copyinc"
      <4>1. perm' = [perm EXCEPT ![Cur(p)][v] = fl, ![Cur(c)][v] = fl]
        BY ZenonT(60), <2>1, <2>2, <3>1 DEF TypeOK
      <4>. QED BY ZenonT(60), <2>2, <2>3, <2>4, <2>5, <4>1 DEF TypeOK
    <3>2. CASE pc'[p] # "copyinc"
      <4>1. perm' = [perm EXCEPT ![Cur(p)][v] = fl]
        BY ZenonT(60), <2>1, <2>2, <3>2 DEF TypeOK
      <4>. QED BY ZenonT(60), <2>2, <2>3, <2>4, <2>5, <3>2, <4>1 DEF TypeOK
    <3>. QED BY ZenonT(60), <3>1, <3>2
  <2>10. TypeOK'
    <3>0. /\ map' = map \/ map' = [map EXCEPT ![Cur(c)][v] = f]
          /\ perm' = [perm EXCEPT ![Cur(p)][v] = fl, ![Cur(c)][v] = fl] \/ perm' = [perm EXCEPT ![Cur(p)][v] = fl]
          /\ pc' = [pc EXCEPT ![p] = "copyinc"] \/ pc' = [pc EXCEPT ![p] = "unmap"]
          /\ ix' = ix \/ ix' = [ix EXCEPT ![p] = 0]
          /\ lim' = lim \/ lim' = [lim EXCEPT ![p] = v]
      BY ZenonT(60), <2>1
    <3>1. map' \in [Table -> [VA -> Frame \cup {NoFrame}]]
      <4>1. map \in [Table -> [VA -> Frame \cup {NoFrame}]] BY ZenonT(60), <2>2 DEF TypeOK
      <4>. QED BY SMTT(60), Z3T(60), SMTT(61), <2>3, <2>4, <2>5, <3>0, <4>1
    <3>2. perm' \in [Table -> [VA -> Flags]]
      <4>1. perm \in [Table -> [VA -> Flags]] BY ZenonT(60), <2>2 DEF TypeOK
      <4>2. PICK mid : mid = [perm EXCEPT ![Cur(p)][v] = fl] BY ZenonT(60)
      <4>3. mid \in [Table -> [VA -> Flags]] BY ZenonT(60), <2>5, <4>1, <4>2
      <4>4. perm' = mid \/ perm' = [mid EXCEPT ![Cur(c)][v] = fl] BY ZenonT(60), <3>0, <4>2
      <4>. QED BY SMTT(60), Z3T(60), SMTT(61), <2>5, <4>3, <4>4
    <3>3. pc' \in [Proc -> Label]
      <4>1. pc \in [Proc -> Label] BY ZenonT(60), <2>2 DEF TypeOK
      <4>. QED BY ZenonT(60), <3>0, <4>1 DEF Label
    <3>4. ix' \in [Proc -> 0 .. NV] /\ lim' \in [Proc -> 0 .. NV]
      <4>1. ix \in [Proc -> 0 .. NV] /\ lim \in [Proc -> 0 .. NV] BY ZenonT(60), <2>2 DEF TypeOK
      <4>. QED BY ZenonT(60), <2>3, <3>0, <4>1
    <3>. QED BY ZenonT(60), <2>1, <2>2, <3>1, <3>2, <3>3, <3>4 DEF TypeOK
  <2>11. ThreadOK(p)'
    <3>1. ThreadOK(p) BY ZenonT(60), <2>2
    <3>2. pc'[p] = "copyinc" => /\ map'[Cur(p)][ix'[p]] # NoFrame /\ ix'[p] < lim'[p]
                                /\ map'[Cur(peer'[p])][ix'[p]] = map'[Cur(p)][ix'[p]]
      <4>1. map'[Cur(p)][v] = f BY ZenonT(60), <2>0, <2>3, <2>4, <2>8
      <4>. QED BY ZenonT(60), <2>0, <2>1, <2>8, <4>1
    <3>. QED BY ZenonT(60), <2>1, <2>7, <3>1, <3>2 DEF ThreadOK, Forking, InLoop, InCow, Counted, Uncounted, Cur
  <2>12. \A q \in Proc \ {p} : ThreadOK(q)'
    <3>1. \A u \in Table : u # Cur(c) => map'[u] = map[u] BY ZenonT(60), <2>1, <2>2 DEF TypeOK
    <3>2. UNCHANGED <<state, parent>> BY ZenonT(60), <2>1
    <3>3. \A q \in Proc \ {p} : pc[q] # "dead" => Cur(c) # Cur(q) /\ (Forking(q) => Cur(c) # Cur(peer[q]))
      <4>1. pc[p] \in InLoop /\ Target(p) = Cur(c) BY ZenonT(60), <2>0, <2>1, <2>2 DEF InLoop, Target
      <4>. QED BY ZenonT(60), <4>1, TargetPrivate
    <3>. QED BY SMTT(60), Z3T(60), SMTT(61), <2>6, <3>1, <3>2, <3>3, OthersOK
  <2>13. OneForker'
    <3>1. Forking(p)' => Forking(p) /\ peer'[p] = peer[p] BY ZenonT(60), <2>1, <2>2
    <3>. QED BY ZenonT(60), <2>6, <3>1, SameForkers
  <2>14. HandsOK'
    BY ZenonT(60), <2>1, <2>6, <2>7 DEF IInv, HandsOK, Uncounted
  <2>15. RefCountExact'
    <3>. SUFFICES ASSUME NEW g \in Frame
                  PROVE  Mapped(g)' = Mapped(g) /\ Holding(g)' = Holding(g)
      BY ZenonT(60), <2>1 DEF IInv, RefCountExact
    <3>1. Holding(g)' = Holding(g) BY ZenonT(60), <2>1, <2>6, <2>7 DEF Holding, Counted
    <3>2. g # NoFrame BY ZenonT(60), ConstantTypes
    <3>3. ASSUME NEW s \in Table \X VA
          PROVE  s \in Mapped(g)' <=> s \in Mapped(g)
      <4>1. s[1] \in Table /\ s[2] \in VA /\ s = <<s[1], s[2]>> BY SMTT(60), Z3T(60)
      <4>2. \A q \in Proc \ {p} : (pc'[q] = "copyinc" /\ s = <<Cur(peer'[q]), ix'[q]>>)
                                  <=> (pc[q] = "copyinc" /\ s = <<Cur(peer[q]), ix[q]>>)
        BY ZenonT(60), <2>6
      <4>3. CASE s = <<Cur(c), v>>
        <5>1. s \notin Mapped(g) BY ZenonT(60), <2>1, <3>2, <4>1, <4>3 DEF Mapped
        <5>2. CASE pc'[p] = "copyinc"
          <6>1. s = <<Cur(peer'[p]), ix'[p]>> BY ZenonT(60), <2>0, <2>1, <2>8, <4>3, <5>2
          <6>. QED BY ZenonT(60), <5>1, <5>2, <6>1 DEF Mapped, Cur
        <5>3. CASE pc'[p] # "copyinc"
          <6>1. map'[s[1]][s[2]] # g BY ZenonT(60), <2>8, <3>2, <4>3, <5>3
          <6>. QED BY ZenonT(60), <5>1, <6>1 DEF Mapped
        <5>. QED BY ZenonT(60), <5>2, <5>3
      <4>4. CASE s # <<Cur(c), v>>
        <5>1. map'[s[1]][s[2]] = map[s[1]][s[2]] BY ZenonT(60), <2>8, <4>1, <4>4
        <5>2. ~(pc'[p] = "copyinc" /\ s = <<Cur(peer'[p]), ix'[p]>>)
          BY ZenonT(60), <2>0, <2>1, <2>8, <4>4
        <5>3. ~(pc[p] = "copyinc") BY ZenonT(60), <2>1
        <5>4. (\E q \in Proc : pc'[q] = "copyinc" /\ s = <<Cur(peer'[q]), ix'[q]>>)
                <=> (\E q \in Proc : pc[q] = "copyinc" /\ s = <<Cur(peer[q]), ix[q]>>)
          BY ZenonT(60), <4>2, <5>2, <5>3
        <5>. QED BY ZenonT(60), <5>1, <5>4 DEF Mapped, Cur
      <4>. QED BY ZenonT(60), <4>3, <4>4
    <3>4. Mapped(g)' \subseteq Table \X VA /\ Mapped(g) \subseteq Table \X VA BY ZenonT(60) DEF Mapped
    <3>. QED BY ZenonT(60), <3>1, <3>3, <3>4
  <2>16. WritableIsPrivate'
    <3>. SUFFICES ASSUME NEW u1 \in Table, NEW u2 \in Table, NEW w1 \in VA, NEW w2 \in VA,
                         map'[u1][w1] # NoFrame, "W" \in perm'[u1][w1], map'[u2][w2] = map'[u1][w1]
                  PROVE  u1 = u2 /\ w1 = w2
      BY SMTT(60), Z3T(60) DEF WritableIsPrivate
    <3>1. /\ "W" \in perm[u1][w1] /\ (u1 # Cur(p) \/ w1 # v) /\ (u1 # Cur(c) \/ w1 # v)
          /\ map'[u1][w1] = map[u1][w1]
      <4>1. u1 = Cur(c) /\ w1 = v => pc'[p] = "copyinc" BY ZenonT(60), <2>8
      <4>. QED BY ZenonT(60), <2>8, <2>9, <4>1
    <3>2. map[u1][w1] # f
      <4>1. WritableIsPrivate BY ZenonT(60) DEF IInv
      <4>2. f = map[Cur(p)][v] BY ZenonT(60), <2>0
      <4>3. map[u1][w1] # NoFrame BY ZenonT(60), <3>1
      <4>. QED BY SMTT(60), Z3T(60), SMTT(61), <2>3, <2>4, <3>1, <4>1, <4>2, <4>3 DEF WritableIsPrivate
    <3>3. u2 # Cur(c) \/ w2 # v
      BY ZenonT(60), <2>7, <2>8, <3>1, <3>2
    <3>4. WritableIsPrivate BY ZenonT(60) DEF IInv
    <3>. QED BY SMTT(60), Z3T(60), SMTT(61), <2>8, <3>1, <3>3, <3>4 DEF WritableIsPrivate
  <2>17. NoJunkMapped'
    <3>. SUFFICES ASSUME NEW u \in Table, NEW w \in VA, map'[u][w] # NoFrame
                  PROVE  content[map'[u][w]] # Junk
      BY ZenonT(60), <2>1 DEF NoJunkMapped
    <3>1. CASE u = Cur(c) /\ w = v
      <4>1. map'[u][w] = map[Cur(p)][v] BY ZenonT(60), <2>0, <2>8, <3>1
      <4>. QED BY ZenonT(60), <2>3, <2>4, <4>1 DEF IInv, NoJunkMapped
    <3>2. CASE ~(u = Cur(c) /\ w = v)
      BY ZenonT(60), <2>8, <3>2 DEF IInv, NoJunkMapped
    <3>. QED BY ZenonT(60), <3>1, <3>2
  <2>18. NoLeak' BY ZenonT(60), <2>1 DEF IInv, NoLeak
  <2>. QED BY ZenonT(60), <2>10, <2>11, <2>12, <2>13, <2>14, <2>15, <2>16, <2>17, <2>18 DEF IInv
<1>. QED BY ZenonT(60), <1>1, <1>2

\* check_and_increment in uvmcopy: the entry of the child counts from now on.
LEMMA CopyIncrementStep ==
  ASSUME IInv, NEW p \in Proc, CopyIncrement(p)
  PROVE  IInv'
<1>0. PICK c, v, f : c = peer[p] /\ v = ix[p] /\ f = map[Cur(p)][v]
  BY ZenonT(60)
<1>1. /\ pc[p] = "copyinc"
      /\ temp' = [temp EXCEPT ![f] = temp[f] + 1]
      /\ ix' = [ix EXCEPT ![p] = v + 1]
      /\ pc' = [pc EXCEPT ![p] = "copy"]
      /\ UNCHANGED <<state, sz, parent, killed, map, perm, content, freelist, op, lim, hand, peer, val, panicked>>
  BY ZenonT(60), <1>0 DEF CopyIncrement, Increment, Goto, procVars, tableVars
<1>2. /\ TypeOK /\ (\A q \in Proc : ThreadOK(q)) /\ HandsOK /\ Forking(p) /\ c \in Proc
      /\ v < lim[p] /\ f # NoFrame /\ map[Cur(c)][v] = f /\ op[p] = "fork"
  BY ZenonT(60), <1>0, <1>1 DEF IInv, ThreadOK, Forking, InLoop
<1>3. v \in VA /\ v + 1 \in 0 .. NV
  BY SMTT(60), Z3T(60), SMTT(61), <1>0, <1>2, ConstantTypes DEF TypeOK, VA
<1>4. Cur(p) \in Table /\ Cur(c) \in Table
  BY ZenonT(60), <1>2 DEF Cur, Table
<1>5. f \in Frame /\ temp[f] > 0 /\ temp[f] \in Nat
  <2>1. f \in Frame BY SMTT(60), Z3T(60), SMTT(61), <1>0, <1>2, <1>3, <1>4 DEF TypeOK
  <2>2. temp[f] \in Nat BY ZenonT(60), <1>2, <2>1 DEF TypeOK
  <2>3. temp[f] # 0 BY ZenonT(60), <1>0, <1>3, <1>4, <2>1, ZeroUnused
  <2>. QED BY SMTT(60), Z3T(60), SMTT(61), <2>1, <2>2, <2>3
<1>6. /\ \A q \in Proc \ {p} : /\ pc'[q] = pc[q] /\ op'[q] = op[q] /\ ix'[q] = ix[q] /\ lim'[q] = lim[q]
                               /\ peer'[q] = peer[q] /\ hand'[q] = hand[q]
      /\ pc'[p] = "copy" /\ temp'[f] = temp[f] + 1 /\ \A g \in Frame \ {f} : temp'[g] = temp[g]
  BY ZenonT(60), <1>1, <1>2, <1>5 DEF TypeOK
<1>7. TypeOK' BY SMTT(60), Z3T(60), SMTT(61), <1>1, <1>2, <1>3, <1>5 DEF TypeOK, Label
<1>8. ThreadOK(p)'
  <2>1. ThreadOK(p) BY ZenonT(60), <1>2
  <2>. QED BY ZenonT(60), <1>1, <1>2, <1>6, <2>1 DEF ThreadOK, Forking, InLoop, InCow, Counted, Uncounted, Cur
<1>9. \A q \in Proc \ {p} : ThreadOK(q)'
  <2>. SUFFICES ASSUME NEW q \in Proc \ {p} PROVE ThreadOK(q)'
    BY ZenonT(60)
  <2>1. ThreadOK(q) BY ZenonT(60), <1>2
  <2>2. UNCHANGED <<state, parent, map>> BY ZenonT(60), <1>1
  <2>. QED BY ZenonT(60), <1>6, <2>1, <2>2, Undisturbed
<1>10. OneForker'
  BY ZenonT(60), <1>1, <1>2, <1>6, SameForkers
<1>11. HandsOK'
  <2>1. f \notin freelist BY SMTT(60), Z3T(60), SMTT(61), <1>2, <1>5 DEF HandsOK
  <2>2. \A g \in freelist' : temp'[g] = 0 BY ZenonT(60), <1>1, <1>2, <1>6, <2>1 DEF HandsOK, TypeOK
  <2>3. ASSUME NEW q \in Proc, pc'[q] \in Uncounted
        PROVE  /\ temp'[hand'[q]] = 0 /\ hand'[q] \notin freelist'
               /\ \A r \in Proc : r # q => hand'[r] # hand'[q]
    <3>1. q # p /\ pc[q] \in Uncounted BY ZenonT(60), <1>6, <2>3 DEF Uncounted
    <3>2. hand[q] \in Frame /\ hand[q] # f
      BY SMTT(60), Z3T(60), SMTT(61), <1>2, <1>5, <3>1 DEF HandsOK, ThreadOK, TypeOK
    <3>. QED BY SMTT(60), Z3T(60), SMTT(61), <1>1, <1>2, <1>6, <3>1, <3>2 DEF HandsOK
  <2>. QED BY ZenonT(60), <2>2, <2>3 DEF HandsOK
<1>12. RefCountExact'
  <2>. SUFFICES ASSUME NEW g \in Frame
                PROVE  temp'[g] = Cardinality(Mapped(g)') + Cardinality(Holding(g)')
    BY ZenonT(60) DEF RefCountExact
  <2>1. /\ temp[g] = Cardinality(Mapped(g)) + Cardinality(Holding(g))
        /\ Mapped(g) \in SUBSET (Table \X VA) /\ Holding(g) \in SUBSET Proc
    BY ZenonT(60) DEF IInv, RefCountExact, Mapped, Holding
  <2>2. /\ IsFiniteSet(Mapped(g)) /\ IsFiniteSet(Holding(g))
        /\ Cardinality(Mapped(g)) \in Nat /\ Cardinality(Holding(g)) \in Nat
    BY ZenonT(60), <2>1, SlotsFinite
  <2>3. Holding(g)' = Holding(g) BY ZenonT(60), <1>1, <1>6 DEF Holding, Counted
  <2>4. \A s : s # <<Cur(c), v>> =>
          ((\E q \in Proc : pc'[q] = "copyinc" /\ s = <<Cur(peer'[q]), ix'[q]>>)
             <=> (\E q \in Proc : pc[q] = "copyinc" /\ s = <<Cur(peer[q]), ix[q]>>))
    BY ZenonT(60), <1>0, <1>1, <1>6
  <2>5. ~\E q \in Proc : pc'[q] = "copyinc" /\ <<Cur(c), v>> = <<Cur(peer'[q]), ix'[q]>>
    <3>. SUFFICES ASSUME NEW q \in Proc, pc'[q] = "copyinc", <<Cur(c), v>> = <<Cur(peer'[q]), ix'[q]>>
                  PROVE  FALSE
      BY ZenonT(60)
    <3>1. q # p /\ pc[q] = "copyinc" /\ peer[q] = c BY ZenonT(60), <1>6 DEF Cur
    <3>2. Forking(q) BY ZenonT(60), <1>2, <3>1 DEF ThreadOK, Forking, InLoop
    <3>. QED BY ZenonT(60), <1>0, <1>2, <3>1, <3>2 DEF IInv, OneForker
  <2>6. <<Cur(c), v>> \notin Mapped(g)
    BY ZenonT(60), <1>0, <1>1 DEF Mapped
  <2>7. \A s \in Table \X VA : s # <<Cur(c), v>> => (s \in Mapped(g)' <=> s \in Mapped(g))
    BY ZenonT(60), <1>1, <2>4 DEF Mapped, Cur
  <2>8. <<Cur(c), v>> \in Mapped(g)' <=> g = f
    <3>1. <<Cur(c), v>> \in Table \X VA /\ map'[Cur(c)][v] = f BY ZenonT(60), <1>1, <1>2, <1>3, <1>4
    <3>. QED BY ZenonT(60), <2>5, <3>1 DEF Mapped, Cur
  <2>9. Mapped(g)' \subseteq Table \X VA BY ZenonT(60) DEF Mapped
  <2>10. CASE g = f
    <3>1. Mapped(g)' = Mapped(g) \cup {<<Cur(c), v>>}
      BY ZenonT(60), <2>1, <2>7, <2>8, <2>9, <2>10
    <3>2. Cardinality(Mapped(g)') = Cardinality(Mapped(g)) + 1
      BY ZenonT(60), <2>2, <2>6, <3>1, CardAdd
    <3>. QED BY SMTT(60), Z3T(60), SMTT(61), <1>6, <2>1, <2>2, <2>3, <2>10, <3>2
  <2>11. CASE g # f
    <3>1. <<Cur(c), v>> \notin Mapped(g)' BY ZenonT(60), <2>8, <2>11
    <3>2. \A s : s \in Mapped(g)' <=> s \in Mapped(g)
      BY ZenonT(60), <2>1, <2>6, <2>7, <2>9, <3>1
    <3>3. Mapped(g)' = Mapped(g) BY ZenonT(60), <3>2
    <3>. QED BY ZenonT(60), <1>6, <2>1, <2>3, <2>11, <3>3
  <2>. QED BY ZenonT(60), <2>10, <2>11
<1>13. WritableIsPrivate' /\ NoJunkMapped'
  BY SMTT(60), Z3T(60), SMTT(61), <1>1 DEF IInv, WritableIsPrivate, NoJunkMapped
<1>14. NoLeak'
  <2>1. \A g \in Frame : temp[g] > 0 => temp'[g] > 0 BY SMTT(60), Z3T(60), <1>5, <1>6
  <2>. QED BY ZenonT(60), <1>1, <2>1 DEF IInv, NoLeak
<1>. QED BY ZenonT(60), <1>7, <1>8, <1>9, <1>10, <1>11, <1>12, <1>13, <1>14 DEF IInv

\* The state after userinit satisfies the invariant.
LEMMA InitIInv == Init => IInv
<1>. SUFFICES ASSUME Init PROVE IInv
  BY ZenonT(60)
<1>1. PICK f \in Frame :
       /\ map = [t \in Table |-> [v \in VA |-> IF t = Cur(InitProc) /\ v = 0 THEN f ELSE NoFrame]]
       /\ perm = [t \in Table |-> [v \in VA |-> IF t = Cur(InitProc) /\ v = 0 THEN {"W", "U"} ELSE {}]]
       /\ content = [g \in Frame |-> IF g = f THEN InitCode ELSE Junk]
       /\ temp = [g \in Frame |-> IF g = f THEN 1 ELSE 0]
       /\ freelist = Frame \ {f}
  BY ZenonT(60) DEF Init
<1>2. /\ panicked = ""
      /\ state = [p \in Proc |-> IF p = InitProc THEN "LIVE" ELSE "UNUSED"]
      /\ sz = [p \in Proc |-> IF p = InitProc THEN 1 ELSE 0]
      /\ parent = [p \in Proc |-> NoProc]
      /\ killed = [p \in Proc |-> FALSE]
      /\ pc = [p \in Proc |-> IF p = InitProc THEN "user" ELSE "dead"]
      /\ op = [p \in Proc |-> "none"]
      /\ ix = [p \in Proc |-> 0] /\ lim = [p \in Proc |-> 0]
      /\ hand = [p \in Proc |-> NoFrame] /\ peer = [p \in Proc |-> NoProc]
      /\ val = [p \in Proc |-> Zero]
  BY ZenonT(60) DEF Init
<1>3. /\ f # NoFrame /\ Cur(InitProc) \in Table /\ 0 \in VA /\ NV \in Nat \ {0}
  BY SMTT(60), Z3T(60), ConstantsAssumption, ConstantTypes DEF Cur, Table, VA
<1>4. TypeOK
  <2>1. {"W", "U"} \in Flags /\ {} \in Flags BY ZenonT(60) DEF Flags
  <2>2. /\ map \in [Table -> [VA -> Frame \cup {NoFrame}]] /\ perm \in [Table -> [VA -> Flags]]
        /\ content \in [Frame -> Content] /\ temp \in [Frame -> Nat] /\ freelist \in SUBSET Frame
    BY ZenonT(60), <1>1, <2>1, ConstantTypes
  <2>3. killed \in [Proc -> BOOLEAN] BY ZenonT(60), <1>2
  <2>4. sz \in [Proc -> 0 .. NV] /\ ix \in [Proc -> 0 .. NV] /\ lim \in [Proc -> 0 .. NV]
    <3>1. 0 \in 0 .. NV /\ 1 \in 0 .. NV BY SMTT(60), Z3T(60), <1>3
    <3>2. /\ sz = [p \in Proc |-> IF p = InitProc THEN 1 ELSE 0]
          /\ ix = [p \in Proc |-> 0] /\ lim = [p \in Proc |-> 0]
      BY ZenonT(60), <1>2
    <3>. QED BY ZenonT(60), <3>1, <3>2
  <2>5. pc \in [Proc -> Label] /\ panicked \in PanicMsg BY ZenonT(60), <1>2 DEF Label, PanicMsg
  <2>6. /\ state \in [Proc -> {"UNUSED", "USED", "LIVE", "ZOMBIE"}]
        /\ parent \in [Proc -> Proc \cup {NoProc}] /\ peer \in [Proc -> Proc \cup {NoProc}]
        /\ hand \in [Proc -> Frame \cup {NoFrame}] /\ val \in [Proc -> KVal \cup {Zero}]
        /\ op \in [Proc -> {"none", "fault", "read", "wait", "fork", "grow", "shrink", "exec"}]
    BY ZenonT(60), <1>2
  <2>. QED BY ZenonT(60), <2>2, <2>3, <2>4, <2>5, <2>6 DEF TypeOK
<1>5. \A p \in Proc : ThreadOK(p)
  BY ZenonT(60), <1>2 DEF ThreadOK, Forking, InLoop, InCow, Uncounted, Counted
<1>6. OneForker
  BY ZenonT(60), <1>2 DEF OneForker, Forking, InLoop
<1>7. HandsOK
  BY ZenonT(60), <1>1, <1>2 DEF HandsOK, Uncounted
<1>8. RefCountExact
  <2>. SUFFICES ASSUME NEW g \in Frame
                PROVE  temp[g] = Cardinality(Mapped(g)) + Cardinality(Holding(g))
    BY ZenonT(60) DEF RefCountExact
  <2>1. Holding(g) = {} BY ZenonT(60), <1>2 DEF Holding, Counted
  <2>2. Cardinality(Holding(g)) = 0 BY ZenonT(60), <2>1, FS_EmptySet
  <2>3. g # NoFrame /\ \A q \in Proc : pc[q] # "copyinc" BY ZenonT(60), <1>2, ConstantTypes
  <2>4. CASE g = f
    <3>1. Mapped(g) = {<<Cur(InitProc), 0>>}
      BY SMTT(60), Z3T(60), SMTT(61), <1>1, <1>3, <2>3, <2>4 DEF Mapped
    <3>2. Cardinality(Mapped(g)) = 1 BY ZenonT(60), <3>1, FS_Singleton
    <3>. QED BY SMTT(60), Z3T(60), SMTT(61), <1>1, <2>2, <2>4, <3>2
  <2>5. CASE g # f
    <3>1. Mapped(g) = {} BY ZenonT(60), <1>1, <2>3, <2>5 DEF Mapped
    <3>2. Cardinality(Mapped(g)) = 0 BY <3>1, FS_EmptySet
    <3>. QED BY <1>1, <2>2, <2>5, <3>2
  <2>. QED BY ZenonT(60), <2>4, <2>5
<1>9. WritableIsPrivate /\ NoJunkMapped
  BY ZenonT(60), <1>1, <1>3, ConstantTypes DEF WritableIsPrivate, NoJunkMapped
<1>10. NoLeak
  BY SMTT(60), Z3T(60), <1>1 DEF NoLeak
<1>. QED BY ZenonT(60), <1>4, <1>5, <1>6, <1>7, <1>8, <1>9, <1>10 DEF IInv
=============================================================================
