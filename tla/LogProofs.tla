----------------------------- MODULE LogProofs -----------------------------
(***************************************************************************)
(* IInv of Log is an invariant for every number of threads and blocks and  *)
(* every size of the log, and Log implements AtomicDisk.                   *)
(***************************************************************************)
EXTENDS Log, FiniteSetTheorems, TLAPS

\* What a list of blocks is.
LEMMA Lists == ASSUME TypeOK
               PROVE  /\ Len(lh) \in Nat /\ \A i \in 1 .. Len(lh) : lh[i] \in Block
                      /\ Len(head) \in Nat /\ \A i \in 1 .. Len(head) : head[i] \in Block
BY SMTT(30) DEF TypeOK

\* An operation in progress is counted, so nobody commits.
LEMMA OpMeans == ASSUME IInv, Running, NEW t \in InOp
                 PROVE  /\ ~committing /\ Committer = {} /\ ~Installing
                        /\ boot = "up" /\ outstanding # 0
<1>1. outstanding # 0 BY FS_EmptySet, ZenonT(30) DEF IInv, CountOK
<1>2. ~committing /\ Committer = {} BY <1>1, ZenonT(30) DEF IInv, CountOK
<1>3. ~Installing BY <1>2, ZenonT(30) DEF Installing, Committer
<1>4. boot = "up" BY ZenonT(30) DEF IInv, CountOK, InOp
<1>. QED BY <1>1, <1>2, <1>3, <1>4

\* A thread that commits is alone, and no operation is in progress.
LEMMA CommitterMeans == ASSUME IInv, Running, NEW t \in Committer
                        PROVE  /\ committing /\ outstanding = 0 /\ Committer = {t}
                               /\ InOp = {} /\ boot = "up"
                               /\ \A b \in Block : held[b] = NoThread
                               /\ Installing <=> pc[t] = "install_trans"
<1>1. committing /\ outstanding = 0 /\ Committer = {t} BY ZenonT(30) DEF IInv, CountOK
<1>2. InOp = {} BY <1>1, FS_EmptySet, ZenonT(30) DEF IInv, CountOK
<1>3. boot = "up" BY ZenonT(30) DEF IInv, CountOK, Committer
<1>4. \A b \in Block : held[b] = NoThread
  <2>1. held \in [Block -> Thread \cup {NoThread}] /\ HeldOK BY ZenonT(30) DEF IInv, TypeOK
  <2>2. \A u \in Thread : pc[u] \notin {"log_write", "panic"} BY <1>2, ZenonT(30) DEF InOp, Running
  <2>. QED BY <2>1, <2>2, ZenonT(30) DEF HeldOK
<1>5. Installing <=> pc[t] = "install_trans"
  BY <1>1, ZenonT(30) DEF Installing, Committer
<1>. QED BY <1>1, <1>2, <1>3, <1>4, <1>5

\* What a step of t means for the sets of threads that the invariant speaks of: others
\* stay where they are, or are woken in begin_op.
LEMMA OthersStay ==
  ASSUME TypeOK, NEW t \in Thread,
         \A u \in Thread : u # t => pc'[u] = pc[u] \/ (pc[u] = "asleep" /\ pc'[u] = "begin")
  PROVE  /\ InOp' \ {t} = InOp \ {t} /\ Committer' \ {t} = Committer \ {t}
         /\ Running' /\ pc[t] # "panic" => Running
         /\ \A u \in Thread : u # t => (pc[u] = "install_trans" <=> pc'[u] = "install_trans")
         /\ \A u \in Thread : u # t => (pc[u] = "write_log" <=> pc'[u] = "write_log")
         /\ \A u \in Thread : u # t => (pc[u] = "done" <=> pc'[u] = "done")
BY ZenonT(30) DEF InOp, Committer, Running

\* Recovery happens with no thread running.
LEMMA DownMeans == ASSUME IInv, boot # "up"
                   PROVE  /\ InOp = {} /\ Committer = {} /\ ~Installing /\ Running
                          /\ pinned = {} /\ \A b \in Block : held[b] = NoThread
<1>1. \A t \in Thread : pc[t] = "down" BY ZenonT(30) DEF IInv, CountOK
<1>2. InOp = {} /\ Committer = {} /\ ~Installing /\ Running
  BY <1>1, ZenonT(30) DEF InOp, Committer, Installing, Running
<1>3. pinned = {} BY ZenonT(30) DEF IInv, PinOK
<1>4. \A b \in Block : held[b] = NoThread BY <1>1, ZenonT(30) DEF IInv, TypeOK, HeldOK
<1>. QED BY <1>2, <1>3, <1>4

\* The counts are right as long as the threads they are about are the same.
LEMMA SameCount ==
  ASSUME IInv, InOp' = InOp, Committer' = Committer, UNCHANGED <<outstanding, committing>>,
         Running' => Running, boot' # "up" => \A t \in Thread : pc'[t] = "down"
  PROVE  CountOK'
BY ZenonT(30) DEF IInv, CountOK

\* A system call changes nothing of the log.
LEMMA CallStep ==
  ASSUME IInv, NEW t \in Thread, Running, Call(t)
  PROVE  IInv'
<1>. USE LogAssumption DEF IInv, TypeOK, Call, disk, buffers, logVars, Goto
<1>1. TypeOK' BY SMTT(30) DEF Label
<1>2. ListOK(lh)' /\ ListOK(head)' BY SMTT(30) DEF ListOK
<1>4. CountOK'
  <2>1. InOp' = InOp /\ Committer' = Committer /\ (Running' => Running)
    BY ZenonT(30), <1>1 DEF InOp, Committer, Running
  <2>2. boot = "up" BY ZenonT(30) DEF CountOK
  <2>. QED BY ZenonT(30), <2>1, <2>2, SameCount
<1>5. HeldOK' BY SMTT(30) DEF HeldOK
<1>6. PinOK' BY SMTT(30) DEF PinOK, Installing
<1>7. CacheOK' BY SMTT(30) DEF CacheOK
<1>8. HeadOK' BY SMTT(30) DEF HeadOK, Installing
<1>9. CopiedOK' BY SMTT(30) DEF CopiedOK, Installing
<1>10. DoneOK' BY SMTT(30) DEF DoneOK
<1>. QED BY <1>1, <1>2, <1>4, <1>5, <1>6, <1>7, <1>8, <1>9, <1>10

\* begin_op counts the operation, or sleeps.
LEMMA begin_opStep ==
  ASSUME IInv, NEW t \in Thread, Running, begin_op(t)
  PROVE  IInv'
<1>0. /\ pc[t] = "begin"
      /\ \/ pc' = [pc EXCEPT ![t] = "asleep"] /\ UNCHANGED outstanding
         \/ pc' = [pc EXCEPT ![t] = "op"] /\ outstanding' = outstanding + 1 /\ ~committing
      /\ wrote' = [wrote EXCEPT ![t] = {}]
      /\ UNCHANGED <<disk, buffers, lh, committing, tail, boot, crashes>>
  BY ZenonT(30) DEF begin_op, Goto
<1>. USE LogAssumption, <1>0 DEF IInv, TypeOK, disk, buffers
<1>1. TypeOK' BY SMTT(30) DEF Label
<1>2. ListOK(lh)' /\ ListOK(head)' BY SMTT(30) DEF ListOK
<1>4. CountOK'
  <2>1. t \notin InOp /\ Committer' = Committer /\ (Running' => Running) /\ boot' = "up"
    BY ZenonT(30), <1>1 DEF CountOK, InOp, Committer, Running
  <2>2. CASE pc'[t] = "asleep"
    <3>1. InOp' = InOp /\ UNCHANGED <<outstanding, committing>> BY ZenonT(30), <2>2 DEF InOp
    <3>. QED BY ZenonT(30), <2>1, <3>1, SameCount
  <2>3. CASE pc'[t] # "asleep"
    <3>1. InOp' = InOp \cup {t} /\ outstanding' = outstanding + 1 /\ ~committing /\ ~committing'
      BY SMTT(30), <2>3 DEF InOp
    <3>2. IsFiniteSet(InOp) /\ outstanding = Cardinality(InOp) BY ZenonT(30) DEF CountOK
    <3>3. IsFiniteSet(InOp') /\ Cardinality(InOp') = Cardinality(InOp) + 1
      BY ZenonT(30), <2>1, <3>1, <3>2, FS_AddElement
    <3>. QED BY ZenonT(30), <2>1, <3>1, <3>2, <3>3 DEF CountOK
  <2>. QED BY ZenonT(30), <2>2, <2>3
<1>5. HeldOK' BY SMTT(30) DEF HeldOK
<1>6. PinOK' BY SMTT(30) DEF PinOK, Installing
<1>7. CacheOK' BY SMTT(30) DEF CacheOK
<1>8. HeadOK' BY SMTT(30) DEF HeadOK, Installing
<1>9. CopiedOK' BY SMTT(30) DEF CopiedOK, Installing
<1>10. DoneOK' BY SMTT(30) DEF DoneOK
<1>. QED BY <1>1, <1>2, <1>4, <1>5, <1>6, <1>7, <1>8, <1>9, <1>10

\* A caller changes a buffer and holds it until it is logged; nobody commits meanwhile.
LEMMA ModifyStep ==
  ASSUME IInv, NEW t \in Thread, NEW b \in Block, NEW v \in Val, Running, Modify(t, b, v)
  PROVE  IInv'
<1>0. t \in InOp BY DEF InOp, Modify
<1>a. Committer = {} /\ ~Installing /\ boot = "up" BY <1>0, OpMeans
<1>. USE LogAssumption DEF IInv, TypeOK, Modify, disk, buffers, logVars, Goto
<1>1. TypeOK' BY SMTT(30) DEF Label
<1>2. ListOK(lh)' /\ ListOK(head)' BY SMTT(30) DEF ListOK
<1>b. Committer' = {} /\ ~Installing' BY ZenonT(30), <1>a DEF Committer, Installing
<1>4. CountOK'
  <2>1. InOp' = InOp /\ (Running' => Running) BY ZenonT(30), <1>1 DEF InOp, Running
  <2>. QED BY ZenonT(30), <1>a, <1>b, <2>1, SameCount
<1>5. HeldOK'
  <2>1. ASSUME NEW c \in Block, NEW u \in Thread, held'[c] = u, c # b
        PROVE  /\ pc'[u] \in {"log_write", "panic"} /\ cache'[c] # NoVal
               /\ \A d \in Block : held'[d] = u => d = c
    <3>1. held[c] = u BY ZenonT(30), <2>1
    <3>2. /\ pc[u] \in {"log_write", "panic"} /\ cache[c] # NoVal
          /\ \A d \in Block : held[d] = u => d = c
      BY ZenonT(30), <3>1 DEF HeldOK
    <3>3. u # t BY ZenonT(30), <3>2
    <3>4. pc'[u] = pc[u] /\ cache'[c] = cache[c] /\ \A d \in Block : held'[d] = u => held[d] = u
      BY ZenonT(30), <2>1, <3>3
    <3>. QED BY ZenonT(30), <3>2, <3>4
  <2>2. pc'[t] = "log_write" /\ cache'[b] # NoVal /\ held'[b] = t BY ZenonT(30)
  <2>3. \A d \in Block : held'[d] = t => d = b
    <3>. SUFFICES ASSUME NEW d \in Block, held'[d] = t, d # b PROVE FALSE
      BY ZenonT(30)
    <3>1. held[d] = t BY ZenonT(30)
    <3>. QED BY ZenonT(30), <3>1 DEF HeldOK
  <2>4. \A u \in Thread : held'[b] = u => u = t BY ZenonT(30), <2>2
  <2>. HIDE DEF IInv, TypeOK, Modify
  <2>. SUFFICES ASSUME NEW c \in Block, NEW u \in Thread, held'[c] = u
                PROVE  /\ pc'[u] \in {"log_write", "panic"} /\ cache'[c] # NoVal
                       /\ \A d \in Block : held'[d] = u => d = c
    BY ZenonT(30) DEF HeldOK
  <2>5. CASE c = b BY ZenonT(30), <2>2, <2>3, <2>4, <2>5
  <2>6. CASE c # b BY ZenonT(30), <2>1, <2>6
  <2>. QED BY <2>5, <2>6
<1>6. PinOK' BY SMTT(30), <1>a, <1>b DEF PinOK
<1>7. CacheOK' BY SMTT(30) DEF CacheOK
<1>8. HeadOK' BY SMTT(30), <1>a, <1>b DEF HeadOK
<1>9. CopiedOK' BY ZenonT(30), <1>a, <1>b DEF CopiedOK, Committer
<1>10. DoneOK' BY SMTT(30) DEF DoneOK
<1>. QED BY <1>1, <1>2, <1>4, <1>5, <1>6, <1>7, <1>8, <1>9, <1>10

\* bget recycles only buffers that are as on disk.
LEMMA RecycleStep ==
  ASSUME IInv, NEW b \in Block, Running, Recycle(b)
  PROVE  IInv'
<1>. USE LogAssumption DEF IInv, TypeOK, Recycle, disk, buffers, logVars
<1>1. TypeOK' BY SMTT(30) DEF Label
<1>2. ListOK(lh)' /\ ListOK(head)' BY SMTT(30) DEF ListOK
<1>4. CountOK' BY SMTT(30) DEF CountOK, Running, Committer, InOp
<1>5. HeldOK' BY SMTT(30) DEF HeldOK
<1>6. PinOK' BY SMTT(30) DEF PinOK, Installing
<1>7. CacheOK' BY SMTT(30) DEF CacheOK
<1>8. HeadOK' BY SMTT(30) DEF HeadOK, Installing
<1>9. CopiedOK'
  <2>1. ASSUME NEW i \in 1 .. Len(lh), boot = "up", Installing => tail <= i PROVE lh[i] # b
    BY ZenonT(30), <2>1 DEF PinOK
  <2>2. ASSUME NEW t \in Thread, pc[t] = "write_log" PROVE ~Installing /\ boot = "up"
    BY ZenonT(30), <2>2, CommitterMeans DEF Committer
  <2>3. Installing => boot = "up" BY ZenonT(30) DEF Installing, CountOK
  <2>4. Installing' <=> Installing BY DEF Installing
  <2>5. \A i \in 1 .. Len(lh) : lh[i] \in Block BY Lists
  <2>6. \A t \in Thread : pc'[t] = "write_log" => \A i \in 1 .. Len(lh) : i < tail => logdisk[i] = cache'[lh[i]]
    BY ZenonT(30), <2>1, <2>2, <2>5 DEF CopiedOK
  <2>7. Installing => \A i \in 1 .. Len(lh) : tail <= i => logdisk[i] = cache'[lh[i]]
    BY ZenonT(30), <2>1, <2>3, <2>5 DEF CopiedOK
  <2>. QED BY ZenonT(30), <2>4, <2>6, <2>7 DEF CopiedOK
<1>10. DoneOK' BY SMTT(30) DEF DoneOK
<1>. QED BY <1>1, <1>2, <1>4, <1>5, <1>6, <1>7, <1>8, <1>9, <1>10

\* log_write adds the block to the transaction and pins it, or panics.
LEMMA log_writeStep ==
  ASSUME IInv, NEW t \in Thread, NEW b \in Block, Running, log_write(t, b)
  PROVE  IInv'
<1>0. t \in InOp BY DEF InOp, log_write
<1>a. Committer = {} /\ ~Installing /\ boot = "up" /\ outstanding # 0 /\ ~committing BY <1>0, OpMeans
<1>b. /\ pc[t] = "log_write" /\ held[b] = t
      /\ UNCHANGED <<home, logdisk, head, cache, outstanding, committing, tail, boot, crashes>>
  BY ZenonT(30) DEF log_write, disk
<1>c. pc \in [Thread -> Label] /\ TypeOK /\ HeldOK BY ZenonT(30) DEF IInv, TypeOK
<1>d. CASE pc' = [pc EXCEPT ![t] = "panic"] /\ UNCHANGED <<lh, pinned, wrote, held>>
  <2>. USE LogAssumption, <1>b, <1>d DEF IInv, TypeOK
  <2>1. TypeOK' BY SMTT(30) DEF Label
  <2>2. Committer' = {} /\ ~Installing' /\ ~Running' /\ InOp' = InOp \ {t}
    BY ZenonT(30), <1>a DEF Committer, Installing, Running, InOp
  <2>3. CountOK'
    <3>1. IsFiniteSet(InOp') BY ZenonT(30), <2>2, FS_RemoveElement DEF CountOK
    <3>. QED BY ZenonT(30), <1>a, <2>2, <3>1 DEF CountOK
  <2>4. HeldOK' BY SMTT(30) DEF HeldOK
  <2>5. PinOK' /\ HeadOK' BY SMTT(30), <1>a, <2>2 DEF PinOK, HeadOK
  <2>6. CacheOK' BY ZenonT(30) DEF CacheOK
  <2>7. CopiedOK' /\ DoneOK' BY ZenonT(30), <1>a, <2>2 DEF CopiedOK, DoneOK, Committer
  <2>8. ListOK(lh)' /\ ListOK(head)' BY ZenonT(30) DEF ListOK
  <2>. QED BY ZenonT(30), <2>1, <2>3, <2>4, <2>5, <2>6, <2>7, <2>8
<1>e. CASE /\ ~(Len(lh) >= LOGSIZE) /\ ~(Len(lh) >= NLOG - 1)
           /\ lh' = IF b \in Logged THEN lh ELSE Append(lh, b)
           /\ pinned' = pinned \cup {b}
           /\ wrote' = [wrote EXCEPT ![t] = @ \cup {b}]
           /\ held' = [held EXCEPT ![b] = NoThread]
           /\ pc' = [pc EXCEPT ![t] = "op"]
  <2>0. ListOK(lh) /\ ListOK(head) /\ PinOK /\ CacheOK /\ HeadOK /\ Len(lh) \in Nat /\ lh \in Seq(Block)
    BY ZenonT(30), <1>c, Lists DEF IInv, TypeOK
  <2>1. lh' \in Seq(Block) BY SMTT(30), <1>e, <2>0
  <2>2. ListOK(lh)' BY SMTT(30), <1>e, <2>0, LogAssumption DEF ListOK, Logged
  <2>3. TypeOK' BY ZenonT(30), <1>b, <1>c, <1>e, <2>1 DEF TypeOK, Label
  <2>4. Committer' = {} /\ ~Installing' /\ (Running' => Running) /\ InOp' = InOp
    BY ZenonT(30), <1>a, <1>b, <1>c, <1>e DEF Committer, Installing, Running, InOp
  <2>5. CountOK' BY ZenonT(30), <1>a, <1>b, <2>4, SameCount
  <2>6. HeldOK' BY SMTT(30), LogAssumption, <1>b, <1>c, <1>e DEF HeldOK, TypeOK
  <2>7. PinOK'
    <3>1. {lh'[i] : i \in 1 .. Len(lh')} = {lh[i] : i \in 1 .. Len(lh)} \cup {b}
      <4>1. CASE b \in Logged BY ZenonT(30), <1>e, <4>1 DEF Logged
      <4>2. CASE b \notin Logged
        <5>1. /\ Len(lh') = Len(lh) + 1 /\ lh'[Len(lh) + 1] = b
              /\ \A i \in 1 .. Len(lh) : lh'[i] = lh[i]
          BY SMTT(30), <1>e, <2>0, <4>2
        <5>2. \A i : i \in 1 .. Len(lh) + 1 <=> i \in 1 .. Len(lh) \/ i = Len(lh) + 1
          BY SMTT(30), <2>0
        <5>. QED BY ZenonT(30), <5>1, <5>2
      <4>. QED BY <4>1, <4>2
    <3>. QED BY ZenonT(30), <1>a, <1>b, <1>e, <2>0, <2>4, <3>1 DEF PinOK
  <2>8. CacheOK' BY SMTT(30), LogAssumption, <1>b, <1>c, <1>e, <2>0 DEF CacheOK, HeldOK, TypeOK
  <2>9. HeadOK' BY ZenonT(30), <1>a, <1>b, <2>0, <2>4 DEF HeadOK
  <2>10. CopiedOK' /\ DoneOK' BY ZenonT(30), <1>a, <1>b, <2>4 DEF CopiedOK, DoneOK, Committer
  <2>11. ListOK(head)' BY ZenonT(30), <1>b, <2>0 DEF ListOK
  <2>. QED BY ZenonT(30), <2>2, <2>3, <2>5, <2>6, <2>7, <2>8, <2>9, <2>10, <2>11 DEF IInv
<1>. QED BY ZenonT(30), <1>d, <1>e DEF log_write, Goto

\* The last end_op finds no other operation and becomes the committer; it never finds
\* a commit under way.
LEMMA end_opStep ==
  ASSUME IInv, NEW t \in Thread, Running, end_op(t)
  PROVE  IInv'
<1>0. t \in InOp BY DEF InOp, end_op
<1>a. Committer = {} /\ ~Installing /\ boot = "up" /\ outstanding # 0 /\ ~committing BY <1>0, OpMeans
<1>b. /\ pc[t] = "op" /\ outstanding' = outstanding - 1
      /\ \/ outstanding = 1 /\ committing' = TRUE /\ pc' = [pc EXCEPT ![t] = "commit"]
         \/ outstanding # 1 /\ UNCHANGED committing /\ pc' = [Woken EXCEPT ![t] = "idle"]
      /\ UNCHANGED <<home, logdisk, head, cache, held, pinned, lh, wrote, tail, boot, crashes>>
  BY ZenonT(30), <1>a DEF end_op, disk, buffers, Goto
<1>c. TypeOK /\ ListOK(lh) /\ ListOK(head) /\ CountOK /\ HeldOK /\ PinOK /\ CacheOK /\ HeadOK /\ CopiedOK /\ DoneOK
  BY DEF IInv
<1>d. outstanding \in Nat /\ outstanding = Cardinality(InOp) /\ IsFiniteSet(InOp)
  BY ZenonT(30), <1>c DEF CountOK, TypeOK
<1>e. pc' \in [Thread -> Label] /\ pc'[t] \in {"commit", "idle"}
  BY ZenonT(30), <1>b, <1>c DEF TypeOK, Woken, Label
<1>f. \A u \in Thread : u # t => pc'[u] = pc[u] \/ (pc[u] = "asleep" /\ pc'[u] = "begin")
  BY ZenonT(30), <1>b, <1>c DEF TypeOK, Woken
<1>g. InOp' = InOp \ {t} /\ ~Installing'
  BY ZenonT(30), <1>a, <1>e, <1>f DEF InOp, Installing
<1>1. TypeOK'
  <2>1. outstanding' \in Nat BY SMTT(30), <1>a, <1>b, <1>d
  <2>. QED BY ZenonT(30), <1>b, <1>c, <1>e, <2>1 DEF TypeOK
<1>2. ListOK(lh)' /\ ListOK(head)' BY ZenonT(30), <1>b, <1>c DEF ListOK
<1>3. Running' BY ZenonT(30), <1>e, <1>f DEF Running
<1>4. CountOK'
  <2>1. IsFiniteSet(InOp') /\ Cardinality(InOp') = Cardinality(InOp) - 1
    BY ZenonT(30), <1>0, <1>d, <1>g, FS_RemoveElement
  <2>2. outstanding' = Cardinality(InOp') BY ZenonT(30), <1>b, <1>d, <2>1
  <2>3. CASE outstanding = 1 /\ committing' = TRUE /\ pc' = [pc EXCEPT ![t] = "commit"]
    <3>1. outstanding' = 0 BY SMTT(30), <1>b, <2>3
    <3>2. Committer' = {t} BY ZenonT(30), <1>a, <1>c, <2>3 DEF Committer, TypeOK
    <3>. QED BY ZenonT(30), <1>a, <1>b, <2>1, <2>2, <2>3, <3>1, <3>2 DEF CountOK
  <2>4. CASE UNCHANGED committing /\ pc' = [Woken EXCEPT ![t] = "idle"]
    <3>1. pc'[t] = "idle" BY ZenonT(30), <2>4 DEF Woken
    <3>2. Committer' = {} BY ZenonT(30), <1>a, <1>f, <3>1 DEF Committer
    <3>. QED BY ZenonT(30), <1>a, <1>b, <2>1, <2>2, <2>4, <3>2 DEF CountOK
  <2>. QED BY ZenonT(30), <1>b, <2>3, <2>4
<1>5. HeldOK'
  <2>1. \A u \in Thread : pc[u] \in {"log_write", "panic"} => pc'[u] = pc[u] BY ZenonT(30), <1>b, <1>f
  <2>. QED BY SMTT(30), <1>b, <1>c, <2>1 DEF HeldOK, TypeOK
<1>6. PinOK' /\ HeadOK' BY ZenonT(30), <1>a, <1>b, <1>c, <1>g DEF PinOK, HeadOK
<1>7. CacheOK' BY ZenonT(30), <1>b, <1>c DEF CacheOK
<1>8. CopiedOK' /\ DoneOK'
  <2>1. \A u \in Thread : pc'[u] \notin {"write_log", "done"} BY ZenonT(30), <1>a, <1>e, <1>f DEF Committer
  <2>. QED BY ZenonT(30), <1>a, <1>b, <1>g, <2>1 DEF CopiedOK, DoneOK
<1>. QED BY ZenonT(30), <1>1, <1>2, <1>4, <1>5, <1>6, <1>7, <1>8 DEF IInv

\* What the steps of a commit leave alone, and what they rely on.
LEMMA CommitFacts ==
  ASSUME IInv, Running, NEW t \in Committer,
         NEW l \in {"write_log", "install_trans", "done"}, pc' = [pc EXCEPT ![t] = l],
         UNCHANGED <<outstanding, committing, boot, held>>
  PROVE  /\ CountOK' /\ Committer' = {t} /\ boot' = "up" /\ pc'[t] = l /\ pc' \in [Thread -> Label]
         /\ Installing' <=> l = "install_trans"
         /\ \A u \in Thread : u # t => pc'[u] \notin {"write_log", "install_trans", "done"}
         /\ \A b \in Block : held'[b] = NoThread
<1>1. committing /\ outstanding = 0 /\ Committer = {t} /\ InOp = {} /\ boot = "up" /\ \A b \in Block : held[b] = NoThread
  BY ZenonT(30), CommitterMeans
<1>2. pc \in [Thread -> Label] /\ CountOK /\ t \in Thread BY ZenonT(30) DEF IInv, TypeOK, Committer
<1>3. pc' \in [Thread -> Label] /\ pc'[t] = l /\ \A u \in Thread : u # t => pc'[u] = pc[u]
  BY ZenonT(30), <1>2 DEF Label
<1>4. Committer' = {t} BY ZenonT(30), <1>1, <1>2, <1>3 DEF Committer
<1>5. InOp' = InOp BY ZenonT(30), <1>1, <1>3 DEF InOp
<1>6. \A u \in Thread : u # t => pc'[u] \notin {"write_log", "install_trans", "done"}
  BY ZenonT(30), <1>4 DEF Committer
<1>7. Installing' <=> l = "install_trans" BY ZenonT(30), <1>2, <1>3, <1>6 DEF Installing
<1>8. CountOK' BY ZenonT(30), <1>1, <1>4, <1>5, SameCount
<1>. QED BY ZenonT(30), <1>1, <1>3, <1>4, <1>6, <1>7, <1>8

\* commit starts with the first block, or has nothing to do.
LEMMA commitStep ==
  ASSUME IInv, NEW t \in Thread, Running, commit(t)
  PROVE  IInv'
<1>0. t \in Committer BY DEF Committer, commit
<1>1. /\ pc[t] = "commit" /\ tail' = 1
      /\ UNCHANGED <<home, logdisk, head, cache, held, pinned, lh, outstanding, committing, wrote, boot, crashes>>
  BY DEF commit, disk, buffers, logVars
<1>2. PICK l \in {"write_log", "done"} : pc' = [pc EXCEPT ![t] = l] /\ (l = "done" => lh = <<>>)
  BY ZenonT(30) DEF commit, Goto
<1>3. /\ CountOK' /\ boot' = "up" /\ pc'[t] = l /\ pc' \in [Thread -> Label] /\ ~Installing'
      /\ \A u \in Thread : u # t => pc'[u] \notin {"write_log", "install_trans", "done"}
      /\ \A b \in Block : held'[b] = NoThread
  BY ZenonT(30), <1>0, <1>1, <1>2, CommitFacts
<1>4. ~Installing BY ZenonT(30), <1>0, <1>1, CommitterMeans
<1>5. TypeOK /\ ListOK(lh) /\ ListOK(head) /\ PinOK /\ CacheOK /\ HeadOK BY DEF IInv
<1>6. TypeOK'
  <2>1. 1 \in Nat \ {0} BY SMTT(30)
  <2>. QED BY ZenonT(30), <1>1, <1>3, <1>5, <2>1 DEF TypeOK
<1>7. ListOK(lh)' /\ ListOK(head)' BY ZenonT(30), <1>1, <1>5 DEF ListOK
<1>8. HeldOK' BY ZenonT(30), <1>3, LogAssumption DEF HeldOK
<1>9. PinOK' BY SMTT(30), <1>1, <1>3, <1>4, <1>5 DEF PinOK
<1>10. CacheOK' BY ZenonT(30), <1>1, <1>5 DEF CacheOK
<1>11. HeadOK' BY SMTT(30), <1>1, <1>3, <1>4, <1>5 DEF HeadOK
<1>12. CopiedOK'
  <2>1. \A i \in 1 .. Len(lh') : ~(i < tail') BY SMTT(30), <1>1
  <2>. QED BY ZenonT(30), <1>3, <2>1 DEF CopiedOK
<1>13. DoneOK' BY ZenonT(30), <1>1, <1>2, <1>3 DEF DoneOK
<1>. QED BY ZenonT(30), <1>3, <1>6, <1>7, <1>8, <1>9, <1>10, <1>11, <1>12, <1>13 DEF IInv

\* A block of the transaction goes to the log; it is in the cache, since it is pinned.
LEMMA write_logStep ==
  ASSUME IInv, NEW t \in Thread, Running, write_log(t)
  PROVE  IInv'
<1>0. t \in Committer BY DEF Committer, write_log
<1>1. /\ pc[t] = "write_log" /\ tail <= Len(lh) /\ tail' = tail + 1
      /\ logdisk' = [logdisk EXCEPT ![tail] = bread(lh[tail])]
      /\ UNCHANGED <<home, head, cache, held, pinned, lh, outstanding, committing, pc, wrote, boot, crashes>>
  BY DEF write_log, buffers, logVars
<1>2. /\ ~Installing /\ boot = "up" /\ Committer = {t} /\ \A b \in Block : held[b] = NoThread
  BY ZenonT(30), <1>0, <1>1, CommitterMeans
<1>3. /\ TypeOK /\ ListOK(lh) /\ ListOK(head) /\ CountOK /\ HeldOK /\ PinOK /\ CacheOK /\ HeadOK /\ CopiedOK /\ DoneOK
      /\ Len(lh) \in Nat /\ tail \in 1 .. Len(lh) /\ tail \in Nat \ {0}
      /\ \A i \in 1 .. Len(lh) : lh[i] \in Block
  <2>1. TypeOK /\ Len(lh) \in Nat /\ (\A i \in 1 .. Len(lh) : lh[i] \in Block) /\ tail \in Nat \ {0}
    BY ZenonT(30), Lists DEF IInv, TypeOK
  <2>2. tail \in 1 .. Len(lh) BY SMTT(30), <1>1, <2>1
  <2>. QED BY ZenonT(30), <2>1, <2>2 DEF IInv
<1>4. lh[tail] \in pinned BY ZenonT(30), <1>2, <1>3 DEF PinOK
<1>5. bread(lh[tail]) = cache[lh[tail]] /\ cache[lh[tail]] \in Val
  BY ZenonT(30), <1>3, <1>4 DEF CacheOK, bread, TypeOK
<1>6. tail \in 1 .. NLOG - 1 BY SMTT(30), <1>3, LogAssumption DEF ListOK
<1>7. head = <<>> BY ZenonT(30), <1>2, <1>3 DEF HeadOK
<1>8. ~Installing' BY ZenonT(30), <1>1, <1>2 DEF Installing
<1>9. TypeOK'
  <2>1. tail' \in Nat \ {0} BY SMTT(30), <1>1, <1>3
  <2>2. logdisk' \in [1 .. NLOG - 1 -> Val \cup {NoVal}] BY ZenonT(30), <1>1, <1>3, <1>5, <1>6 DEF TypeOK
  <2>. QED BY ZenonT(30), <1>1, <1>3, <2>1, <2>2 DEF TypeOK
<1>10. ListOK(lh)' /\ ListOK(head)' BY ZenonT(30), <1>1, <1>3 DEF ListOK
<1>11. CountOK' BY ZenonT(30), <1>1, <1>2, SameCount DEF InOp, Committer, Running
<1>12. HeldOK' BY ZenonT(30), <1>1, <1>2, LogAssumption DEF HeldOK
<1>13. PinOK' BY SMTT(30), <1>1, <1>2, <1>3, <1>8 DEF PinOK
<1>14. CacheOK' BY ZenonT(30), <1>1, <1>3 DEF CacheOK
<1>15. HeadOK' BY SMTT(30), <1>1, <1>2, <1>7, <1>8 DEF HeadOK
<1>16. CopiedOK'
  <2>1. ASSUME NEW i \in 1 .. Len(lh), i < tail' PROVE logdisk'[i] = cache[lh[i]]
    <3>1. i < tail \/ i = tail BY SMTT(30), <1>1, <1>3, <2>1
    <3>2. i \in 1 .. NLOG - 1 BY SMTT(30), <1>3, LogAssumption DEF ListOK
    <3>3. CASE i = tail BY ZenonT(30), <1>1, <1>3, <1>5, <1>6, <3>3 DEF TypeOK
    <3>4. CASE i < tail /\ i # tail
      BY ZenonT(30), <1>1, <1>3, <3>2, <3>4 DEF TypeOK, CopiedOK
    <3>. QED BY SMTT(30), <1>3, <3>1, <3>3, <3>4
  <2>. QED BY ZenonT(30), <1>1, <1>2, <1>8, <2>1 DEF CopiedOK
<1>17. DoneOK' BY ZenonT(30), <1>1, <1>3 DEF DoneOK
<1>. QED BY ZenonT(30), <1>9, <1>10, <1>11, <1>12, <1>13, <1>14, <1>15, <1>16, <1>17 DEF IInv

\* The commit point: all blocks of the transaction are in the log.
LEMMA write_headStep ==
  ASSUME IInv, NEW t \in Thread, Running, write_head(t)
  PROVE  IInv'
<1>0. t \in Committer BY DEF Committer, write_head
<1>1. /\ pc[t] = "write_log" /\ tail > Len(lh) /\ head' = lh /\ tail' = 1
      /\ pc' = [pc EXCEPT ![t] = "install_trans"]
      /\ UNCHANGED <<home, logdisk, cache, held, pinned, lh, outstanding, committing, wrote, boot, crashes>>
  BY DEF write_head, buffers, logVars, Goto
<1>2. ~Installing /\ boot = "up" BY ZenonT(30), <1>0, <1>1, CommitterMeans
<1>3. /\ CountOK' /\ boot' = "up" /\ pc'[t] = "install_trans" /\ pc' \in [Thread -> Label] /\ Installing'
      /\ \A u \in Thread : u # t => pc'[u] \notin {"write_log", "install_trans", "done"}
      /\ \A b \in Block : held'[b] = NoThread
  BY ZenonT(30), <1>0, <1>1, CommitFacts
<1>4. /\ TypeOK /\ ListOK(lh) /\ PinOK /\ CacheOK /\ CopiedOK /\ Len(lh) \in Nat
      /\ \A i \in 1 .. Len(lh) : lh[i] \in Block
  BY ZenonT(30), Lists DEF IInv
<1>5. TypeOK'
  <2>1. 1 \in Nat \ {0} BY SMTT(30)
  <2>. QED BY ZenonT(30), <1>1, <1>3, <1>4, <2>1 DEF TypeOK
<1>6. ListOK(lh)' /\ ListOK(head)' BY ZenonT(30), <1>1, <1>4 DEF ListOK
<1>7. HeldOK' BY ZenonT(30), <1>3, LogAssumption DEF HeldOK
<1>8. pinned = {lh[i] : i \in 1 .. Len(lh)} BY SMTT(30), <1>2, <1>4 DEF PinOK
<1>9. PinOK' BY SMTT(30), <1>1, <1>2, <1>4, <1>8 DEF PinOK
<1>10. CacheOK' BY ZenonT(30), <1>1, <1>4 DEF CacheOK
<1>11. \A i \in 1 .. Len(lh) : logdisk[i] = cache[lh[i]] /\ cache[lh[i]] # NoVal
  <2>1. \A i \in 1 .. Len(lh) : i < tail BY SMTT(30), <1>1, <1>4 DEF TypeOK
  <2>2. \A i \in 1 .. Len(lh) : lh[i] \in pinned BY ZenonT(30), <1>8
  <2>. QED BY ZenonT(30), <1>1, <1>4, <2>1, <2>2 DEF CopiedOK, CacheOK
<1>12. HeadOK' BY ZenonT(30), <1>1, <1>3, <1>11 DEF HeadOK
<1>13. CopiedOK'
  <2>1. \A i \in 1 .. Len(lh') : ~(i < tail') BY SMTT(30), <1>1
  <2>. QED BY ZenonT(30), <1>1, <1>3, <1>11, <2>1 DEF CopiedOK
<1>14. DoneOK' BY ZenonT(30), <1>3 DEF DoneOK
<1>. QED BY ZenonT(30), <1>3, <1>5, <1>6, <1>7, <1>9, <1>10, <1>12, <1>13, <1>14 DEF IInv

\* A block goes home; its buffer is unpinned, and as on disk.
LEMMA install_transStep ==
  ASSUME IInv, NEW t \in Thread, Running, install_trans(t)
  PROVE  IInv'
<1>0. t \in Committer BY DEF Committer, install_trans
<1>1. /\ pc[t] = "install_trans" /\ tail <= Len(lh) /\ tail' = tail + 1
      /\ home' = [home EXCEPT ![lh[tail]] = logdisk[tail]]
      /\ cache' = [cache EXCEPT ![lh[tail]] = logdisk[tail]]
      /\ pinned' = pinned \ {lh[tail]}
      /\ UNCHANGED <<logdisk, head, held, lh, outstanding, committing, pc, wrote, boot, crashes>>
  BY DEF install_trans, logVars
<1>2. /\ Installing /\ boot = "up" /\ Committer = {t} /\ \A b \in Block : held[b] = NoThread
  BY ZenonT(30), <1>0, <1>1, CommitterMeans
<1>3. /\ TypeOK /\ ListOK(lh) /\ ListOK(head) /\ PinOK /\ CacheOK /\ HeadOK /\ CopiedOK /\ DoneOK
      /\ Len(lh) \in Nat /\ tail \in 1 .. Len(lh) /\ tail \in Nat \ {0}
      /\ \A i \in 1 .. Len(lh) : lh[i] \in Block
  <2>1. TypeOK /\ Len(lh) \in Nat /\ (\A i \in 1 .. Len(lh) : lh[i] \in Block) /\ tail \in Nat \ {0}
    BY ZenonT(30), Lists DEF IInv, TypeOK
  <2>2. tail \in 1 .. Len(lh) BY SMTT(30), <1>1, <2>1
  <2>. QED BY ZenonT(30), <2>1, <2>2 DEF IInv
<1>4. Installing' /\ boot' = "up" BY ZenonT(30), <1>1, <1>2 DEF Installing
<1>5. head = lh BY ZenonT(30), <1>2, <1>3 DEF HeadOK
<1>6. PICK b \in Block : b = lh[tail] BY ZenonT(30), <1>3
<1>7. PICK v \in Val : v = logdisk[tail]
  <2>1. tail \in 1 .. NLOG - 1 BY SMTT(30), <1>3, LogAssumption DEF ListOK
  <2>2. logdisk[tail] # NoVal BY ZenonT(30), <1>3, <1>5 DEF HeadOK
  <2>. QED BY ZenonT(30), <1>3, <2>1, <2>2 DEF TypeOK
<1>8. /\ home' = [home EXCEPT ![b] = v] /\ cache' = [cache EXCEPT ![b] = v] /\ pinned' = pinned \ {b}
  BY ZenonT(30), <1>1, <1>6, <1>7
<1>9. TypeOK'
  <2>1. tail' \in Nat \ {0} BY SMTT(30), <1>1, <1>3
  <2>2. home' \in [Block -> Val] /\ cache' \in [Block -> Val \cup {NoVal}] /\ pinned' \subseteq Block
    BY ZenonT(30), <1>3, <1>8 DEF TypeOK
  <2>. QED BY ZenonT(30), <1>1, <1>3, <2>1, <2>2 DEF TypeOK
<1>10. ListOK(lh)' /\ ListOK(head)' BY ZenonT(30), <1>1, <1>3 DEF ListOK
<1>11. CountOK' BY ZenonT(30), <1>1, <1>2, SameCount DEF InOp, Committer, Running
<1>12. HeldOK' BY ZenonT(30), <1>1, <1>2, LogAssumption DEF HeldOK
<1>13. \A i \in 1 .. Len(lh) : /\ lh[i] = b <=> i = tail
                               /\ tail + 1 <= i <=> tail <= i /\ i # tail
                               /\ i < tail + 1 <=> i < tail \/ i = tail
  <2>1. \A i \in 1 .. Len(lh) : lh[i] = b <=> i = tail BY ZenonT(30), <1>3, <1>6 DEF ListOK
  <2>. QED BY SMTT(30), <1>3, <2>1
<1>14. PinOK'
  <2>1. pinned = {lh[i] : i \in {j \in 1 .. Len(lh) : tail <= j}} BY ZenonT(30), <1>2, <1>3 DEF PinOK
  <2>2. pinned' = {lh[i] : i \in {j \in 1 .. Len(lh) : tail + 1 <= j}}
    BY ZenonT(30), <1>8, <1>13, <2>1
  <2>. QED BY ZenonT(30), <1>1, <1>4, <2>2 DEF PinOK
<1>15. CacheOK' BY SMTT(30), <1>1, <1>2, <1>3, <1>8, LogAssumption DEF CacheOK, TypeOK
<1>16. HeadOK' BY ZenonT(30), <1>1, <1>2, <1>3, <1>4 DEF HeadOK
<1>17. CopiedOK'
  <2>1. \A i \in 1 .. Len(lh) : tail + 1 <= i => logdisk[i] = cache'[lh[i]]
    BY ZenonT(30), <1>2, <1>3, <1>8, <1>13 DEF CopiedOK, TypeOK
  <2>2. \A i \in 1 .. Len(lh) : i < tail + 1 => home'[lh[i]] = logdisk[i]
    BY ZenonT(30), <1>2, <1>3, <1>7, <1>8, <1>13 DEF CopiedOK, TypeOK
  <2>3. \A u \in Thread : pc'[u] # "write_log" BY ZenonT(30), <1>1, <1>2 DEF Committer
  <2>. QED BY ZenonT(30), <1>1, <2>1, <2>2, <2>3 DEF CopiedOK
<1>18. DoneOK' BY ZenonT(30), <1>1, <1>3 DEF DoneOK
<1>. QED BY ZenonT(30), <1>9, <1>10, <1>11, <1>12, <1>14, <1>15, <1>16, <1>17, <1>18 DEF IInv

\* The transaction is over when all of it is installed.
LEMMA clear_headStep ==
  ASSUME IInv, NEW t \in Thread, Running, clear_head(t)
  PROVE  IInv'
<1>0. t \in Committer BY DEF Committer, clear_head
<1>1. /\ pc[t] = "install_trans" /\ tail > Len(lh) /\ lh' = <<>> /\ head' = <<>>
      /\ pc' = [pc EXCEPT ![t] = "done"]
      /\ UNCHANGED <<home, logdisk, cache, held, pinned, outstanding, committing, wrote, tail, boot, crashes>>
  BY DEF clear_head, buffers, Goto
<1>2. Installing /\ boot = "up" BY ZenonT(30), <1>0, <1>1, CommitterMeans
<1>3. /\ CountOK' /\ boot' = "up" /\ pc' \in [Thread -> Label] /\ ~Installing'
      /\ \A u \in Thread : pc'[u] # "write_log"
      /\ \A b \in Block : held'[b] = NoThread
  BY ZenonT(30), <1>0, <1>1, CommitFacts
<1>4. TypeOK /\ PinOK /\ CacheOK /\ Len(lh) \in Nat BY ZenonT(30), Lists DEF IInv
<1>5. <<>> \in Seq(Block) /\ Len(<<>>) = 0 /\ \A i : i \notin 1 .. 0 BY SMTT(30)
<1>6. TypeOK' BY ZenonT(30), <1>1, <1>3, <1>4, <1>5 DEF TypeOK
<1>7. ListOK(lh)' /\ ListOK(head)' BY SMTT(30), <1>1, LogAssumption DEF ListOK
<1>8. HeldOK' BY ZenonT(30), <1>3, LogAssumption DEF HeldOK
<1>9. pinned = {} BY SMTT(30), <1>1, <1>2, <1>4 DEF PinOK, TypeOK
<1>10. PinOK' BY ZenonT(30), <1>1, <1>5, <1>9 DEF PinOK
<1>11. CacheOK' BY ZenonT(30), <1>1, <1>4 DEF CacheOK
<1>12. HeadOK' BY ZenonT(30), <1>1, <1>3, <1>5 DEF HeadOK
<1>13. CopiedOK' BY ZenonT(30), <1>3 DEF CopiedOK
<1>14. DoneOK' BY ZenonT(30), <1>1 DEF DoneOK
<1>. QED BY ZenonT(30), <1>3, <1>6, <1>7, <1>8, <1>10, <1>11, <1>12, <1>13, <1>14 DEF IInv

\* The second half of end_op.
LEMMA end_commitStep ==
  ASSUME IInv, NEW t \in Thread, Running, end_commit(t)
  PROVE  IInv'
<1>0. t \in Committer BY DEF Committer, end_commit
<1>1. /\ pc[t] = "done" /\ ~committing' /\ pc' = [Woken EXCEPT ![t] = "idle"]
      /\ UNCHANGED <<home, logdisk, head, cache, held, pinned, lh, outstanding, wrote, tail, boot, crashes>>
  BY ZenonT(30) DEF end_commit, disk, buffers
<1>2. /\ ~Installing /\ boot = "up" /\ Committer = {t} /\ InOp = {} /\ outstanding = 0
      /\ \A b \in Block : held[b] = NoThread
  BY ZenonT(30), <1>0, <1>1, CommitterMeans
<1>3. TypeOK /\ ListOK(lh) /\ ListOK(head) /\ CountOK /\ PinOK /\ CacheOK /\ HeadOK /\ committing' = FALSE
  <2>1. committing' \in BOOLEAN BY ZenonT(30) DEF end_commit
  <2>. QED BY ZenonT(30), <1>1, <2>1 DEF IInv
<1>4. pc' \in [Thread -> Label] /\ pc'[t] = "idle"
  BY ZenonT(30), <1>1, <1>3 DEF TypeOK, Woken, Label
<1>5. \A u \in Thread : u # t => pc'[u] = pc[u] \/ (pc[u] = "asleep" /\ pc'[u] = "begin")
  BY ZenonT(30), <1>1, <1>3 DEF TypeOK, Woken
<1>6. InOp' = {} /\ Committer' = {} /\ ~Installing'
  BY ZenonT(30), <1>2, <1>4, <1>5 DEF InOp, Committer, Installing
<1>7. TypeOK' BY ZenonT(30), <1>1, <1>3, <1>4 DEF TypeOK
<1>8. ListOK(lh)' /\ ListOK(head)' BY ZenonT(30), <1>1, <1>3 DEF ListOK
<1>9. CountOK' BY ZenonT(30), <1>1, <1>2, <1>3, <1>6, FS_EmptySet DEF CountOK
<1>10. HeldOK' BY ZenonT(30), <1>1, <1>2, LogAssumption DEF HeldOK
<1>11. PinOK' BY SMTT(30), <1>1, <1>2, <1>3, <1>6 DEF PinOK
<1>12. CacheOK' BY ZenonT(30), <1>1, <1>3 DEF CacheOK
<1>13. HeadOK' BY SMTT(30), <1>1, <1>2, <1>3, <1>6 DEF HeadOK
<1>14. CopiedOK' /\ DoneOK' BY ZenonT(30), <1>1, <1>2, <1>6 DEF CopiedOK, DoneOK, Committer
<1>. QED BY ZenonT(30), <1>7, <1>8, <1>9, <1>10, <1>11, <1>12, <1>13, <1>14 DEF IInv

\* A crash keeps the disk only.
LEMMA CrashStep ==
  ASSUME IInv, Crash
  PROVE  IInv'
<1>1. /\ cache' = [b \in Block |-> NoVal] /\ held' = [b \in Block |-> NoThread] /\ pinned' = {}
      /\ lh' = <<>> /\ outstanding' = 0 /\ committing' = FALSE
      /\ pc' = [t \in Thread |-> "down"] /\ wrote' = [t \in Thread |-> {}]
      /\ tail' = 1 /\ boot' = "read_head"
      /\ UNCHANGED <<home, logdisk, head>>
  BY ZenonT(30) DEF Crash, disk
<1>2. TypeOK /\ ListOK(head) /\ HeadOK BY DEF IInv
<1>3. InOp' = {} /\ Committer' = {} /\ ~Installing' /\ \A t \in Thread : pc'[t] = "down"
  BY ZenonT(30), <1>1 DEF InOp, Committer, Installing
<1>4. <<>> \in Seq(Block) /\ Len(<<>>) = 0 /\ (\A i : i \notin 1 .. 0) /\ 0 \in Nat /\ 1 \in Nat \ {0} BY SMTT(30)
<1>5. TypeOK'
  <2>1. pc' \in [Thread -> Label] /\ wrote' \in [Thread -> SUBSET Block] BY ZenonT(30), <1>1 DEF Label
  <2>2. cache' \in [Block -> Val \cup {NoVal}] /\ held' \in [Block -> Thread \cup {NoThread}] BY ZenonT(30), <1>1
  <2>. QED BY ZenonT(30), <1>1, <1>2, <1>4, <2>1, <2>2 DEF TypeOK
<1>6. ListOK(lh)' BY SMTT(30), <1>1, LogAssumption DEF ListOK
<1>7. ListOK(head)' BY ZenonT(30), <1>1, <1>2 DEF ListOK
<1>8. CountOK' BY ZenonT(30), <1>1, <1>3, FS_EmptySet DEF CountOK
<1>9. HeldOK' BY ZenonT(30), <1>1, LogAssumption DEF HeldOK
<1>10. PinOK' /\ CacheOK' BY ZenonT(30), <1>1 DEF PinOK, CacheOK
<1>11. HeadOK' BY ZenonT(30), <1>1, <1>2 DEF HeadOK
<1>12. CopiedOK' /\ DoneOK' BY ZenonT(30), <1>1, <1>3 DEF CopiedOK, DoneOK
<1>. QED BY ZenonT(30), <1>5, <1>6, <1>7, <1>8, <1>9, <1>10, <1>11, <1>12 DEF IInv

\* Recovery reads the header.
LEMMA read_headStep ==
  ASSUME IInv, read_head
  PROVE  IInv'
<1>1. /\ boot = "read_head" /\ lh' = head /\ tail' = 1 /\ boot' = "install_trans"
      /\ UNCHANGED <<home, logdisk, head, cache, held, pinned, outstanding, committing, pc, wrote, crashes>>
  BY DEF read_head, disk, buffers
<1>2. /\ InOp = {} /\ Committer = {} /\ ~Installing /\ Running /\ pinned = {}
      /\ \A b \in Block : held[b] = NoThread
  BY ZenonT(30), <1>1, DownMeans
<1>3. TypeOK /\ ListOK(head) /\ CountOK /\ CacheOK /\ HeadOK BY DEF IInv
<1>4. 1 \in Nat \ {0} /\ \A i \in 1 .. Len(head) : ~(i < 1) BY SMTT(30)
<1>5. TypeOK' BY ZenonT(30), <1>1, <1>3, <1>4 DEF TypeOK
<1>6. ListOK(lh)' /\ ListOK(head)' BY ZenonT(30), <1>1, <1>3 DEF ListOK
<1>7. CountOK' BY ZenonT(30), <1>1, <1>3 DEF CountOK, InOp, Committer, Running
<1>8. HeldOK' BY ZenonT(30), <1>1, <1>2, LogAssumption DEF HeldOK
<1>9. PinOK' BY ZenonT(30), <1>1, <1>2 DEF PinOK
<1>10. CacheOK' BY ZenonT(30), <1>1, <1>3 DEF CacheOK
<1>11. HeadOK' BY ZenonT(30), <1>1, <1>3 DEF HeadOK
<1>12. ~Installing' /\ \A t \in Thread : pc'[t] \notin {"write_log", "done"}
  BY ZenonT(30), <1>1, <1>2 DEF Installing, Committer
<1>13. CopiedOK' /\ DoneOK' BY ZenonT(30), <1>1, <1>4, <1>12 DEF CopiedOK, DoneOK
<1>. QED BY ZenonT(30), <1>5, <1>6, <1>7, <1>8, <1>9, <1>10, <1>11, <1>13 DEF IInv

\* Recovery installs a block.
LEMMA recoverStep ==
  ASSUME IInv, recover
  PROVE  IInv'
<1>1. /\ boot = "install_trans" /\ tail <= Len(lh) /\ tail' = tail + 1
      /\ home' = [home EXCEPT ![lh[tail]] = logdisk[tail]]
      /\ cache' = [cache EXCEPT ![lh[tail]] = logdisk[tail]]
      /\ UNCHANGED <<logdisk, head, held, pinned, lh, outstanding, committing, pc, wrote, boot, crashes>>
  BY DEF recover, logVars
<1>2. /\ InOp = {} /\ Committer = {} /\ ~Installing /\ Running /\ pinned = {}
      /\ \A b \in Block : held[b] = NoThread
  BY ZenonT(30), <1>1, DownMeans
<1>3. /\ TypeOK /\ ListOK(lh) /\ ListOK(head) /\ CountOK /\ CacheOK /\ HeadOK /\ CopiedOK
      /\ Len(lh) \in Nat /\ tail \in 1 .. Len(lh) /\ tail \in Nat \ {0}
      /\ \A i \in 1 .. Len(lh) : lh[i] \in Block
  <2>1. TypeOK /\ Len(lh) \in Nat /\ (\A i \in 1 .. Len(lh) : lh[i] \in Block) /\ tail \in Nat \ {0}
    BY ZenonT(30), Lists DEF IInv, TypeOK
  <2>2. tail \in 1 .. Len(lh) BY SMTT(30), <1>1, <2>1
  <2>. QED BY ZenonT(30), <2>1, <2>2 DEF IInv
<1>4. PICK b \in Block : b = lh[tail] BY ZenonT(30), <1>3
<1>5. PICK v \in Val : v = logdisk[tail]
  <2>1. tail \in 1 .. NLOG - 1 BY SMTT(30), <1>3, LogAssumption DEF ListOK
  <2>2. logdisk[tail] # NoVal BY ZenonT(30), <1>1, <1>3 DEF HeadOK
  <2>. QED BY ZenonT(30), <1>3, <2>1, <2>2 DEF TypeOK
<1>6. home' = [home EXCEPT ![b] = v] /\ cache' = [cache EXCEPT ![b] = v]
  BY ZenonT(30), <1>1, <1>4, <1>5
<1>7. TypeOK'
  <2>1. tail' \in Nat \ {0} BY SMTT(30), <1>1, <1>3
  <2>2. home' \in [Block -> Val] /\ cache' \in [Block -> Val \cup {NoVal}] BY ZenonT(30), <1>3, <1>6 DEF TypeOK
  <2>. QED BY ZenonT(30), <1>1, <1>3, <2>1, <2>2 DEF TypeOK
<1>8. ListOK(lh)' /\ ListOK(head)' BY ZenonT(30), <1>1, <1>3 DEF ListOK
<1>9. CountOK' BY ZenonT(30), <1>1, <1>3 DEF CountOK, InOp, Committer, Running
<1>10. HeldOK' BY ZenonT(30), <1>1, <1>2, LogAssumption DEF HeldOK
<1>11. PinOK' BY ZenonT(30), <1>1, <1>2 DEF PinOK
<1>12. CacheOK' BY ZenonT(30), <1>1, <1>2, <1>3, <1>6 DEF CacheOK, TypeOK
<1>13. HeadOK' BY ZenonT(30), <1>1, <1>3 DEF HeadOK
<1>14. ~Installing' /\ \A t \in Thread : pc'[t] \notin {"write_log", "done"}
  BY ZenonT(30), <1>1, <1>2 DEF Installing, Committer
<1>15. \A i \in 1 .. Len(lh) : i < tail + 1 => home'[lh[i]] = logdisk[i]
  <2>1. \A i \in 1 .. Len(lh) : i < tail + 1 <=> i < tail \/ i = tail BY SMTT(30), <1>3
  <2>2. \A i \in 1 .. Len(lh) : lh[i] = b <=> i = tail BY ZenonT(30), <1>3, <1>4 DEF ListOK
  <2>3. \A i \in 1 .. Len(lh) : i < tail => home[lh[i]] = logdisk[i] BY ZenonT(30), <1>1, <1>3 DEF CopiedOK
  <2>4. home'[b] = v /\ \A c \in Block : c # b => home'[c] = home[c] BY ZenonT(30), <1>3, <1>6 DEF TypeOK
  <2>. QED BY ZenonT(30), <1>3, <1>4, <1>5, <2>1, <2>2, <2>3, <2>4
<1>16. CopiedOK' /\ DoneOK' BY ZenonT(30), <1>1, <1>14, <1>15 DEF CopiedOK, DoneOK
<1>. QED BY ZenonT(30), <1>7, <1>8, <1>9, <1>10, <1>11, <1>12, <1>13, <1>16 DEF IInv

\* Recovery ends when all is installed, with an empty log.
LEMMA recover_from_logStep ==
  ASSUME IInv, recover_from_log
  PROVE  IInv'
<1>1. /\ boot = "install_trans" /\ lh' = <<>> /\ head' = <<>> /\ boot' = "up"
      /\ pc' = [t \in Thread |-> "idle"]
      /\ UNCHANGED <<home, logdisk, cache, held, pinned, outstanding, committing, wrote, tail, crashes>>
  BY DEF recover_from_log, buffers
<1>2. /\ InOp = {} /\ Committer = {} /\ Running /\ pinned = {}
      /\ \A b \in Block : held[b] = NoThread
  BY ZenonT(30), <1>1, DownMeans
<1>3. TypeOK /\ CountOK /\ CacheOK BY DEF IInv
<1>4. <<>> \in Seq(Block) /\ Len(<<>>) = 0 /\ \A i : i \notin 1 .. 0 BY SMTT(30)
<1>5. TypeOK'
  <2>1. pc' \in [Thread -> Label] BY ZenonT(30), <1>1 DEF Label
  <2>. QED BY ZenonT(30), <1>1, <1>3, <1>4, <2>1 DEF TypeOK
<1>6. ListOK(lh)' /\ ListOK(head)' BY SMTT(30), <1>1, LogAssumption DEF ListOK
<1>7. InOp' = {} /\ Committer' = {} /\ ~Installing' /\ Running'
  BY ZenonT(30), <1>1 DEF InOp, Committer, Installing, Running
<1>8. CountOK' BY ZenonT(30), <1>1, <1>2, <1>3, <1>7 DEF CountOK
<1>9. HeldOK' BY ZenonT(30), <1>1, <1>2, LogAssumption DEF HeldOK
<1>10. PinOK' BY ZenonT(30), <1>1, <1>2, <1>4 DEF PinOK
<1>11. CacheOK' BY ZenonT(30), <1>1, <1>3 DEF CacheOK
<1>12. HeadOK' BY ZenonT(30), <1>1, <1>4, <1>7 DEF HeadOK
<1>13. CopiedOK' /\ DoneOK' BY ZenonT(30), <1>1, <1>7 DEF CopiedOK, DoneOK
<1>. QED BY ZenonT(30), <1>5, <1>6, <1>8, <1>9, <1>10, <1>11, <1>12, <1>13 DEF IInv

\* A disk as mkfs makes it, with nothing in memory.
LEMMA InitIInv == Init => IInv
<1>. SUFFICES ASSUME Init PROVE IInv
  BY ZenonT(30)
<1>1. /\ home \in [Block -> Val] /\ logdisk = [i \in 1 .. NLOG - 1 |-> NoVal] /\ head = <<>>
      /\ cache = [b \in Block |-> NoVal] /\ held = [b \in Block |-> NoThread] /\ pinned = {}
      /\ lh = <<>> /\ outstanding = 0 /\ committing = FALSE
      /\ pc = [t \in Thread |-> "idle"] /\ wrote = [t \in Thread |-> {}]
      /\ tail = 1 /\ boot = "up"
  BY DEF Init
<1>2. InOp = {} /\ Committer = {} /\ ~Installing BY ZenonT(30), <1>1 DEF InOp, Committer, Installing
<1>3. <<>> \in Seq(Block) /\ Len(<<>>) = 0 /\ (\A i : i \notin 1 .. 0) /\ 0 \in Nat /\ 1 \in Nat \ {0} BY SMTT(30)
<1>4. TypeOK
  <2>1. pc \in [Thread -> Label] /\ wrote \in [Thread -> SUBSET Block] BY ZenonT(30), <1>1 DEF Label
  <2>2. cache \in [Block -> Val \cup {NoVal}] /\ held \in [Block -> Thread \cup {NoThread}] BY ZenonT(30), <1>1
  <2>3. logdisk \in [1 .. NLOG - 1 -> Val \cup {NoVal}] BY ZenonT(30), <1>1
  <2>. QED BY ZenonT(30), <1>1, <1>3, <2>1, <2>2, <2>3 DEF TypeOK
<1>5. ListOK(lh) /\ ListOK(head) BY SMTT(30), <1>1, LogAssumption DEF ListOK
<1>6. CountOK BY ZenonT(30), <1>1, <1>2, FS_EmptySet DEF CountOK
<1>7. HeldOK BY ZenonT(30), <1>1, LogAssumption DEF HeldOK
<1>8. PinOK /\ CacheOK BY ZenonT(30), <1>1, <1>3 DEF PinOK, CacheOK
<1>9. HeadOK BY ZenonT(30), <1>1, <1>2, <1>3 DEF HeadOK
<1>10. CopiedOK /\ DoneOK BY ZenonT(30), <1>1, <1>2 DEF CopiedOK, DoneOK
<1>. QED BY ZenonT(30), <1>4, <1>5, <1>6, <1>7, <1>8, <1>9, <1>10 DEF IInv

\* Every step preserves the invariant.
LEMMA NextIInv == IInv /\ [Next]_vars => IInv'
<1>. SUFFICES ASSUME IInv, [Next]_vars PROVE IInv'
  BY ZenonT(30)
<1>1. CASE UNCHANGED vars
  <2>. USE <1>1 DEF vars, disk, buffers, logVars
  <2>1. TypeOK' BY ZenonT(30) DEF IInv, TypeOK
  <2>2. ListOK(lh)' /\ ListOK(head)' BY ZenonT(30) DEF IInv, ListOK
  <2>3. CountOK' BY ZenonT(30) DEF IInv, CountOK, InOp, Committer, Running
  <2>7. HeldOK' BY ZenonT(30) DEF IInv, HeldOK
  <2>4. PinOK' BY SMTT(30) DEF IInv, PinOK, Installing
  <2>5. CacheOK' /\ HeadOK' BY ZenonT(30) DEF IInv, CacheOK, HeadOK, Installing
  <2>6. CopiedOK' /\ DoneOK' BY ZenonT(30) DEF IInv, CopiedOK, DoneOK, Installing
  <2>. QED BY ZenonT(30), <2>1, <2>2, <2>3, <2>4, <2>5, <2>6, <2>7 DEF IInv
<1>2. ASSUME NEW t \in Thread, Step(t) PROVE IInv'
  BY ZenonT(30), <1>2, begin_opStep, log_writeStep, end_opStep, commitStep, write_logStep, write_headStep,
     install_transStep, clear_headStep, end_commitStep DEF Step, Commit
<1>3. CASE Recovery BY ZenonT(30), <1>3, read_headStep, recoverStep, recover_from_logStep DEF Recovery
<1>. QED BY ZenonT(30), <1>1, <1>2, <1>3, CallStep, ModifyStep, RecycleStep, CrashStep DEF Next

\* The inductive invariant holds in every reachable state: what is in the cache, in the
\* log and at home fit together, whenever a crash comes.
THEOREM LogInvariance == Spec => []IInv
<1>1. Init => IInv BY InitIInv
<1>2. IInv /\ [Next]_vars => IInv' BY NextIInv
<1>. QED BY <1>1, <1>2, PTL DEF Spec
-----------------------------------------------------------------------------
\* Replaying a log: a block of the header gets what is in its place in the log.
LEMMA ReplayIs ==
  ASSUME NEW h, NEW log, NEW homes, \A i, j \in 1 .. Len(h) : h[i] = h[j] => i = j, NEW b \in Block
  PROVE  /\ \A i \in 1 .. Len(h) : h[i] = b => Replay(h, log, homes)[b] = log[i]
         /\ (\A i \in 1 .. Len(h) : h[i] # b) => Replay(h, log, homes)[b] = homes[b]
<1>1. ASSUME NEW i \in 1 .. Len(h), h[i] = b PROVE Replay(h, log, homes)[b] = log[i]
  <2>. DEFINE c == CHOOSE j \in 1 .. Len(h) : h[j] = b
  <2>1. c \in 1 .. Len(h) /\ h[c] = b BY ZenonT(30), <1>1
  <2>2. c = i BY ZenonT(30), <1>1, <2>1
  <2>3. Replay(h, log, homes)[b] = log[c] BY ZenonT(30), <1>1 DEF Replay
  <2>. QED BY <2>2, <2>3
<1>2. (\A i \in 1 .. Len(h) : h[i] # b) => Replay(h, log, homes)[b] = homes[b]
  BY ZenonT(30) DEF Replay
<1>. QED BY <1>1, <1>2

\* An empty header changes nothing.
LEMMA ReplayNothing ==
  ASSUME NEW log, NEW homes PROVE Replay(<<>>, log, homes) = [b \in Block |-> homes[b]]
<1>1. \A i : i \notin 1 .. Len(<<>>) BY SMTT(30)
<1>. QED BY ZenonT(30), <1>1 DEF Replay

\* Replaying a log again, or the rest of it, makes no difference.
LEMMA ReplayAgain ==
  ASSUME NEW h, NEW log, NEW homes, NEW homes2,
         \A i, j \in 1 .. Len(h) : h[i] = h[j] => i = j,
         \A b \in Block : (\A i \in 1 .. Len(h) : h[i] # b) => homes2[b] = homes[b]
  PROVE  Replay(h, log, homes2) = Replay(h, log, homes)
<1>1. ASSUME NEW b \in Block PROVE Replay(h, log, homes2)[b] = Replay(h, log, homes)[b]
  <2>1. /\ \A i \in 1 .. Len(h) : h[i] = b => Replay(h, log, homes)[b] = log[i]
        /\ (\A i \in 1 .. Len(h) : h[i] # b) => Replay(h, log, homes)[b] = homes[b]
    BY ReplayIs
  <2>2. /\ \A i \in 1 .. Len(h) : h[i] = b => Replay(h, log, homes2)[b] = log[i]
        /\ (\A i \in 1 .. Len(h) : h[i] # b) => Replay(h, log, homes2)[b] = homes2[b]
    BY ReplayIs
  <2>. QED BY ZenonT(30), <2>1, <2>2
<1>. QED BY ZenonT(30), <1>1 DEF Replay

\* Once every block of the header is at home, it can be cleared.
LEMMA ReplayDone ==
  ASSUME NEW h, NEW log, NEW homes,
         \A i, j \in 1 .. Len(h) : h[i] = h[j] => i = j,
         \A i \in 1 .. Len(h) : homes[h[i]] = log[i]
  PROVE  Replay(h, log, homes) = Replay(<<>>, log, homes)
<1>1. ASSUME NEW b \in Block PROVE Replay(h, log, homes)[b] = homes[b]
  <2>1. /\ \A i \in 1 .. Len(h) : h[i] = b => Replay(h, log, homes)[b] = log[i]
        /\ (\A i \in 1 .. Len(h) : h[i] # b) => Replay(h, log, homes)[b] = homes[b]
    BY ReplayIs
  <2>. QED BY ZenonT(30), <2>1
<1>2. Replay(h, log, homes) = [b \in Block |-> homes[b]] BY ZenonT(30), <1>1 DEF Replay
<1>. QED BY ZenonT(30), <1>2, ReplayNothing
-----------------------------------------------------------------------------
\* Whatever keeps the disk keeps what recovery would make of it.
LEMMA SameDisk == ASSUME UNCHANGED <<home, logdisk, head>> PROVE Recovered' = Recovered
BY ZenonT(30) DEF Recovered, Replay

\* Whatever keeps the cache, too, keeps what readers see.
LEMMA SameView ==
  ASSUME UNCHANGED <<home, cache, boot>>, Recovered' = Recovered PROVE View' = View
<1>1. [b \in Block |-> bread(b)]' = [b \in Block |-> bread(b)] BY ZenonT(30) DEF bread
<1>. QED BY ZenonT(30), <1>1 DEF View

\* Between commits, the disk is its home blocks.
LEMMA NoHead == ASSUME head = <<>>, TypeOK PROVE Recovered = home
<1>1. home = [b \in Block |-> home[b]] BY ZenonT(30) DEF TypeOK
<1>. QED BY ZenonT(30), <1>1, ReplayNothing DEF Recovered

\* begin_op begins an abstract operation, if it does not sleep.
LEMMA begin_opAtomic ==
  ASSUME IInv, NEW t \in Thread, begin_op(t) PROVE [Atomic!Next]_(Atomic!vars)
<1>1. UNCHANGED <<home, logdisk, head, cache, boot>> BY ZenonT(30) DEF begin_op, disk, buffers
<1>2. Recovered' = Recovered /\ View' = View BY ZenonT(30), <1>1, SameDisk, SameView
<1>3. outstanding' = outstanding \/ outstanding' = outstanding + 1 BY ZenonT(30) DEF begin_op
<1>. QED BY ZenonT(30), <1>2, <1>3 DEF Atomic!Next, Atomic!Begin, Atomic!vars

\* A buffer is changed inside of an operation.
LEMMA ModifyAtomic ==
  ASSUME IInv, Running, NEW t \in Thread, NEW b \in Block, NEW v \in Val, Modify(t, b, v)
  PROVE  Atomic!Write
<1>1. t \in InOp BY DEF InOp, Modify
<1>2. boot = "up" /\ outstanding # 0 BY ZenonT(30), <1>1, OpMeans
<1>3. outstanding > 0 BY SMTT(30), <1>2 DEF IInv, TypeOK
<1>4. UNCHANGED <<home, logdisk, head, boot, outstanding>> /\ cache' = [cache EXCEPT ![b] = v]
  BY ZenonT(30) DEF Modify, disk, logVars
<1>5. Recovered' = Recovered BY ZenonT(30), <1>4, SameDisk
<1>6. cache \in [Block -> Val \cup {NoVal}] BY DEF IInv, TypeOK
<1>7. \A c \in Block : bread(c)' = IF c = b THEN v ELSE bread(c)
  BY SMTT(30), <1>4, <1>6, LogAssumption DEF bread
<1>8. View' = [c \in Block |-> bread(c)'] /\ View = [c \in Block |-> bread(c)] BY ZenonT(30), <1>2, <1>4 DEF View
<1>9. View' = [View EXCEPT ![b] = v] BY ZenonT(30), <1>7, <1>8
<1>. QED BY ZenonT(30), <1>3, <1>4, <1>5, <1>9 DEF Atomic!Write

\* A recycled buffer is read back with the same contents.
LEMMA RecycleAtomic ==
  ASSUME IInv, NEW b \in Block, Recycle(b) PROVE UNCHANGED Atomic!vars
<1>1. UNCHANGED <<home, logdisk, head, boot, outstanding>> /\ cache' = [cache EXCEPT ![b] = NoVal]
  BY ZenonT(30) DEF Recycle, disk, logVars
<1>2. Recovered' = Recovered BY ZenonT(30), <1>1, SameDisk
<1>3. cache[b] = home[b] BY ZenonT(30) DEF IInv, CacheOK, Recycle
<1>4. cache \in [Block -> Val \cup {NoVal}] BY DEF IInv, TypeOK
<1>5. \A c \in Block : bread(c)' = bread(c)
  BY SMTT(30), <1>1, <1>3, <1>4 DEF bread, Recycle
<1>6. View' = View BY ZenonT(30), <1>1, <1>2, <1>5 DEF View
<1>. QED BY ZenonT(30), <1>1, <1>2, <1>6 DEF Atomic!vars

\* end_op ends an abstract operation.
LEMMA end_opAtomic ==
  ASSUME IInv, Running, NEW t \in Thread, end_op(t) PROVE Atomic!End
<1>1. t \in InOp BY DEF InOp, end_op
<1>2. outstanding # 0 BY ZenonT(30), <1>1, OpMeans
<1>3. outstanding > 0 BY SMTT(30), <1>2 DEF IInv, TypeOK
<1>4. UNCHANGED <<home, logdisk, head, cache, boot>> /\ outstanding' = outstanding - 1
  BY ZenonT(30) DEF end_op, disk, buffers
<1>5. Recovered' = Recovered /\ View' = View BY ZenonT(30), <1>4, SameDisk, SameView
<1>. QED BY ZenonT(30), <1>3, <1>4, <1>5 DEF Atomic!End

\* The steps that touch neither disk nor buffers.
LEMMA QuietAtomic ==
  ASSUME NEW t \in Thread, Call(t) \/ commit(t) \/ end_commit(t) \/ \E b \in Block : log_write(t, b)
  PROVE  UNCHANGED Atomic!vars
<1>1. UNCHANGED <<home, logdisk, head, cache, boot, outstanding>>
  BY ZenonT(30) DEF Call, commit, end_commit, log_write, disk, buffers, logVars
<1>2. Recovered' = Recovered /\ View' = View BY ZenonT(30), <1>1, SameDisk, SameView
<1>. QED BY ZenonT(30), <1>1, <1>2 DEF Atomic!vars

\* The log blocks mean nothing while the header is empty.
LEMMA write_logAtomic ==
  ASSUME IInv, Running, NEW t \in Thread, write_log(t) PROVE UNCHANGED Atomic!vars
<1>1. t \in Committer /\ pc[t] = "write_log" BY DEF Committer, write_log
<1>2. ~Installing /\ boot = "up" BY ZenonT(30), <1>1, CommitterMeans
<1>3. UNCHANGED <<home, head, cache, boot, outstanding>> BY ZenonT(30) DEF write_log, buffers, logVars
<1>4. head = <<>> BY ZenonT(30), <1>2 DEF IInv, HeadOK
<1>5. Recovered' = [b \in Block |-> home'[b]] /\ Recovered = [b \in Block |-> home[b]]
  <2>1. Recovered = Replay(<<>>, logdisk, home) /\ Recovered' = Replay(<<>>, logdisk', home')
    BY ZenonT(30), <1>3, <1>4 DEF Recovered
  <2>2. Replay(<<>>, logdisk, home) = [b \in Block |-> home[b]] BY ReplayNothing
  <2>3. Replay(<<>>, logdisk', home') = [b \in Block |-> home'[b]] BY ReplayNothing
  <2>. QED BY ZenonT(30), <2>1, <2>2, <2>3
<1>6. Recovered' = Recovered BY ZenonT(30), <1>3, <1>5
<1>7. View' = View BY ZenonT(30), <1>3, <1>6, SameView
<1>. QED BY ZenonT(30), <1>3, <1>6, <1>7 DEF Atomic!vars

\* The header makes the log count, in one disk write: recovery now yields what readers see.
LEMMA write_headAtomic ==
  ASSUME IInv, Running, NEW t \in Thread, write_head(t) PROVE Atomic!Commit
<1>1. t \in Committer /\ pc[t] = "write_log" BY DEF Committer, write_head
<1>2. ~Installing /\ boot = "up" /\ outstanding = 0 /\ \A b \in Block : held[b] = NoThread
  BY ZenonT(30), <1>1, CommitterMeans
<1>3. UNCHANGED <<home, logdisk, cache, boot, outstanding>> /\ head' = lh /\ tail > Len(lh)
  BY ZenonT(30) DEF write_head, buffers, logVars
<1>4. /\ TypeOK /\ PinOK /\ CacheOK /\ CopiedOK /\ Len(lh) \in Nat
      /\ \A i, j \in 1 .. Len(lh) : lh[i] = lh[j] => i = j
      /\ \A i \in 1 .. Len(lh) : lh[i] \in Block
  BY ZenonT(30), Lists DEF IInv, ListOK
<1>5. pinned = {lh[i] : i \in 1 .. Len(lh)} BY SMTT(30), <1>2, <1>4 DEF PinOK
<1>6. \A i \in 1 .. Len(lh) : i < tail BY SMTT(30), <1>3, <1>4 DEF TypeOK
<1>7. ASSUME NEW b \in Block PROVE Replay(lh, logdisk, home)[b] = bread(b)
  <2>1. /\ \A i \in 1 .. Len(lh) : lh[i] = b => Replay(lh, logdisk, home)[b] = logdisk[i]
        /\ (\A i \in 1 .. Len(lh) : lh[i] # b) => Replay(lh, logdisk, home)[b] = home[b]
    BY <1>4, ReplayIs
  <2>2. CASE b \in pinned
    <3>1. PICK i \in 1 .. Len(lh) : lh[i] = b BY ZenonT(30), <1>5, <2>2
    <3>2. logdisk[i] = cache[b] BY ZenonT(30), <1>1, <1>4, <1>6, <3>1 DEF CopiedOK
    <3>3. bread(b) = cache[b] BY ZenonT(30), <1>4, <2>2 DEF CacheOK, bread
    <3>. QED BY ZenonT(30), <2>1, <3>1, <3>2, <3>3
  <2>3. CASE b \notin pinned
    <3>1. \A i \in 1 .. Len(lh) : lh[i] # b BY ZenonT(30), <1>5, <2>3
    <3>2. bread(b) = home[b] BY ZenonT(30), <1>2, <1>4, <2>3 DEF CacheOK, bread
    <3>. QED BY ZenonT(30), <2>1, <3>1, <3>2
  <2>. QED BY <2>2, <2>3
<1>8. Recovered' = Replay(lh, logdisk, home) BY ZenonT(30), <1>3 DEF Recovered
<1>9. Replay(lh, logdisk, home) = [b \in Block |-> bread(b)] BY ZenonT(30), <1>7 DEF Replay
<1>10. View = [b \in Block |-> bread(b)] /\ View' = [b \in Block |-> bread(b)]
  BY ZenonT(30), <1>2, <1>3 DEF View, bread
<1>. QED BY ZenonT(30), <1>2, <1>3, <1>8, <1>9, <1>10 DEF Atomic!Commit

\* Installing a block moves it home, from where recovery and readers see it as before.
LEMMA install_transAtomic ==
  ASSUME IInv, Running, NEW t \in Thread, install_trans(t) PROVE UNCHANGED Atomic!vars
<1>1. t \in Committer /\ pc[t] = "install_trans" BY DEF Committer, install_trans
<1>2. Installing /\ boot = "up" BY ZenonT(30), <1>1, CommitterMeans
<1>3. /\ UNCHANGED <<logdisk, head, boot, outstanding>> /\ tail <= Len(lh)
      /\ home' = [home EXCEPT ![lh[tail]] = logdisk[tail]]
      /\ cache' = [cache EXCEPT ![lh[tail]] = logdisk[tail]]
  BY ZenonT(30) DEF install_trans, logVars
<1>4. /\ TypeOK /\ HeadOK /\ CopiedOK /\ ListOK(head)
      /\ Len(lh) \in Nat /\ \A i \in 1 .. Len(lh) : lh[i] \in Block
  BY ZenonT(30), Lists DEF IInv
<1>5. tail \in 1 .. Len(lh) /\ tail <= tail BY SMTT(30), <1>3, <1>4 DEF TypeOK
<1>6. head = lh BY ZenonT(30), <1>2, <1>4 DEF HeadOK
<1>7. PICK b \in Block : b = lh[tail] BY ZenonT(30), <1>4, <1>5
<1>8. logdisk[tail] # NoVal /\ logdisk[tail] = cache[b]
  BY ZenonT(30), <1>2, <1>4, <1>5, <1>6, <1>7 DEF HeadOK, CopiedOK
<1>9. \A c \in Block : /\ c # b => home'[c] = home[c] /\ cache'[c] = cache[c]
                       /\ c = b => cache'[c] = cache[c] /\ cache[c] # NoVal
  BY ZenonT(30), <1>3, <1>4, <1>7, <1>8 DEF TypeOK
<1>10. Replay(head, logdisk, home') = Replay(head, logdisk, home)
  <2>1. \A c \in Block : (\A i \in 1 .. Len(head) : head[i] # c) => home'[c] = home[c]
    BY ZenonT(30), <1>5, <1>6, <1>7, <1>9
  <2>2. \A i, j \in 1 .. Len(head) : head[i] = head[j] => i = j BY ZenonT(30), <1>4 DEF ListOK
  <2>. QED BY <2>1, <2>2, ReplayAgain
<1>11. Recovered' = Recovered BY ZenonT(30), <1>3, <1>10 DEF Recovered
<1>12. \A c \in Block : bread(c)' = bread(c) BY ZenonT(30), <1>9 DEF bread
<1>13. View' = View BY ZenonT(30), <1>2, <1>3, <1>12 DEF View
<1>. QED BY ZenonT(30), <1>3, <1>11, <1>13 DEF Atomic!vars

\* When all is at home, the header is no longer needed.
LEMMA clear_headAtomic ==
  ASSUME IInv, Running, NEW t \in Thread, clear_head(t) PROVE UNCHANGED Atomic!vars
<1>1. t \in Committer /\ pc[t] = "install_trans" BY DEF Committer, clear_head
<1>2. Installing /\ boot = "up" BY ZenonT(30), <1>1, CommitterMeans
<1>3. UNCHANGED <<home, logdisk, cache, boot, outstanding>> /\ head' = <<>> /\ tail > Len(lh)
  BY ZenonT(30) DEF clear_head, buffers
<1>4. TypeOK /\ HeadOK /\ CopiedOK /\ ListOK(head) /\ Len(lh) \in Nat BY ZenonT(30), Lists DEF IInv
<1>5. \A i \in 1 .. Len(lh) : i < tail BY SMTT(30), <1>3, <1>4 DEF TypeOK
<1>6. head = lh BY ZenonT(30), <1>2, <1>4 DEF HeadOK
<1>7. \A i \in 1 .. Len(head) : home[head[i]] = logdisk[i] BY ZenonT(30), <1>2, <1>4, <1>5, <1>6 DEF CopiedOK
<1>8. Replay(head, logdisk, home) = Replay(<<>>, logdisk, home)
  <2>1. \A i, j \in 1 .. Len(head) : head[i] = head[j] => i = j BY ZenonT(30), <1>4 DEF ListOK
  <2>. QED BY <1>7, <2>1, ReplayDone
<1>9. Recovered' = Recovered BY ZenonT(30), <1>3, <1>8 DEF Recovered
<1>10. View' = View BY ZenonT(30), <1>3, <1>9, SameView
<1>. QED BY ZenonT(30), <1>3, <1>9, <1>10 DEF Atomic!vars

\* A crash leaves what recovery makes of the disk, and no operation in progress.
LEMMA CrashAtomic == ASSUME Crash PROVE Atomic!Crash
<1>1. UNCHANGED <<home, logdisk, head>> /\ boot' = "read_head" /\ outstanding' = 0 BY ZenonT(30) DEF Crash, disk
<1>2. Recovered' = Recovered BY ZenonT(30), <1>1, SameDisk
<1>3. View' = Recovered' BY ZenonT(30), <1>1 DEF View
<1>. QED BY ZenonT(30), <1>1, <1>2, <1>3 DEF Atomic!Crash

\* Recovery changes nothing that is promised: it can be interrupted and repeated.
LEMMA RecoveryAtomic == ASSUME IInv, Recovery PROVE UNCHANGED Atomic!vars
<1>0. TypeOK /\ HeadOK /\ CopiedOK /\ CacheOK /\ ListOK(head) /\ Len(head) \in Nat
  BY ZenonT(30), Lists DEF IInv
<1>a. \A i, j \in 1 .. Len(head) : head[i] = head[j] => i = j BY ZenonT(30), <1>0 DEF ListOK
<1>1. CASE read_head
  <2>1. UNCHANGED <<home, logdisk, head, outstanding>> /\ boot = "read_head" /\ boot' = "install_trans"
    BY ZenonT(30), <1>1 DEF read_head, disk
  <2>2. Recovered' = Recovered BY ZenonT(30), <2>1, SameDisk
  <2>3. View = Recovered /\ View' = Recovered' BY ZenonT(30), <2>1 DEF View
  <2>. QED BY ZenonT(30), <2>1, <2>2, <2>3 DEF Atomic!vars
<1>2. CASE recover
  <2>1. /\ UNCHANGED <<logdisk, head, boot, outstanding>> /\ tail <= Len(lh) /\ boot = "install_trans"
        /\ home' = [home EXCEPT ![lh[tail]] = logdisk[tail]]
    BY ZenonT(30), <1>2 DEF recover, logVars
  <2>2. head = lh BY ZenonT(30), <1>0, <2>1 DEF HeadOK
  <2>3. tail \in 1 .. Len(head) BY SMTT(30), <1>0, <2>1, <2>2 DEF TypeOK
  <2>4. \A c \in Block : (\A i \in 1 .. Len(head) : head[i] # c) => home'[c] = home[c]
    BY ZenonT(30), <1>0, <2>1, <2>2, <2>3 DEF TypeOK
  <2>5. Replay(head, logdisk, home') = Replay(head, logdisk, home) BY <1>a, <2>4, ReplayAgain
  <2>6. Recovered' = Recovered BY ZenonT(30), <2>1, <2>5 DEF Recovered
  <2>7. View = Recovered /\ View' = Recovered' BY ZenonT(30), <2>1 DEF View
  <2>. QED BY ZenonT(30), <2>1, <2>6, <2>7 DEF Atomic!vars
<1>3. CASE recover_from_log
  <2>1. /\ UNCHANGED <<home, logdisk, cache, outstanding>> /\ head' = <<>> /\ tail > Len(lh)
        /\ boot = "install_trans" /\ boot' = "up"
    BY ZenonT(30), <1>3 DEF recover_from_log, buffers
  <2>2. head = lh BY ZenonT(30), <1>0, <2>1 DEF HeadOK
  <2>3. \A i \in 1 .. Len(head) : i < tail BY SMTT(30), <1>0, <2>1, <2>2 DEF TypeOK
  <2>4. \A i \in 1 .. Len(head) : home[head[i]] = logdisk[i] BY ZenonT(30), <1>0, <2>1, <2>2, <2>3 DEF CopiedOK
  <2>5. Replay(head, logdisk, home) = Replay(<<>>, logdisk, home) BY <1>a, <2>4, ReplayDone
  <2>6. Recovered' = Recovered BY ZenonT(30), <2>1, <2>5 DEF Recovered
  <2>7. Recovered = [b \in Block |-> home[b]]
    <3>1. Replay(<<>>, logdisk, home) = [b \in Block |-> home[b]] BY ReplayNothing
    <3>. QED BY ZenonT(30), <2>5, <3>1 DEF Recovered
  <2>8. pinned = {} /\ \A b \in Block : held[b] = NoThread BY ZenonT(30), <2>1, DownMeans
  <2>9. \A b \in Block : bread(b)' = home[b] BY ZenonT(30), <1>0, <2>1, <2>8 DEF CacheOK, bread
  <2>10. View' = [b \in Block |-> home[b]] BY ZenonT(30), <2>1, <2>9 DEF View
  <2>11. View = Recovered BY ZenonT(30), <2>1 DEF View
  <2>. QED BY ZenonT(30), <2>1, <2>6, <2>7, <2>10, <2>11 DEF Atomic!vars
<1>. QED BY ZenonT(30), <1>1, <1>2, <1>3 DEF Recovery

\* Every step of the log is a step of the abstract disk, or none.
LEMMA NextAtomic == IInv /\ [Next]_vars => [Atomic!Next]_(Atomic!vars)
<1>. SUFFICES ASSUME IInv, [Next]_vars PROVE Atomic!Next \/ UNCHANGED Atomic!vars
  BY ZenonT(30)
<1>1. CASE UNCHANGED vars
  <2>1. UNCHANGED <<home, logdisk, head, cache, boot, outstanding>>
    BY ZenonT(30), <1>1 DEF vars, disk, buffers, logVars
  <2>2. Recovered' = Recovered /\ View' = View BY ZenonT(30), <2>1, SameDisk, SameView
  <2>. QED BY ZenonT(30), <2>1, <2>2 DEF Atomic!vars
<1>2. ASSUME NEW t \in Thread, Step(t) PROVE Atomic!Next \/ UNCHANGED Atomic!vars
  BY ZenonT(30), <1>2, begin_opAtomic, end_opAtomic, QuietAtomic, write_logAtomic, write_headAtomic,
     install_transAtomic, clear_headAtomic DEF Step, Commit, Atomic!Next
<1>3. CASE Crash BY ZenonT(30), <1>3, CrashAtomic DEF Atomic!Next
<1>4. CASE Recovery BY ZenonT(30), <1>4, RecoveryAtomic
<1>5. ASSUME NEW t \in Thread, Running, Call(t) PROVE UNCHANGED Atomic!vars BY ZenonT(30), <1>5, QuietAtomic
<1>6. ASSUME NEW t \in Thread, NEW b \in Block, NEW v \in Val, Running, Modify(t, b, v) PROVE Atomic!Next
  BY ZenonT(30), <1>6, ModifyAtomic DEF Atomic!Next
<1>7. ASSUME NEW b \in Block, Recycle(b) PROVE UNCHANGED Atomic!vars BY ZenonT(30), <1>7, RecycleAtomic
<1>. QED BY ZenonT(30), <1>1, <1>2, <1>3, <1>4, <1>5, <1>6, <1>7 DEF Next

\* A new disk is an abstract disk with no operation in progress.
LEMMA InitAtomic == Init => Atomic!Init
<1>. SUFFICES ASSUME Init PROVE Atomic!Init
  BY ZenonT(30)
<1>1. /\ home \in [Block -> Val] /\ head = <<>> /\ cache = [b \in Block |-> NoVal]
      /\ outstanding = 0 /\ boot = "up"
  BY DEF Init
<1>2. Recovered = [b \in Block |-> home[b]]
  <2>1. Replay(<<>>, logdisk, home) = [b \in Block |-> home[b]] BY ReplayNothing
  <2>. QED BY ZenonT(30), <1>1, <2>1 DEF Recovered
<1>3. View = [b \in Block |-> home[b]] BY ZenonT(30), <1>1 DEF View, bread
<1>. QED BY ZenonT(30), <1>1, <1>2, <1>3 DEF Atomic!Init

\* Operations are atomic across crashes: a crash between any two disk writes of a commit
\* or of a recovery leaves all writes of a transaction or none, for any number of threads,
\* blocks and crashes and any size of the log.
THEOREM CrashSafe == Spec => ImplementsAtomicDisk
<1>1. Init => Atomic!Init BY InitAtomic
<1>2. IInv /\ [Next]_vars => [Atomic!Next]_(Atomic!vars) BY NextAtomic
<1>. QED BY <1>1, <1>2, LogInvariance, PTL DEF Spec, ImplementsAtomicDisk, Atomic!Spec

\* The reservation counts only what the operations in progress have to do with.
LEMMA SpaceSame ==
  ASSUME SpaceOK, InOp' = InOp, UNCHANGED <<lh, wrote>>,
         \A t \in Thread, b \in Block : held'[b] = t => Cardinality(wrote[t] \cup {b}) <= MAXOPBLOCKS
  PROVE  SpaceOK'
<1>1. Used' = Used /\ Logged' = Logged BY ZenonT(30) DEF Used, Logged
<1>2. SpaceIsReserved' BY ZenonT(30), <1>1 DEF SpaceOK, SpaceIsReserved
<1>. QED BY ZenonT(30), <1>1, <1>2 DEF SpaceOK

\* Without operations in progress it is the size of the transaction that must fit.
LEMMA SpaceNoOps ==
  ASSUME IInv', InOp' = {},
         \A t \in Thread : IsFiniteSet(wrote'[t]) /\ Cardinality(wrote'[t]) <= MAXOPBLOCKS,
         \A b \in Block : held'[b] = NoThread
  PROVE  SpaceOK'
<1>1. Used' = {} BY ZenonT(30) DEF Used
<1>2. Cardinality(InOp') = 0 /\ Cardinality(Used') = 0 /\ IsFiniteSet(Used') BY ZenonT(30), <1>1, FS_EmptySet
<1>3. Len(lh') \in Nat /\ Len(lh') <= LOGSIZE BY SMTT(30) DEF IInv, TypeOK, ListOK
<1>4. SpaceIsReserved' BY SMTT(30), <1>2, <1>3, LogAssumption DEF SpaceIsReserved
<1>5. \A t \in Thread, b \in Block : held'[b] # t BY ZenonT(30), LogAssumption
<1>. QED BY ZenonT(30), <1>2, <1>4, <1>5 DEF SpaceOK

\* An operation that ends gives back what it did not use.
LEMMA SpaceLeave ==
  ASSUME IInv, SpaceOK, NEW t \in InOp, InOp' = InOp \ {t}, UNCHANGED <<lh, wrote, held>>
  PROVE  SpaceOK'
<1>. DEFINE own == {t} \X wrote[t]
<1>1. t \in Thread /\ IsFiniteSet(InOp) /\ IsFiniteSet(Used) BY ZenonT(30) DEF InOp, IInv, CountOK, SpaceOK
<1>2. IsFiniteSet(wrote[t]) /\ Cardinality(wrote[t]) <= MAXOPBLOCKS BY ZenonT(30), <1>1 DEF SpaceOK
<1>3. Used' = Used \ own /\ Logged' = Logged BY SMTT(30), <1>1 DEF Used, Logged
<1>. HIDE DEF own
<1>4. IsFiniteSet(Used') /\ Cardinality(Used') = Cardinality(Used) - Cardinality(Used \cap own)
  BY ZenonT(30), <1>1, <1>3, FS_Difference
<1>5. IsFiniteSet(own) /\ Cardinality(own) <= MAXOPBLOCKS
  <2>1. IsFiniteSet({t}) /\ Cardinality({t}) = 1 BY FS_Singleton
  <2>2. IsFiniteSet(own) /\ Cardinality(own) = Cardinality({t}) * Cardinality(wrote[t])
    BY <2>1, <1>2, FS_Product DEF own
  <2>3. Cardinality(wrote[t]) \in Nat BY <1>2, FS_CardinalityType
  <2>. QED BY SMTT(30), <1>2, <2>1, <2>2, <2>3
<1>6. IsFiniteSet(Used \cap own) /\ Cardinality(Used \cap own) <= Cardinality(own)
  BY ZenonT(30), <1>5, FS_Subset
<1>7. Cardinality(InOp') = Cardinality(InOp) - 1 BY ZenonT(30), <1>1, FS_RemoveElement
<1>8. /\ Cardinality(InOp) \in Nat /\ Cardinality(Used) \in Nat
      /\ Cardinality(Used \cap own) \in Nat /\ Cardinality(own) \in Nat
  BY ZenonT(30), <1>1, <1>5, <1>6, FS_CardinalityType
<1>9. SpaceIsReserved'
  <2>1. ASSUME NEW k \in Nat, NEW m \in Nat PROVE (k - 1) * m = k * m - m BY SMTT(30)
  <2>2. (Cardinality(InOp) - 1) * MAXOPBLOCKS = Cardinality(InOp) * MAXOPBLOCKS - MAXOPBLOCKS
    BY ZenonT(30), <2>1, <1>8, LogAssumption
  <2>3. PICK k \in Int : k = Cardinality(InOp) * MAXOPBLOCKS BY SMTT(30), <1>8, LogAssumption
  <2>4. Len(lh) \in Nat BY SMTT(30) DEF IInv, TypeOK
  <2>5. Len(lh) + (k - Cardinality(Used)) <= LOGSIZE BY ZenonT(30), <2>3 DEF SpaceOK, SpaceIsReserved
  <2>6. SpaceIsReserved' = (Len(lh) + ((k - MAXOPBLOCKS) - Cardinality(Used')) <= LOGSIZE)
    BY ZenonT(30), <1>7, <2>2, <2>3 DEF SpaceIsReserved
  <2>7. Len(lh) + ((k - MAXOPBLOCKS) - Cardinality(Used')) <= LOGSIZE
    BY SMTT(30), <1>4, <1>5, <1>6, <1>8, <2>4, <2>5, LogAssumption
  <2>. QED BY ZenonT(30), <2>6, <2>7
<1>. QED BY ZenonT(30), <1>3, <1>4, <1>9 DEF SpaceOK

\* begin_op admits an operation when it and those in progress can log all they may.
LEMMA begin_opSpace ==
  ASSUME IInv, SpaceOK, NEW t \in Thread, Running, begin_op(t) PROVE SpaceOK'
<1>1. t \notin InOp /\ \A b \in Block : held[b] # t
  BY ZenonT(30) DEF InOp, begin_op, IInv, HeldOK
<1>2. wrote' = [wrote EXCEPT ![t] = {}] /\ UNCHANGED <<lh, held>> /\ Logged' = Logged
  BY ZenonT(30) DEF begin_op, buffers, Logged
<1>3. TypeOK BY DEF IInv
<1>4. \A u \in Thread : u # t => wrote'[u] = wrote[u] BY ZenonT(30), <1>2, <1>3 DEF TypeOK
<1>5. wrote'[t] = {} BY ZenonT(30), <1>2, <1>3 DEF TypeOK
<1>6. \A u \in Thread : IsFiniteSet(wrote'[u]) /\ Cardinality(wrote'[u]) <= MAXOPBLOCKS
  <2>1. 0 <= MAXOPBLOCKS BY SMTT(30), LogAssumption
  <2>. QED BY ZenonT(30), <1>4, <1>5, <2>1, FS_EmptySet DEF SpaceOK
<1>7. \A u \in Thread, b \in Block : held'[b] = u => Cardinality(wrote'[u] \cup {b}) <= MAXOPBLOCKS
  BY ZenonT(30), <1>1, <1>2, <1>4 DEF SpaceOK
<1>8. InOp' = InOp \/ InOp' = InOp \cup {t}
  BY ZenonT(30), <1>1, <1>3 DEF InOp, TypeOK, begin_op, Goto
<1>9. Used' = Used BY SMTT(30), <1>1, <1>4, <1>5, <1>8 DEF Used, InOp
<1>10. \A u \in InOp' : wrote'[u] \subseteq Logged'
  BY ZenonT(30), <1>1, <1>2, <1>4, <1>5, <1>8 DEF SpaceOK, InOp
<1>11. SpaceIsReserved'
  <2>1. CASE InOp' = InOp BY ZenonT(30), <1>2, <1>9, <2>1 DEF SpaceOK, SpaceIsReserved
  <2>2. CASE InOp' # InOp
    <3>1. InOp' = InOp \cup {t} BY ZenonT(30), <1>8, <2>2
    <3>2. IsFiniteSet(InOp) /\ outstanding = Cardinality(InOp) BY ZenonT(30) DEF IInv, CountOK
    <3>3. Cardinality(InOp') = outstanding + 1 BY ZenonT(30), <1>1, <3>1, <3>2, FS_AddElement
    <3>4. ~(Len(lh) + (outstanding + 1) * MAXOPBLOCKS > LOGSIZE)
      <4>1. pc'[t] \in {"op", "log_write"} BY ZenonT(30), <1>1, <3>1 DEF InOp
      <4>2. pc'[t] # "asleep" BY ZenonT(30), <4>1
      <4>. QED BY ZenonT(30), <1>3, <4>2 DEF begin_op, Goto, TypeOK
    <3>5. PICK k \in Int : k = (outstanding + 1) * MAXOPBLOCKS
      BY SMTT(30), <1>3, LogAssumption DEF TypeOK
    <3>6. ~(Len(lh) + k > LOGSIZE) BY ZenonT(30), <3>4, <3>5
    <3>7. Cardinality(Used) \in Nat BY ZenonT(30), FS_CardinalityType DEF SpaceOK
    <3>8. Len(lh) \in Nat BY ZenonT(30), <1>3, Lists
    <3>9. Len(lh) + (k - Cardinality(Used)) <= LOGSIZE BY SMTT(30), <3>6, <3>7, <3>8, LogAssumption
    <3>. QED BY ZenonT(30), <1>2, <1>9, <3>3, <3>5, <3>9 DEF SpaceIsReserved
  <2>. QED BY <2>1, <2>2
<1>. QED BY ZenonT(30), <1>6, <1>7, <1>9, <1>10, <1>11 DEF SpaceOK

\* A block takes new room in the log only from an operation that had not logged it.
LEMMA log_writeSpace ==
  ASSUME IInv, SpaceOK, NEW t \in Thread, NEW b \in Block, Running, log_write(t, b) PROVE SpaceOK'
<1>0. t \in InOp /\ TypeOK /\ held[b] = t BY ZenonT(30) DEF InOp, log_write, IInv
<1>1. CASE pc' = [pc EXCEPT ![t] = "panic"] /\ UNCHANGED <<lh, wrote, held>>
  <2>1. InOp' = InOp \ {t} BY ZenonT(30), <1>0, <1>1 DEF InOp, TypeOK
  <2>. QED BY <1>0, <1>1, <2>1, SpaceLeave
<1>2. CASE /\ lh' = IF b \in Logged THEN lh ELSE Append(lh, b)
           /\ wrote' = [wrote EXCEPT ![t] = @ \cup {b}]
           /\ held' = [held EXCEPT ![b] = NoThread]
           /\ pc' = [pc EXCEPT ![t] = "op"]
  <2>. USE <1>0, <1>2
  <2>1. InOp' = InOp BY ZenonT(30) DEF InOp, TypeOK
  <2>2. /\ wrote'[t] = wrote[t] \cup {b} /\ \A u \in Thread : u # t => wrote'[u] = wrote[u]
        /\ held'[b] = NoThread /\ \A c \in Block : c # b => held'[c] = held[c]
    BY ZenonT(30) DEF TypeOK
  <2>3. Logged' = Logged \cup {b}
    <3>1. CASE b \in Logged BY ZenonT(30), <3>1 DEF Logged
    <3>2. CASE b \notin Logged
      <4>1. lh' = Append(lh, b) /\ lh \in Seq(Block) BY ZenonT(30), <3>2 DEF TypeOK
      <4>2. /\ Len(lh') = Len(lh) + 1 /\ Len(lh) \in Nat /\ lh'[Len(lh) + 1] = b
            /\ \A i \in 1 .. Len(lh) : lh'[i] = lh[i]
        BY SMTT(30), <4>1
      <4>3. 1 .. Len(lh) + 1 = (1 .. Len(lh)) \cup {Len(lh) + 1} BY SMTT(30), <4>2
      <4>4. Logged' = {lh'[i] : i \in (1 .. Len(lh)) \cup {Len(lh) + 1}}
        BY ZenonT(30), <4>2, <4>3 DEF Logged
      <4>. QED BY ONLY SMTT(30), <4>2, <4>4 DEF Logged
    <3>. QED BY <3>1, <3>2
  <2>4. IsFiniteSet(wrote[t]) /\ Cardinality(wrote[t] \cup {b}) <= MAXOPBLOCKS
    BY ZenonT(30) DEF SpaceOK
  <2>5. IsFiniteSet(wrote'[t]) /\ Cardinality(wrote'[t]) <= MAXOPBLOCKS
    <3>1. IsFiniteSet(wrote[t] \cup {b}) BY ONLY <2>4, FS_AddElement
    <3>. QED BY ZenonT(30), <2>2, <2>4, <3>1
  <2>6. \A u \in Thread : IsFiniteSet(wrote'[u]) /\ Cardinality(wrote'[u]) <= MAXOPBLOCKS
    BY ZenonT(30), <2>2, <2>5 DEF SpaceOK
  <2>7. \A u \in InOp' : wrote'[u] \subseteq Logged'
    <3>1. ASSUME NEW u \in InOp PROVE wrote'[u] \subseteq Logged'
      <4>1. wrote[u] \subseteq Logged /\ u \in Thread BY ZenonT(30) DEF SpaceOK, InOp
      <4>. QED BY ZenonT(30), <4>1, <2>2, <2>3
    <3>. QED BY ZenonT(30), <3>1, <2>1
  <2>8. \A u \in Thread, c \in Block : held'[c] = u => Cardinality(wrote'[u] \cup {c}) <= MAXOPBLOCKS
    <3>1. ASSUME NEW u \in Thread, NEW c \in Block, held'[c] = u
          PROVE  Cardinality(wrote'[u] \cup {c}) <= MAXOPBLOCKS
      <4>1. c # b /\ held[c] = u BY ZenonT(30), <2>2, <3>1, LogAssumption
      <4>2. u # t BY ZenonT(30), <4>1 DEF IInv, HeldOK
      <4>. QED BY ZenonT(30), <4>1, <4>2, <2>2 DEF SpaceOK
    <3>. QED BY ZenonT(30), <3>1
  <2>9. Used' = Used \cup {<<t, b>>} BY SMTT(30), <2>1, <2>2 DEF Used, InOp
  <2>10. /\ IsFiniteSet(Used')
         /\ Cardinality(Used') = IF <<t, b>> \in Used THEN Cardinality(Used) ELSE Cardinality(Used) + 1
    <3>1. IsFiniteSet(Used) BY DEF SpaceOK
    <3>. QED BY ZenonT(30), <2>9, <3>1, FS_AddElement
  <2>11. SpaceIsReserved'
    <3>1. b \notin Logged => <<t, b>> \notin Used
      <4>1. wrote[t] \subseteq Logged BY ZenonT(30) DEF SpaceOK
      <4>2. <<t, b>> \in Used => b \in wrote[t] BY SMTT(30) DEF Used
      <4>. QED BY ZenonT(30), <4>1, <4>2
    <3>2. Cardinality(Used) \in Nat /\ Cardinality(InOp) \in Nat
      BY ZenonT(30), FS_CardinalityType DEF SpaceOK, IInv, CountOK
    <3>3. PICK k \in Int : k = Cardinality(InOp) * MAXOPBLOCKS BY SMTT(30), <3>2, LogAssumption
    <3>4. Len(lh) + (k - Cardinality(Used)) <= LOGSIZE BY ZenonT(30), <3>3 DEF SpaceOK, SpaceIsReserved
    <3>5. Len(lh) \in Nat BY ZenonT(30), Lists
    <3>6. Len(lh') = IF b \in Logged THEN Len(lh) ELSE Len(lh) + 1 BY SMTT(30) DEF TypeOK
    <3>7. Len(lh') + (k - Cardinality(Used')) <= LOGSIZE
      BY SMTT(30), <2>10, <3>1, <3>2, <3>4, <3>5, <3>6, LogAssumption
    <3>. QED BY ZenonT(30), <2>1, <3>3, <3>7 DEF SpaceIsReserved
  <2>. QED BY ZenonT(30), <2>6, <2>7, <2>8, <2>10, <2>11 DEF SpaceOK
<1>. QED BY ZenonT(30), <1>1, <1>2 DEF log_write, Goto

\* end_op: the thread leaves its operation, to commit, to return or to panic.
LEMMA end_opSpace ==
  ASSUME IInv, SpaceOK, NEW t \in Thread, Running, end_op(t) PROVE SpaceOK'
<1>1. t \in InOp /\ TypeOK /\ UNCHANGED <<lh, wrote, held>>
  BY ZenonT(30) DEF InOp, end_op, IInv, buffers
<1>2. /\ pc'[t] \notin {"op", "log_write"}
      /\ \A u \in Thread : u # t => pc'[u] = pc[u] \/ (pc[u] = "asleep" /\ pc'[u] = "begin")
  BY ZenonT(30), <1>1 DEF end_op, Goto, Woken, TypeOK
<1>3. InOp' = InOp \ {t} BY ZenonT(30), <1>2 DEF InOp
<1>. QED BY <1>1, <1>3, SpaceLeave

\* Every step keeps the room that the operations in progress may still need.
LEMMA NextSpace == IInv /\ SpaceOK /\ [Next]_vars => SpaceOK'
<1>. SUFFICES ASSUME IInv, SpaceOK, [Next]_vars PROVE SpaceOK'
  BY ZenonT(30)
<1>0. IInv' BY NextIInv
<1>a. TypeOK /\ \A t \in Thread : IsFiniteSet(wrote[t]) /\ Cardinality(wrote[t]) <= MAXOPBLOCKS
  BY ZenonT(30) DEF IInv, SpaceOK
<1>1. CASE UNCHANGED vars
  <2>1. UNCHANGED <<lh, wrote, held, pc>> BY ZenonT(30), <1>1 DEF vars, buffers, logVars
  <2>2. InOp' = InOp BY ZenonT(30), <2>1 DEF InOp
  <2>3. \A t \in Thread, b \in Block : held'[b] = t => Cardinality(wrote[t] \cup {b}) <= MAXOPBLOCKS
    BY ZenonT(30), <2>1 DEF SpaceOK
  <2>. QED BY <2>1, <2>2, <2>3, SpaceSame
<1>2. ASSUME NEW t \in Thread, Running, Commit(t) PROVE SpaceOK'
  <2>1. t \in Committer
    BY ZenonT(30), <1>2 DEF Commit, commit, write_log, write_head, install_trans, clear_head, end_commit, Committer
  <2>2. InOp = {} /\ \A b \in Block : held[b] = NoThread BY ZenonT(30), <1>2, <2>1, CommitterMeans
  <2>3. UNCHANGED <<wrote, held>>
    BY ZenonT(30), <1>2
    DEF Commit, commit, write_log, write_head, install_trans, clear_head, end_commit, buffers
  <2>4. \A u \in Thread : pc'[u] \in {"op", "log_write"} => pc[u] \in {"op", "log_write"}
    BY ZenonT(30), <1>2, <1>a
    DEF Commit, commit, write_log, write_head, install_trans, clear_head, end_commit, Goto, Woken, TypeOK
  <2>5. InOp' = {} BY ZenonT(30), <2>2, <2>4 DEF InOp
  <2>. QED BY ZenonT(30), <1>0, <1>a, <2>2, <2>3, <2>5, SpaceNoOps
<1>3. ASSUME NEW t \in Thread, Step(t) PROVE SpaceOK'
  BY ZenonT(30), <1>2, <1>3, begin_opSpace, log_writeSpace, end_opSpace DEF Step
<1>4. CASE Crash
  <2>1. /\ held' = [b \in Block |-> NoThread] /\ pc' = [t \in Thread |-> "down"]
        /\ wrote' = [t \in Thread |-> {}]
    BY <1>4 DEF Crash
  <2>2. InOp' = {} BY ZenonT(30), <2>1 DEF InOp
  <2>3. 0 <= MAXOPBLOCKS BY SMTT(30), LogAssumption
  <2>4. \A t \in Thread : IsFiniteSet(wrote'[t]) /\ Cardinality(wrote'[t]) <= MAXOPBLOCKS
    BY ZenonT(30), <2>1, <2>3, FS_EmptySet
  <2>. QED BY ZenonT(30), <1>0, <2>1, <2>2, <2>4, SpaceNoOps
<1>5. CASE Recovery
  <2>1. InOp = {} /\ \A b \in Block : held[b] = NoThread
    BY ZenonT(30), <1>5, DownMeans DEF Recovery, read_head, recover, recover_from_log
  <2>2. UNCHANGED <<wrote, held>>
    BY ZenonT(30), <1>5 DEF Recovery, read_head, recover, recover_from_log, buffers
  <2>3. \A u \in Thread : pc'[u] \in {"op", "log_write"} => pc[u] \in {"op", "log_write"}
    BY ZenonT(30), <1>5 DEF Recovery, read_head, recover, recover_from_log
  <2>4. InOp' = {} BY ZenonT(30), <2>1, <2>3 DEF InOp
  <2>. QED BY ZenonT(30), <1>0, <1>a, <2>1, <2>2, <2>4, SpaceNoOps
<1>6. ASSUME NEW t \in Thread, Running, Call(t) PROVE SpaceOK'
  <2>1. UNCHANGED <<lh, wrote, held>> BY ZenonT(30), <1>6 DEF Call, buffers, logVars
  <2>2. InOp' = InOp BY ZenonT(30), <1>6, <1>a DEF InOp, Call, Goto, TypeOK
  <2>3. \A u \in Thread, b \in Block : held'[b] = u => Cardinality(wrote[u] \cup {b}) <= MAXOPBLOCKS
    BY ZenonT(30), <2>1 DEF SpaceOK
  <2>. QED BY <2>1, <2>2, <2>3, SpaceSame
<1>7. ASSUME NEW t \in Thread, NEW b \in Block, NEW v \in Val, Running, Modify(t, b, v) PROVE SpaceOK'
  <2>1. /\ UNCHANGED <<lh, wrote>> /\ held' = [held EXCEPT ![b] = t]
        /\ Cardinality(wrote[t] \cup {b}) <= MAXOPBLOCKS
    BY ZenonT(30), <1>7 DEF Modify, logVars
  <2>2. InOp' = InOp BY ZenonT(30), <1>7, <1>a DEF InOp, Modify, Goto, TypeOK
  <2>3. ASSUME NEW u \in Thread, NEW c \in Block, held'[c] = u
        PROVE  Cardinality(wrote[u] \cup {c}) <= MAXOPBLOCKS
    <3>1. CASE c = b
      <4>1. u = t BY ZenonT(30), <1>a, <2>1, <2>3, <3>1 DEF TypeOK
      <4>. QED BY ZenonT(30), <2>1, <3>1, <4>1
    <3>2. CASE c # b
      <4>1. held[c] = u BY ZenonT(30), <1>a, <2>1, <2>3, <3>2 DEF TypeOK
      <4>. QED BY ZenonT(30), <4>1 DEF SpaceOK
    <3>. QED BY <3>1, <3>2
  <2>. QED BY ZenonT(30), <2>1, <2>2, <2>3, SpaceSame
<1>8. ASSUME NEW b \in Block, Recycle(b) PROVE SpaceOK'
  <2>1. UNCHANGED <<lh, wrote, held, pc>> BY ZenonT(30), <1>8 DEF Recycle, logVars
  <2>2. InOp' = InOp BY ZenonT(30), <2>1 DEF InOp
  <2>3. \A u \in Thread, c \in Block : held'[c] = u => Cardinality(wrote[u] \cup {c}) <= MAXOPBLOCKS
    BY ZenonT(30), <2>1 DEF SpaceOK
  <2>. QED BY <2>1, <2>2, <2>3, SpaceSame
<1>. QED BY ZenonT(30), <1>1, <1>3, <1>4, <1>5, <1>6, <1>7, <1>8 DEF Next

\* A new disk has nothing reserved.
LEMMA InitSpace == Init => SpaceOK
<1>. SUFFICES ASSUME Init PROVE SpaceOK
  BY ZenonT(30)
<1>1. /\ lh = <<>> /\ pc = [t \in Thread |-> "idle"] /\ wrote = [t \in Thread |-> {}]
      /\ held = [b \in Block |-> NoThread]
  BY DEF Init
<1>2. InOp = {} BY ZenonT(30), <1>1 DEF InOp
<1>3. Used = {} BY ZenonT(30), <1>2 DEF Used
<1>4. Cardinality(InOp) = 0 /\ Cardinality(Used) = 0 /\ IsFiniteSet(Used) BY ZenonT(30), <1>2, <1>3, FS_EmptySet
<1>5. Len(lh) = 0 BY SMTT(30), <1>1
<1>6. SpaceIsReserved BY SMTT(30), <1>4, <1>5, LogAssumption DEF SpaceIsReserved
<1>7. 0 <= MAXOPBLOCKS BY SMTT(30), LogAssumption
<1>8. \A t \in Thread : IsFiniteSet(wrote[t]) /\ Cardinality(wrote[t]) <= MAXOPBLOCKS
  BY ZenonT(30), <1>1, <1>7, FS_EmptySet
<1>9. \A t \in Thread, b \in Block : held[b] # t BY ZenonT(30), <1>1, LogAssumption
<1>. QED BY ZenonT(30), <1>2, <1>4, <1>6, <1>8, <1>9 DEF SpaceOK

\* What begin_op reserves is there: whatever operations begin, log, end and crash, those in
\* progress can each log all the blocks they may without overrunning LOGSIZE.
THEOREM LogSpace == Spec => []SpaceIsReserved
<1>1. Init => SpaceOK BY InitSpace
<1>2. IInv /\ SpaceOK /\ [Next]_vars => SpaceOK' BY NextSpace
<1>3. SpaceOK => SpaceIsReserved BY DEF SpaceOK
<1>. QED BY <1>1, <1>2, <1>3, LogInvariance, PTL DEF Spec
=============================================================================
