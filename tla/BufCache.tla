------------------------------ MODULE BufCache ------------------------------
(***************************************************************************)
(* The buffer cache of kernel/bio.c with its sleep locks, on top of the    *)
(* disk driver.  A thread finds or recycles a buffer under bcache.lock,    *)
(* takes the sleep lock after that lock is released, reads the block when  *)
(* the buffer is not valid, and then uses it as the callers do: it changes *)
(* the block and writes it or hands it to the log, which pins it.          *)
(* A thread holds one buffer at a time: the second one that log.c and bmap *)
(* hold for a while is that of another thread, as far as bio.c can see.    *)
(***************************************************************************)
EXTENDS VirtioDisk

CONSTANT MaxPinned   \* blocks that the log may pin at a time

VARIABLES
  lru,      \* bcache's list, the most recently used buffer first
  blockno, valid, refcnt,
  lock,     \* b->lock: the thread that holds it
  pinned,   \* the buffers in the log
  pc, buf, head, write,   \* where a thread is; b, idx[0] and write of its calls
  panicked

NoThread == "nobody"
cacheVars == <<lru, blockno, valid, refcnt, lock, pinned>>
local == <<buf, head, write>>
vars == <<diskVars, cacheVars, pc, local, panicked>>

binit ==
  /\ lru = Reverse(SetToSeq(Buf))
  /\ blockno = [b \in Buf |-> NoBlock]
  /\ valid = [b \in Buf |-> FALSE]
  /\ refcnt = [b \in Buf |-> 0]
  /\ lock = [b \in Buf |-> NoThread]
  /\ disk = [b \in Buf |-> FALSE]
  /\ data \in [Buf -> {CHOOSE v \in Val : TRUE}]

Init ==
  /\ virtio_disk_init /\ binit
  /\ pinned = {}
  /\ pc = [t \in Thread |-> "idle"]
  /\ buf = [t \in Thread |-> NoBuf]
  /\ head = [t \in Thread |-> None]
  /\ write = [t \in Thread |-> FALSE]
  /\ panicked = FALSE

Goto(t, l) == pc' = [pc EXCEPT ![t] = l]
-----------------------------------------------------------------------------
(***************************************************************************)
(* bget                                                                    *)
(***************************************************************************)
Use(t, b) == buf' = [buf EXCEPT ![t] = b] /\ Goto(t, "lock")

Cached(k) == {b \in Buf : blockno[b] = k}
Unused == {n \in 1 .. Len(lru) : refcnt[lru[n]] = 0}

Hit(t, k) ==
  \E b \in Cached(k) :
    /\ refcnt' = [refcnt EXCEPT ![b] = @ + 1]
    /\ Use(t, b)
    /\ UNCHANGED <<lru, blockno, valid, lock, pinned, panicked>>

\* Variant: the buffer stays valid when it gets another block.
Recycle_Valid(t, k) ==
  /\ Unused # {}
  /\ LET b == lru[Max(Unused)]
     IN /\ blockno' = [blockno EXCEPT ![b] = k]
        /\ refcnt' = [refcnt EXCEPT ![b] = 1]
        /\ Use(t, b)
  /\ UNCHANGED <<lru, valid, lock, pinned, panicked>>

\* The least recently used buffer with refcnt 0.
Recycle(t, k) ==
  /\ Unused # {}
  /\ LET b == lru[Max(Unused)]
     IN /\ blockno' = [blockno EXCEPT ![b] = k]
        /\ valid' = [valid EXCEPT ![b] = FALSE]
        /\ refcnt' = [refcnt EXCEPT ![b] = 1]
        /\ Use(t, b)
  /\ UNCHANGED <<lru, lock, pinned, panicked>>

NoBuffers ==
  /\ Unused = {}
  /\ panicked' = TRUE
  /\ UNCHANGED <<cacheVars, pc, buf>>

bget(t, k) ==
  /\ pc[t] = "idle"
  /\ IF Cached(k) # {} THEN Hit(t, k) ELSE Recycle(t, k) \/ NoBuffers
  /\ UNCHANGED <<diskVars, head, write>>
-----------------------------------------------------------------------------
(***************************************************************************)
(* Sleep locks, and bread                                                  *)
(***************************************************************************)
\* bread goes on to the disk when it finds that the buffer is not valid.
acquiresleep(t) ==
  /\ pc[t] = "lock"
  /\ IF lock[buf[t]] = NoThread
     THEN /\ lock' = [lock EXCEPT ![buf[t]] = t]
          /\ Goto(t, IF valid[buf[t]] THEN "have" ELSE "rw")
     ELSE Goto(t, "sleeplock") /\ UNCHANGED lock
  /\ UNCHANGED <<diskVars, lru, blockno, valid, refcnt, pinned, local, panicked>>

\* wakeup(chan): the sleepers look again.
Wake(S, asleep, awake) == pc' = [u \in Thread |-> IF u \in S /\ pc[u] = asleep THEN awake ELSE pc[u]]
Users(b) == {u \in Thread : buf[u] = b}

\* The callers: a block that has been changed is written or handed to the log.
Modify(t, v) ==
  /\ pc[t] = "have"
  /\ data' = [data EXCEPT ![buf[t]] = v]
  /\ Goto(t, "dirty")
  /\ UNCHANGED <<NUM, driver, rings, handling, platter, disk, cacheVars, local, panicked>>

\* log_write: bpin, unless the block is in the log already.
bpin(t) ==
  /\ pc[t] = "dirty"
  /\ buf[t] \in pinned \/ Cardinality(pinned) < MaxPinned
  /\ pinned' = pinned \cup {buf[t]}
  /\ refcnt' = [refcnt EXCEPT ![buf[t]] = IF buf[t] \in pinned THEN @ ELSE @ + 1]
  /\ Goto(t, "have")
  /\ UNCHANGED <<diskVars, lru, blockno, valid, lock, local, panicked>>

\* install_trans: the block has been written to its place.
bunpin(t) ==
  /\ pc[t] = "written" /\ buf[t] \in pinned
  /\ pinned' = pinned \ {buf[t]}
  /\ refcnt' = [refcnt EXCEPT ![buf[t]] = @ - 1]
  /\ Goto(t, "have")
  /\ UNCHANGED <<diskVars, lru, blockno, valid, lock, local, panicked>>

bwrite(t) ==
  /\ pc[t] = "dirty" \/ (pc[t] = "have" /\ buf[t] \in pinned)
  /\ write' = [write EXCEPT ![t] = TRUE]
  /\ Goto(t, "rw")
  /\ UNCHANGED <<diskVars, cacheVars, buf, head, panicked>>

\* brelse gives the lock back first and its reference afterwards.
releasesleep(t) ==
  /\ pc[t] \in {"have", "written"}
  /\ lock' = [lock EXCEPT ![buf[t]] = NoThread]
  /\ pc' = [u \in Thread |-> IF u = t THEN "relse"
                             ELSE IF buf[u] = buf[t] /\ pc[u] = "sleeplock" THEN "lock" ELSE pc[u]]
  /\ UNCHANGED <<diskVars, lru, blockno, valid, refcnt, pinned, local, panicked>>

\* Variant: the reference is not given back while others wait.
brelse_Leak(t) ==
  /\ pc[t] = "relse"
  /\ refcnt' = [refcnt EXCEPT ![buf[t]] = IF @ = 1 THEN 0 ELSE @]
  /\ buf' = [buf EXCEPT ![t] = NoBuf]
  /\ Goto(t, "idle")
  /\ UNCHANGED <<diskVars, lru, blockno, valid, lock, pinned, head, write, panicked>>

brelse(t) ==
  LET b == buf[t]
  IN /\ pc[t] = "relse"
     /\ refcnt' = [refcnt EXCEPT ![b] = @ - 1]
     /\ lru' = IF refcnt[b] = 1 THEN <<b>> \o SelectSeq(lru, LAMBDA c : c # b) ELSE lru
     /\ buf' = [buf EXCEPT ![t] = NoBuf]
     /\ Goto(t, "idle")
     /\ UNCHANGED <<diskVars, blockno, valid, lock, pinned, head, write, panicked>>
-----------------------------------------------------------------------------
(***************************************************************************)
(* virtio_disk_rw and the interrupt, with their sleeps and wakeups         *)
(***************************************************************************)
\* The head of the chain that alloc3_desc is about to allocate.
DiskStart(t) ==
  /\ pc[t] = "rw" /\ ~handling /\ CanAlloc3
  /\ PostRequest(buf[t], blockno[buf[t]], write[t])
  /\ head' = [head EXCEPT ![t] = alloc3_desc(free)[1]]
  /\ Goto(t, "sleepdisk")
  /\ UNCHANGED <<cacheVars, buf, write, panicked>>

\* alloc3_desc gives back what it has got, and free_desc wakes the other threads
\* that wait for descriptors, before this one goes to sleep.
DiskFull(t) ==
  /\ pc[t] = "rw" /\ ~handling /\ ~CanAlloc3
  /\ pc' = [u \in Thread |-> IF u = t THEN "sleepfree"
                             ELSE IF free # {} /\ pc[u] = "sleepfree" THEN "rw" ELSE pc[u]]
  /\ UNCHANGED <<diskVars, cacheVars, local, panicked>>

\* The rest of virtio_disk_rw, and of bread and bwrite.
DiskDone(t) ==
  /\ pc[t] = "diskdone" /\ ~handling
  /\ IF disk[buf[t]]
     THEN Goto(t, "sleepdisk") /\ UNCHANGED <<diskVars, valid, head, write>>
     ELSE /\ FreeChain(head[t])
          /\ head' = [head EXCEPT ![t] = None]
          /\ write' = [write EXCEPT ![t] = FALSE]
          /\ valid' = [valid EXCEPT ![buf[t]] = @ \/ ~write[t]]
          /\ pc' = [u \in Thread |-> IF u = t THEN (IF write[t] THEN "written" ELSE "have")
                                     ELSE IF pc[u] = "sleepfree" THEN "rw" ELSE pc[u]]
  /\ UNCHANGED <<lru, blockno, refcnt, lock, pinned, buf, panicked>>

Device(i) == DeviceStep(i) /\ UNCHANGED <<cacheVars, pc, local, panicked>>

\* Variant: the wakeup is forgotten.
Intr_NoWake ==
  /\ IntrBegin \/ IntrEnd \/ IntrEntry
  /\ UNCHANGED <<cacheVars, pc, local, panicked>>

virtio_disk_intr ==
  /\ \/ (IntrBegin \/ IntrEnd) /\ UNCHANGED pc
     \/ IntrEntry /\ Wake(Users(info[Head(used)]), "sleepdisk", "diskdone")
  /\ UNCHANGED <<cacheVars, local, panicked>>
-----------------------------------------------------------------------------
Call(t) == (\E k \in Block : bget(t, k)) \/ (\E v \in Val : Modify(t, v)) \/ bwrite(t) \/ bpin(t) \/ bunpin(t)
Run(t) == acquiresleep(t) \/ DiskStart(t) \/ DiskFull(t) \/ DiskDone(t) \/ brelse(t)

\* panic() stops the machine.
Stop == panicked /\ UNCHANGED vars

Next ==
  \/ Stop
  \/ /\ ~panicked
     /\ \/ \E i \in Desc : Device(i)
        \/ virtio_disk_intr
        \/ \E t \in Thread : Call(t) \/ Run(t) \/ releasesleep(t)

Spec == Init /\ [][Next]_vars
-----------------------------------------------------------------------------
\* refcnt counts the threads between bget and the end of brelse and the pin of the
\* log, and no two buffers ever hold the same block: bget looks and recycles under
\* one lock although the sleep lock is taken after it.
RefcntExact ==
  /\ \A b \in Buf : refcnt[b] = Cardinality(Users(b)) + (IF b \in pinned THEN 1 ELSE 0)
  /\ \A b, c \in Buf : blockno[b] = blockno[c] /\ blockno[b] # NoBlock => b = c

\* Every descriptor is free or in the chain of one request in flight, and while the
\* device has a buffer the thread that asked holds its lock and sleeps.
DescriptorsAccounted ==
  LET flying == {t \in Thread : head[t] # None}
  IN /\ \A t \in flying : Cardinality(Chain(head[t])) = 3 /\ Chain(head[t]) \cap free = {}
     /\ \A t, u \in flying : t # u => Chain(head[t]) \cap Chain(head[u]) = {}
     /\ free \cup UNION {Chain(head[t]) : t \in flying} = Desc
     /\ \A i \in ToSet(avail) \cup ToSet(used) : \E t \in flying :
          /\ i = head[t] /\ info[i] = buf[t] /\ req[i].buf = buf[t] /\ disk[buf[t]]
          /\ lock[buf[t]] = t /\ pc[t] \in {"sleepdisk", "diskdone"}

\* bread has returned, or bwrite is under way.
Usable(t) == pc[t] \in {"have", "dirty", "written"} \/ (write[t] /\ pc[t] \in {"rw", "sleepfree", "sleepdisk", "diskdone"})
Store == INSTANCE BlockStore WITH
  current <- [k \in Block |-> IF \E b \in Cached(k) : valid[b]
                              THEN data[CHOOSE b \in Cached(k) : valid[b]] ELSE platter[k]],
  has <- [t \in Thread |-> IF Usable(t) THEN blockno[buf[t]] ELSE NoBlock]

\* The cache implements BlockStore: whatever is recycled, written or read in between,
\* a thread that has a block finds what was last put into it.
ImplementsBlockStore == Store!Spec

\* Nobody sleeps in vain: a thread asleep on a buffer has a request that the device
\* has or has answered, an answer that the interrupt has still to see brings an
\* interrupt, a thread asleep on a sleep lock waits for a thread that has it, and
\* one asleep for descriptors waits for a request in flight or for a thread that
\* is about to look.
SleepersHaveReason ==
  /\ \A t \in Thread : pc[t] = "sleepdisk" => head[t] \in ToSet(avail) \cup ToSet(used)
  /\ used # <<>> => irq \/ handling
  /\ \A t \in Thread : pc[t] = "sleeplock" => lock[buf[t]] \notin {t, NoThread}
  /\ \A t \in Thread : pc[t] = "sleepfree" => ~CanAlloc3 \/ \E u \in Thread : pc[u] = "rw"
=============================================================================
