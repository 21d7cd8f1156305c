-------------------------------- MODULE Log --------------------------------
(***************************************************************************)
(* The redo log of log.c over the buffer cache: concurrent file system     *)
(* calls share a transaction that the last of them commits; a crash at any *)
(* disk write is followed by recovery, which a crash can interrupt too.    *)
(*                                                                         *)
(* A section under log.lock is one step, and so is one disk write.  A      *)
(* block write is atomic and synchronous (virtio_disk_rw).  Of the buffer  *)
(* cache the model keeps what the log relies on: which blocks are cached   *)
(* with which contents, locked by whom, and pinned.                        *)
(***************************************************************************)
EXTENDS Integers, Sequences, FiniteSets

CONSTANTS Thread,       \* kernel threads that make file system calls
          Block, Val,   \* home blocks and their contents
          NoVal, NoThread,
          MAXOPBLOCKS,  \* blocks that one operation may write
          LOGSIZE,      \* what begin_op thinks the log holds
          NLOG,         \* log.size: the header block and the blocks behind it
          MaxCrash      \* crashes in a behaviour, besides reboots after a panic

ASSUME LogAssumption ==
  /\ MAXOPBLOCKS \in Nat /\ LOGSIZE \in Nat /\ NLOG \in Nat \ {0} /\ MaxCrash \in Nat
  /\ NoVal \notin Val /\ NoThread \notin Thread

VARIABLES
  home, logdisk, head,  \* the disk: home blocks, log blocks, log header
  cache,                \* contents of the cached home blocks
  held,                 \* holder of the buffer's sleeplock
  pinned,               \* blocks that bpin keeps in the cache
  lh,                   \* log.lh: the blocks of the transaction
  outstanding, committing,
  pc,                   \* the threads
  wrote,                \* blocks that the operation of a thread has logged
  tail,                 \* loop counter of write_log and install_trans
  boot,                 \* "up", or the step of recovery
  crashes

disk == <<home, logdisk, head>>
buffers == <<cache, held, pinned>>
logVars == <<lh, outstanding, committing>>
vars == <<disk, buffers, logVars, pc, wrote, tail, boot, crashes>>

\* A disk with an empty log, as mkfs makes it, read before anything is cached.
Init ==
  /\ home \in [Block -> Val]
  /\ logdisk = [i \in 1 .. NLOG - 1 |-> NoVal]
  /\ head = <<>>
  /\ cache = [b \in Block |-> NoVal]
  /\ held = [b \in Block |-> NoThread]
  /\ pinned = {}
  /\ lh = <<>> /\ outstanding = 0 /\ committing = FALSE
  /\ pc = [t \in Thread |-> "idle"]
  /\ wrote = [t \in Thread |-> {}]
  /\ tail = 1 /\ boot = "up" /\ crashes = 0

Goto(t, l) == pc' = [pc EXCEPT ![t] = l]

\* What bread returns: the cached contents, or the block from the disk.
bread(b) == IF cache[b] # NoVal THEN cache[b] ELSE home[b]

Logged == {lh[i] : i \in 1 .. Len(lh)}
-----------------------------------------------------------------------------
(***************************************************************************)
(* Operations                                                              *)
(***************************************************************************)
\* A system call enters begin_op.
Call(t) == /\ pc[t] = "idle"
           /\ Goto(t, "begin")
           /\ UNCHANGED <<disk, buffers, logVars, wrote, tail, boot, crashes>>

\* Variant: the space that operations in progress may still need is not counted.
begin_op_Greedy(t) ==
  /\ pc[t] = "begin"
  /\ IF Len(lh) + MAXOPBLOCKS > LOGSIZE
     THEN Goto(t, "asleep") /\ UNCHANGED outstanding
     ELSE Goto(t, "op") /\ outstanding' = outstanding + 1
  /\ wrote' = [wrote EXCEPT ![t] = {}]
  /\ UNCHANGED <<disk, buffers, lh, committing, tail, boot, crashes>>

\* One round of the loop, under log.lock.
begin_op(t) ==
  /\ pc[t] = "begin"
  /\ IF committing \/ Len(lh) + (outstanding + 1) * MAXOPBLOCKS > LOGSIZE
     THEN Goto(t, "asleep") /\ UNCHANGED outstanding
     ELSE Goto(t, "op") /\ outstanding' = outstanding + 1
  /\ wrote' = [wrote EXCEPT ![t] = {}]
  /\ UNCHANGED <<disk, buffers, lh, committing, tail, boot, crashes>>

\* The caller locks a buffer with bread and changes it.
Modify(t, b, v) ==
  /\ pc[t] = "op" /\ held[b] = NoThread
  /\ Cardinality(wrote[t] \cup {b}) <= MAXOPBLOCKS
  /\ cache' = [cache EXCEPT ![b] = v]
  /\ held' = [held EXCEPT ![b] = t]
  /\ Goto(t, "log_write")
  /\ UNCHANGED <<disk, pinned, logVars, wrote, tail, boot, crashes>>

\* log_write under log.lock, and the caller's brelse.
log_write(t, b) ==
  /\ pc[t] = "log_write" /\ held[b] = t
  /\ IF Len(lh) >= LOGSIZE \/ Len(lh) >= NLOG - 1 \/ outstanding < 1
     THEN /\ Goto(t, "panic")
          /\ UNCHANGED <<lh, pinned, wrote, held>>
     ELSE /\ lh' = IF b \in Logged THEN lh ELSE Append(lh, b)
          /\ pinned' = pinned \cup {b}
          /\ wrote' = [wrote EXCEPT ![t] = @ \cup {b}]
          /\ held' = [held EXCEPT ![b] = NoThread]
          /\ Goto(t, "op")
  /\ UNCHANGED <<disk, cache, outstanding, committing, tail, boot, crashes>>

\* bget recycles the buffer of a block that nobody holds or pins.
Recycle(b) ==
  /\ cache[b] # NoVal /\ held[b] = NoThread /\ b \notin pinned
  /\ cache' = [cache EXCEPT ![b] = NoVal]
  /\ UNCHANGED <<disk, held, pinned, logVars, pc, wrote, tail, boot, crashes>>

\* wakeup(&log)
Woken == [t \in Thread |-> IF pc[t] = "asleep" THEN "begin" ELSE pc[t]]

\* The first half of end_op.
end_op(t) ==
  /\ pc[t] = "op"
  /\ outstanding' = outstanding - 1
  /\ IF committing
     THEN Goto(t, "panic") /\ UNCHANGED committing
     ELSE IF outstanding = 1
     THEN committing' = TRUE /\ Goto(t, "commit")
     ELSE UNCHANGED committing /\ pc' = [Woken EXCEPT ![t] = "idle"]
  /\ UNCHANGED <<disk, buffers, lh, wrote, tail, boot, crashes>>
-----------------------------------------------------------------------------
(***************************************************************************)
(* commit(), by the thread whose end_op found no other operation           *)
(***************************************************************************)
\* Variant: the header is written before the blocks.
commit_HeadFirst(t) ==
  /\ pc[t] = "commit"
  /\ Goto(t, IF lh = <<>> THEN "done" ELSE "write_log")
  /\ head' = lh
  /\ tail' = 1
  /\ UNCHANGED <<home, logdisk, buffers, logVars, wrote, boot, crashes>>

commit(t) ==
  /\ pc[t] = "commit"
  /\ Goto(t, IF lh = <<>> THEN "done" ELSE "write_log")
  /\ tail' = 1
  /\ UNCHANGED <<disk, buffers, logVars, wrote, boot, crashes>>

\* One block from the cache to the log.
write_log(t) ==
  /\ pc[t] = "write_log" /\ tail <= Len(lh) /\ held[lh[tail]] = NoThread
  /\ logdisk' = [logdisk EXCEPT ![tail] = bread(lh[tail])]
  /\ tail' = tail + 1
  /\ UNCHANGED <<home, head, buffers, logVars, pc, wrote, boot, crashes>>

\* The first write_head: the commit point.
write_head(t) ==
  /\ pc[t] = "write_log" /\ tail > Len(lh)
  /\ head' = lh
  /\ tail' = 1
  /\ Goto(t, "install_trans")
  /\ UNCHANGED <<home, logdisk, buffers, logVars, wrote, boot, crashes>>

\* One block from the log to its home; the buffer is unpinned.
install_trans(t) ==
  /\ pc[t] = "install_trans" /\ tail <= Len(lh) /\ held[lh[tail]] = NoThread
  /\ home' = [home EXCEPT ![lh[tail]] = logdisk[tail]]
  /\ cache' = [cache EXCEPT ![lh[tail]] = logdisk[tail]]
  /\ pinned' = pinned \ {lh[tail]}
  /\ tail' = tail + 1
  /\ UNCHANGED <<logdisk, head, held, logVars, pc, wrote, boot, crashes>>

\* log.lh.n = 0 and the second write_head.
clear_head(t) ==
  /\ pc[t] = "install_trans" /\ tail > Len(lh)
  /\ lh' = <<>> /\ head' = <<>>
  /\ Goto(t, "done")
  /\ UNCHANGED <<home, logdisk, buffers, outstanding, committing, wrote, tail, boot, crashes>>

\* Variant: nobody is told that the log has room again.
end_commit_Quiet(t) ==
  /\ pc[t] = "done"
  /\ committing' = FALSE
  /\ Goto(t, "idle")
  /\ UNCHANGED <<disk, buffers, lh, outstanding, wrote, tail, boot, crashes>>

\* The second half of end_op.
end_commit(t) ==
  /\ pc[t] = "done"
  /\ committing' = FALSE
  /\ pc' = [Woken EXCEPT ![t] = "idle"]
  /\ UNCHANGED <<disk, buffers, lh, outstanding, wrote, tail, boot, crashes>>
-----------------------------------------------------------------------------
(***************************************************************************)
(* Crash and recovery                                                      *)
(***************************************************************************)
\* A thread in panic() stops the machine.
Running == \A t \in Thread : pc[t] # "panic"

\* Memory is lost, at any moment, also during recovery.
Crash ==
  /\ IF Running THEN crashes < MaxCrash /\ crashes' = crashes + 1 ELSE UNCHANGED crashes
  /\ cache' = [b \in Block |-> NoVal]
  /\ held' = [b \in Block |-> NoThread]
  /\ pinned' = {}
  /\ lh' = <<>> /\ outstanding' = 0 /\ committing' = FALSE
  /\ pc' = [t \in Thread |-> "down"]
  /\ wrote' = [t \in Thread |-> {}]
  /\ tail' = 1 /\ boot' = "read_head"
  /\ UNCHANGED disk

read_head ==
  /\ boot = "read_head"
  /\ lh' = head
  /\ tail' = 1 /\ boot' = "install_trans"
  /\ UNCHANGED <<disk, buffers, outstanding, committing, pc, wrote, crashes>>

\* install_trans(1): nothing is pinned.
recover ==
  /\ boot = "install_trans" /\ tail <= Len(lh)
  /\ home' = [home EXCEPT ![lh[tail]] = logdisk[tail]]
  /\ cache' = [cache EXCEPT ![lh[tail]] = logdisk[tail]]
  /\ tail' = tail + 1
  /\ UNCHANGED <<logdisk, head, held, pinned, logVars, pc, wrote, boot, crashes>>

\* The end of recover_from_log: clear the log; system calls can run.
recover_from_log ==
  /\ boot = "install_trans" /\ tail > Len(lh)
  /\ lh' = <<>> /\ head' = <<>>
  /\ boot' = "up"
  /\ pc' = [t \in Thread |-> "idle"]
  /\ UNCHANGED <<home, logdisk, buffers, outstanding, committing, wrote, tail, crashes>>
-----------------------------------------------------------------------------
Commit(t) == commit(t) \/ write_log(t) \/ write_head(t) \/ install_trans(t) \/ clear_head(t) \/ end_commit(t)
Step(t) == Running /\ (begin_op(t) \/ (\E b \in Block : log_write(t, b)) \/ end_op(t) \/ Commit(t))
Recovery == read_head \/ recover \/ recover_from_log

Next == \/ \E t \in Thread : Step(t) \/ (Running /\ Call(t))
        \/ \E t \in Thread, b \in Block, v \in Val : Running /\ Modify(t, b, v)
        \/ \E b \in Block : Running /\ Recycle(b)
        \/ Crash \/ Recovery

\* Threads in the kernel go on, and an operation makes finitely many writes.
Fairness == /\ WF_vars(Recovery)
            /\ \A t \in Thread : WF_vars(Step(t)) /\ SF_vars(Running /\ end_op(t))

Spec == Init /\ [][Next]_vars
FairSpec == Spec /\ Fairness
-----------------------------------------------------------------------------
\* The home blocks after the blocks of header h have been installed from the log.
Replay(h, log, homes) == [b \in Block |->
  IF \E i \in 1 .. Len(h) : h[i] = b
  THEN log[CHOOSE i \in 1 .. Len(h) : h[i] = b]
  ELSE homes[b]]

\* What recovery makes of the disk, and what readers of blocks see.
Recovered == Replay(head, logdisk, home)
View == IF boot = "up" THEN [b \in Block |-> bread(b)] ELSE Recovered

Atomic == INSTANCE AtomicDisk WITH view <- View, stable <- Recovered, open <- outstanding

\* The log implements a disk on which operations are atomic: a crash between any
\* two disk writes, of a commit or of a recovery, takes every block back to one
\* moment at which no system call was in progress.
ImplementsAtomicDisk == Atomic!Spec

InOp == {t \in Thread : pc[t] \in {"op", "log_write"}}

\* What the operations in progress have logged of what they may log.
Used == {u \in InOp \X Block : u[2] \in wrote[u[1]]}

\* What the operations in progress may still log always fits in what begin_op
\* takes for the size of the log, though blocks of ended operations stay in the
\* transaction and operations come and go.
SpaceIsReserved ==
  Len(lh) + (Cardinality(InOp) * MAXOPBLOCKS - Cardinality(Used)) <= LOGSIZE

\* A sleeper in begin_op is woken, if operations end and none stops the machine
\* with a transaction that is too big.
SleepersWake == \A t \in Thread : pc[t] = "asleep" ~> pc[t] # "asleep" \/ ~Running
-----------------------------------------------------------------------------
(***************************************************************************)
(* The inductive invariant                                                 *)
(***************************************************************************)
Label == {"idle", "begin", "asleep", "op", "log_write", "panic", "down",
          "commit", "write_log", "install_trans", "done"}

TypeOK ==
  /\ home \in [Block -> Val]
  /\ logdisk \in [1 .. NLOG - 1 -> Val \cup {NoVal}]
  /\ head \in Seq(Block) /\ lh \in Seq(Block)
  /\ cache \in [Block -> Val \cup {NoVal}]
  /\ held \in [Block -> Thread \cup {NoThread}]
  /\ pinned \subseteq Block
  /\ outstanding \in Nat /\ committing \in BOOLEAN
  /\ pc \in [Thread -> Label]
  /\ wrote \in [Thread -> SUBSET Block]
  /\ tail \in Nat \ {0}
  /\ boot \in {"up", "read_head", "install_trans"}

\* A list of blocks that fits in the log, no block twice.
ListOK(s) == /\ Len(s) <= NLOG - 1 /\ Len(s) <= LOGSIZE
             /\ \A i, j \in 1 .. Len(s) : s[i] = s[j] => i = j

Committer == {t \in Thread : pc[t] \in {"commit", "write_log", "install_trans", "done"}}

\* begin_op and end_op count the operations, and while a thread commits there are none.
CountOK ==
  /\ IsFiniteSet(InOp)
  /\ Running => outstanding = Cardinality(InOp)
  /\ committing <=> Committer # {}
  /\ committing => outstanding = 0
  /\ \A t, u \in Committer : t = u
  /\ boot # "up" => \A t \in Thread : pc[t] = "down"

\* A buffer that is held has been changed and is about to be logged.
HeldOK ==
  \A b \in Block, t \in Thread : held[b] = t =>
    /\ pc[t] \in {"log_write", "panic"} /\ cache[b] # NoVal
    /\ \A c \in Block : held[c] = t => c = b

\* The blocks that bpin keeps: those of the transaction that are not yet installed.
Installing == \E t \in Thread : pc[t] = "install_trans"
PinOK == pinned = IF boot # "up" THEN {}
                  ELSE {lh[i] : i \in {j \in 1 .. Len(lh) : Installing => tail <= j}}

\* A buffer that is neither pinned nor held has the contents of its home block.
CacheOK ==
  \A b \in Block :
    /\ b \in pinned => cache[b] # NoVal
    /\ b \notin pinned /\ held[b] = NoThread => cache[b] \in {NoVal, home[b]}

\* The header on disk: empty while a transaction grows, complete from the commit point
\* until everything is installed; a crash keeps it.
HeadOK ==
  /\ boot = "up" => head = IF Installing THEN lh ELSE <<>>
  /\ boot = "install_trans" => lh = head
  /\ \A i \in 1 .. Len(head) : logdisk[i] # NoVal

\* How far write_log and install_trans have come.
CopiedOK ==
  /\ \A t \in Thread : pc[t] = "write_log" =>
       \A i \in 1 .. Len(lh) : i < tail => logdisk[i] = cache[lh[i]]
  /\ Installing => \A i \in 1 .. Len(lh) : tail <= i => logdisk[i] = cache[lh[i]]
  /\ Installing \/ boot = "install_trans" =>
       \A i \in 1 .. Len(lh) : i < tail => home[lh[i]] = logdisk[i]

DoneOK == \A t \in Thread : pc[t] = "done" => lh = <<>>

IInv == /\ TypeOK /\ ListOK(lh) /\ ListOK(head) /\ CountOK /\ HeldOK
        /\ PinOK /\ CacheOK /\ HeadOK /\ CopiedOK /\ DoneOK

\* The operations in progress: finite sets of blocks, no more than they may log, all of
\* them in the transaction.
SpaceOK ==
  /\ \A t \in Thread : /\ IsFiniteSet(wrote[t])
                       /\ Cardinality(wrote[t]) <= MAXOPBLOCKS
  /\ \A t \in InOp : wrote[t] \subseteq Logged
  /\ \A t \in Thread, b \in Block : held[b] = t => Cardinality(wrote[t] \cup {b}) <= MAXOPBLOCKS
  /\ IsFiniteSet(Used)
  /\ SpaceIsReserved
=============================================================================
