----------------------------- MODULE VirtioDisk -----------------------------
(***************************************************************************)
(* The disk driver of kernel/virtio_disk.c and the device behind it.  A    *)
(* request is a chain of three descriptors; the driver posts its head in   *)
(* the avail ring, the device answers in the used ring, in any order, and  *)
(* interrupts.  The rings never hold more than NUM entries and so are      *)
(* modelled as sequences.  The callers are in BufCache.                    *)
(***************************************************************************)
EXTENDS Integers, Sequences, FiniteSets, FiniteSetsExt, SequencesExt

CONSTANTS Thread, Buf, Block, Val, NoBlock, NoBuf,
          Sizes   \* the values of NUM to look at

ASSUME DiskAssumption ==
  Sizes \subseteq Nat /\ (\A n \in Sizes : n >= 3) /\ NoBuf \notin Buf /\ NoBlock \notin Block

VARIABLES
  NUM,       \* the number of descriptors; it never changes
  free,      \* disk.free: the free descriptors
  next,      \* desc[i].next; None without VRING_DESC_F_NEXT
  req,       \* disk.ops and the data descriptor of a chain, by its head
  info,      \* disk.info[i].b
  avail, used,   \* the entries of the rings that the reader has not seen
  irq,       \* the device asks for an interrupt
  handling,  \* virtio_disk_intr is in its loop and has vdisk_lock
  platter,   \* the blocks on the disk
  data,      \* b->data
  disk       \* b->disk: the device has the buffer

Desc == 0 .. NUM - 1
None == -1
NoReq == [write |-> FALSE, block |-> NoBlock, buf |-> NoBuf]
driver == <<free, next, req, info>>
rings == <<avail, used, irq>>
diskVars == <<NUM, driver, rings, handling, platter, data, disk>>

virtio_disk_init ==
  /\ NUM \in Sizes
  /\ free = Desc
  /\ next = [i \in Desc |-> None]
  /\ req = [i \in Desc |-> NoReq]
  /\ info = [i \in Desc |-> NoBuf]
  /\ avail = <<>> /\ used = <<>> /\ irq = FALSE /\ handling = FALSE
  /\ platter \in [Block -> Val]

CanAlloc3 == Cardinality(free) >= 3

\* alloc_desc takes the lowest free descriptor, alloc3_desc calls it three times.
LowestFree(S) == IF S = {} THEN 0 ELSE Min(S)
alloc3_desc(S) ==
  LET i0 == LowestFree(S)
      i1 == LowestFree(S \ {i0})
      i2 == LowestFree(S \ {i0, i1})
  IN <<i0, i1, i2>>

\* The first critical section of virtio_disk_rw, when there are descriptors: the
\* request is formatted and posted, and the caller goes to sleep on the buffer.
PostRequest(b, k, write) ==
  LET idx == alloc3_desc(free)
  IN /\ free' = free \ ToSet(idx)
     /\ next' = [next EXCEPT ![idx[1]] = idx[2], ![idx[2]] = idx[3], ![idx[3]] = None]
     /\ req' = [req EXCEPT ![idx[1]] = [write |-> write, block |-> k, buf |-> b]]
     /\ info' = [info EXCEPT ![idx[1]] = b]
     /\ avail' = Append(avail, idx[1])
     /\ disk' = [disk EXCEPT ![b] = TRUE]
     /\ UNCHANGED <<NUM, used, irq, handling, platter, data>>

\* The descriptors from i on, as free_chain follows them.
Chain(i) ==
  LET j == next[i]
      k == IF j = None THEN None ELSE next[j]
  IN {i, j, k} \ {None}

\* Variant: only the head is freed.
FreeChain_Head(i) ==
  /\ free' = free \cup {i} /\ next' = [next EXCEPT ![i] = None]
  /\ info' = [info EXCEPT ![i] = NoBuf] /\ req' = [req EXCEPT ![i] = NoReq]
  /\ UNCHANGED <<NUM, rings, handling, platter, data, disk>>

\* The second critical section of virtio_disk_rw, when the request is done.
FreeChain(i) ==
  /\ free' = free \cup Chain(i)
  /\ next' = [j \in Desc |-> IF j \in Chain(i) THEN None ELSE next[j]]
  /\ req' = [req EXCEPT ![i] = NoReq]
  /\ info' = [info EXCEPT ![i] = NoBuf]
  /\ UNCHANGED <<NUM, rings, handling, platter, data, disk>>

\* The device carries out a request that it has been told of, in any order.
DeviceStep(i) ==
  LET r == req[i]
  IN /\ i \in ToSet(avail)
     /\ IF r.write
        THEN platter' = [platter EXCEPT ![r.block] = data[r.buf]] /\ UNCHANGED data
        ELSE data' = [data EXCEPT ![r.buf] = platter[r.block]] /\ UNCHANGED platter
     /\ avail' = SelectSeq(avail, LAMBDA j : j # i)
     /\ used' = Append(used, i)
     /\ irq' = TRUE
     /\ UNCHANGED <<NUM, driver, handling, disk>>

\* virtio_disk_intr acknowledges the interrupt before it looks at the used ring.
IntrBegin ==
  /\ irq /\ ~handling
  /\ irq' = FALSE /\ handling' = TRUE
  /\ UNCHANGED <<NUM, driver, avail, used, platter, data, disk>>

\* One turn of the loop of virtio_disk_intr; the caller adds wakeup(b).
IntrEntry ==
  /\ handling /\ used # <<>>
  /\ disk' = [disk EXCEPT ![info[Head(used)]] = FALSE]
  /\ used' = Tail(used)
  /\ UNCHANGED <<NUM, driver, avail, irq, handling, platter, data>>

IntrEnd ==
  /\ handling /\ used = <<>>
  /\ handling' = FALSE
  /\ UNCHANGED <<NUM, driver, rings, platter, data, disk>>
=============================================================================
