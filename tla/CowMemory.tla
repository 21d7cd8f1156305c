----------------------------- MODULE CowMemory -----------------------------
(***************************************************************************)
(* User memory of xv6 with copy-on-write fork: the page allocator and its  *)
(* reference counts (kalloc.c), the page tables (vm.c), the store page     *)
(* fault (trap.c) and the system calls that reshape an address space       *)
(* (fork, sbrk, exec, exit and wait in proc.c and exec.c).                 *)
(*                                                                         *)
(* Every process may be inside the kernel on a CPU of its own.  One step   *)
(* of a kernel operation runs from one acquisition of temp_lock or         *)
(* kmem.lock to the next; work on a page table that only the acting        *)
(* process can reach is part of the step next to it.                       *)
(*                                                                         *)
(* Sizes are in pages.  Page-table and trapframe pages are never shared    *)
(* and are not tracked.  They come from the same free list, so an          *)
(* allocation may fail although a frame that the model knows is free.      *)
(***************************************************************************)
EXTENDS Integers, FiniteSets, Sequences

CONSTANTS Proc,      \* slots of the process table
          InitProc,  \* the slot of initproc
          Frame,     \* the physical pages that kalloc hands out
          NoFrame,   \* the null page
          NV,        \* user virtual pages 0 .. NV-1; NV is an address >= MAXVA
          Val,       \* what a user program stores
          KVal,      \* what the kernel copies out to user memory
          Image,     \* the pages of an executable: flags and contents
          Calls      \* the system calls that the user programs make

Zero == "zero"
Junk == "junk"
InitCode == "initcode"
Content == Val \cup KVal \cup {Zero, Junk, InitCode} \cup {Image[i].content : i \in DOMAIN Image}

VA == 0 .. NV - 1
Flags == SUBSET {"W", "U", "COW"}
Table == Proc \X {"cur", "new"}     \* p->pagetable, and exec's second table
NoProc == NoFrame

ASSUME ConstantsAssumption ==
  /\ InitProc \in Proc
  /\ NoFrame \notin Frame /\ NoFrame \notin Proc
  /\ IsFiniteSet(Proc) /\ IsFiniteSet(Frame) /\ Frame # {}
  /\ NV \in Nat \ {0}
  /\ Len(Image) \in 1 .. NV /\ DOMAIN Image = 1 .. Len(Image)
  /\ \A i \in DOMAIN Image : Image[i].flags \in Flags /\ Image[i].content # Junk
  /\ Junk \notin Val \cup KVal

VARIABLES
  state, sz, parent, killed,   \* struct proc
  map, perm,                   \* page tables: frame and flags of each page
  content,                     \* physical memory
  temp,                        \* reference counts
  freelist,                    \* kmem.freelist
  pc, op, ix, lim, hand, peer, val,  \* the kernel thread of each process
  panicked

procVars == <<state, sz, parent, killed>>
tableVars == <<map, perm>>
allocVars == <<content, temp, freelist>>
threadVars == <<pc, op, ix, lim, hand, peer, val>>
vars == <<procVars, tableVars, allocVars, threadVars, panicked>>

Cur(p) == <<p, "cur">>
New(p) == <<p, "new">>

\* The table that the loops of the operation in progress work on.
Target(p) == IF op[p] \in {"fork", "wait"} THEN Cur(peer[p])
             ELSE IF op[p] = "exec" THEN New(p) ELSE Cur(p)

Goto(p, label) == pc' = [pc EXCEPT ![p] = label]

\* panic() prints and spins for ever; frozen cpus never leave the kernel.
Panic(why) == /\ panicked' = why
              /\ UNCHANGED <<procVars, tableVars, allocVars, threadVars>>

\* The first process after userinit(): one writable page of initcode.
Init ==
  /\ panicked = ""
  /\ \E f \in Frame :
       /\ map = [t \in Table |-> [v \in VA |-> IF t = Cur(InitProc) /\ v = 0 THEN f ELSE NoFrame]]
       /\ perm = [t \in Table |-> [v \in VA |-> IF t = Cur(InitProc) /\ v = 0 THEN {"W", "U"} ELSE {}]]
       /\ content = [g \in Frame |-> IF g = f THEN InitCode ELSE Junk]
       /\ temp = [g \in Frame |-> IF g = f THEN 1 ELSE 0]
       /\ freelist = Frame \ {f}
  /\ state = [p \in Proc |-> IF p = InitProc THEN "LIVE" ELSE "UNUSED"]
  /\ sz = [p \in Proc |-> IF p = InitProc THEN 1 ELSE 0]
  /\ parent = [p \in Proc |-> NoProc]
  /\ killed = [p \in Proc |-> FALSE]
  /\ pc = [p \in Proc |-> IF p = InitProc THEN "user" ELSE "dead"]
  /\ op = [p \in Proc |-> "none"]
  /\ ix = [p \in Proc |-> 0]
  /\ lim = [p \in Proc |-> 0]
  /\ hand = [p \in Proc |-> NoFrame]
  /\ peer = [p \in Proc |-> NoProc]
  /\ val = [p \in Proc |-> Zero]
-----------------------------------------------------------------------------
(***************************************************************************)
(* kalloc and kfree                                                        *)
(***************************************************************************)
\* First half of kalloc: pop under kmem.lock.
Pop(p, f) == /\ f \in freelist
             /\ freelist' = freelist \ {f}
             /\ hand' = [hand EXCEPT ![p] = f]

\* Second half of kalloc, and uvmcopy's call: increment under temp_lock.
Increment(f) == temp' = [temp EXCEPT ![f] = @ + 1]

\* Variant: the page is filled with junk while others still use it.
Decrement_Junk(f) == /\ temp[f] > 0
                     /\ temp' = [temp EXCEPT ![f] = @ - 1]
                     /\ content' = [content EXCEPT ![f] = Junk]

\* First half of kfree: decrement under temp_lock; the last reference also
\* fills the page with junk.
Decrement(f) == /\ temp[f] > 0
                /\ temp' = [temp EXCEPT ![f] = @ - 1]
                /\ content' = IF temp[f] = 1 THEN [content EXCEPT ![f] = Junk] ELSE content

\* Variant: kfree drops the page.
Push_Lost(p) == UNCHANGED freelist /\ hand' = [hand EXCEPT ![p] = NoFrame]

\* Second half of kfree: push under kmem.lock.
Push(p) == /\ freelist' = freelist \cup {hand[p]}
           /\ hand' = [hand EXCEPT ![p] = NoFrame]
-----------------------------------------------------------------------------
(***************************************************************************)
(* User mode, the store page fault and the return from a trap              *)
(***************************************************************************)
Writable(p, v) == map[Cur(p)][v] # NoFrame /\ {"W", "U"} \subseteq perm[Cur(p)][v]

UserStore(p, v, x) ==
  /\ pc[p] = "user" /\ v \in VA /\ Writable(p, v)
  /\ content' = [content EXCEPT ![map[Cur(p)][v]] = x]
  /\ UNCHANGED <<procVars, tableVars, temp, freelist, threadVars, panicked>>

\* usertrap's test for a fault at or above MAXVA, in the page below the one
\* that sp points into, or (first) at the first byte of that page.  For sp in
\* page 0 the unsigned subtraction wraps and the test never succeeds.
GuardHit(v, sp, first) == \/ v = NV
                          \/ sp # 0 /\ (v = sp - 1 \/ (v = sp /\ first))

\* scause 15, up to the point where custom_cow calls kalloc.  A missing and an
\* invalid entry panic alike.
StoreFault(p, v, sp, first) ==
  /\ pc[p] = "user" /\ (v \in VA => ~Writable(p, v))
  /\ \/ /\ \/ GuardHit(v, sp, first)
           \/ v \in VA /\ map[Cur(p)][v] # NoFrame /\ "COW" \notin perm[Cur(p)][v]
        /\ killed' = [killed EXCEPT ![p] = TRUE]
        /\ Goto(p, "tret")
        /\ UNCHANGED <<state, sz, parent, tableVars, allocVars, op, ix, lim, hand, peer, val, panicked>>
     \/ /\ ~GuardHit(v, sp, first)
        /\ map[Cur(p)][v] = NoFrame
        /\ Panic("custom_cow: pte should exist")
     \/ /\ ~GuardHit(v, sp, first)
        /\ map[Cur(p)][v] # NoFrame /\ "COW" \in perm[Cur(p)][v]
        /\ Goto(p, "cow")
        /\ op' = [op EXCEPT ![p] = "fault"]
        /\ ix' = [ix EXCEPT ![p] = v]
        /\ UNCHANGED <<procVars, tableVars, allocVars, lim, hand, peer, val, panicked>>

\* The locals of a finished operation are gone.
Forget(p) == /\ op' = [op EXCEPT ![p] = "none"]
             /\ ix' = [ix EXCEPT ![p] = 0]
             /\ lim' = [lim EXCEPT ![p] = 0]
             /\ peer' = [peer EXCEPT ![p] = NoProc]
             /\ val' = [val EXCEPT ![p] = Zero]

\* exit(): the children go to init, the memory stays until wait() frees it.
Exit(p) ==
  IF p = InitProc THEN Panic("init exiting")
  ELSE /\ state' = [state EXCEPT ![p] = "ZOMBIE"]
       /\ parent' = [q \in Proc |-> IF parent[q] = p THEN InitProc ELSE parent[q]]
       /\ Goto(p, "dead")
       /\ Forget(p)
       /\ UNCHANGED <<sz, killed, tableVars, allocVars, hand, panicked>>

\* The exit system call, or an interrupt of a process that has been killed.
UserExit(p) == pc[p] = "user" /\ Exit(p)

\* The end of usertrap: a killed process exits, any other returns to user mode.
TrapReturn(p) ==
  /\ pc[p] = "tret"
  /\ \/ killed[p] /\ Exit(p)
     \/ /\ ~killed[p]
        /\ Goto(p, "user")
        /\ Forget(p)
        /\ UNCHANGED <<procVars, tableVars, allocVars, hand, panicked>>

\* kill() by another process; q->lock keeps it out of a child being created.
Kill(p, q) ==
  /\ pc[p] = "user" /\ p # q /\ ~killed[p]
  /\ state[q] = "LIVE"
  /\ killed' = [killed EXCEPT ![q] = TRUE]
  /\ UNCHANGED <<state, sz, parent, tableVars, allocVars, threadVars, panicked>>
-----------------------------------------------------------------------------
(***************************************************************************)
(* custom_cow from kalloc on, called by usertrap and by copyout            *)
(***************************************************************************)
\* Variant: copyout stores the result of custom_cow too.
CowReturn_Always(p, failed) ==
  /\ Goto(p, IF op[p] = "fault" THEN "tret" ELSE "write")
  /\ killed' = [killed EXCEPT ![p] = failed]

\* usertrap stores the result in p->killed; copyout ignores it.
CowReturn(p, failed) ==
  IF op[p] = "fault"
  THEN Goto(p, "tret") /\ killed' = [killed EXCEPT ![p] = failed]
  ELSE Goto(p, "write") /\ UNCHANGED killed

\* Variant: custom_cow tries again until it gets a page.
CowAlloc_Retry(p) ==
  /\ pc[p] = "cow"
  /\ \/ (\E f \in Frame : Pop(p, f)) /\ Goto(p, "cowmap")
     \/ UNCHANGED <<freelist, hand, pc>>
  /\ UNCHANGED <<procVars, tableVars, content, temp, op, ix, lim, peer, val, panicked>>

CowAlloc(p) ==
  /\ pc[p] = "cow"
  /\ \/ /\ \E f \in Frame : Pop(p, f)
        /\ Goto(p, "cowmap")
        /\ UNCHANGED killed
     \/ /\ CowReturn(p, TRUE)
        /\ UNCHANGED <<freelist, hand>>
  /\ UNCHANGED <<state, sz, parent, tableVars, content, temp, op, ix, lim, peer, val, panicked>>

\* Variant: the memmove is missing.
CowMap_NoCopy(p) ==
  /\ pc[p] = "cowmap"
  /\ Increment(hand[p])
  /\ map' = [map EXCEPT ![Cur(p)][ix[p]] = hand[p]]
  /\ perm' = [perm EXCEPT ![Cur(p)][ix[p]] = (@ \ {"COW"}) \cup {"W"}]
  /\ hand' = [hand EXCEPT ![p] = map[Cur(p)][ix[p]]]
  /\ Goto(p, "cowdec")
  /\ UNCHANGED <<procVars, content, freelist, op, ix, lim, peer, val, panicked>>

CowMap(p) ==
  LET t == Cur(p)
      pa == map[t][ix[p]]
  IN /\ pc[p] = "cowmap"
     /\ Increment(hand[p])
     /\ content' = [content EXCEPT ![hand[p]] = content[pa]]
     /\ map' = [map EXCEPT ![t][ix[p]] = hand[p]]
     /\ perm' = [perm EXCEPT ![t][ix[p]] = (@ \ {"COW"}) \cup {"W"}]
     /\ hand' = [hand EXCEPT ![p] = pa]
     /\ Goto(p, "cowdec")
     /\ UNCHANGED <<procVars, freelist, op, ix, lim, peer, val, panicked>>

CowFree(p) ==
  /\ pc[p] = "cowdec"
  /\ \/ temp[hand[p]] <= 0 /\ Panic("Error")
     \/ /\ Decrement(hand[p])
        /\ IF temp[hand[p]] > 1
           THEN CowReturn(p, FALSE) /\ hand' = [hand EXCEPT ![p] = NoFrame]
           ELSE Goto(p, "cowpush") /\ UNCHANGED <<killed, hand>>
        /\ UNCHANGED <<state, sz, parent, tableVars, freelist, op, ix, lim, peer, val, panicked>>

CowPush(p) ==
  /\ pc[p] = "cowpush"
  /\ Push(p)
  /\ CowReturn(p, FALSE)
  /\ UNCHANGED <<state, sz, parent, tableVars, content, temp, op, ix, lim, peer, val, panicked>>
-----------------------------------------------------------------------------
(***************************************************************************)
(* copyout of one page, by read() and friends and by wait()                *)
(***************************************************************************)
\* walkaddr() succeeds: the page is valid and a user page (W is not tested).
UserPage(p, v) == v \in VA /\ map[Cur(p)][v] # NoFrame /\ "U" \in perm[Cur(p)][v]

\* Up to the call of custom_cow, or to the memmove when the page is not COW.
Copyout(p, v, x) ==
  /\ ix' = [ix EXCEPT ![p] = v]
  /\ val' = [val EXCEPT ![p] = x]
  /\ Goto(p, IF "COW" \in perm[Cur(p)][v] THEN "cow" ELSE "write")

Read(p, v, x) ==
  /\ pc[p] = "user" /\ ~killed[p]
  /\ \/ UserPage(p, v) /\ Copyout(p, v, x)
     \/ ~UserPage(p, v) /\ Goto(p, "tret") /\ UNCHANGED <<ix, val>>
  /\ op' = [op EXCEPT ![p] = "read"]
  /\ UNCHANGED <<procVars, tableVars, allocVars, lim, hand, peer, panicked>>

\* memmove into whatever frame the page table names now.  wait() goes on to
\* free the child.
CopyoutWrite(p) ==
  /\ pc[p] = "write"
  /\ content' = [content EXCEPT ![map[Cur(p)][ix[p]]] = val[p]]
  /\ IF op[p] = "wait"
     THEN /\ Goto(p, "unmap")
          /\ ix' = [ix EXCEPT ![p] = 0]
          /\ lim' = [lim EXCEPT ![p] = sz[peer[p]]]
     ELSE Goto(p, "tret") /\ UNCHANGED <<ix, lim>>
  /\ UNCHANGED <<procVars, tableVars, temp, freelist, op, hand, peer, val, panicked>>
-----------------------------------------------------------------------------
(***************************************************************************)
(* uvmunmap with do_free, over the pages ix .. lim-1 of the target table   *)
(***************************************************************************)
\* uvmunmap clears the entry only after kfree() has returned.  Until then nobody but the
\* acting thread walks this table, so the entry goes in the step of the decrement.
Unmap(p) ==
  LET t == Target(p)
      pa == map[t][ix[p]]
  IN /\ pc[p] = "unmap" /\ ix[p] < lim[p]
     /\ \/ pa = NoFrame /\ Panic("uvmunmap: not mapped")
        \/ pa # NoFrame /\ temp[pa] <= 0 /\ Panic("Error")
        \/ /\ pa # NoFrame
           /\ Decrement(pa)
           /\ map' = [map EXCEPT ![t][ix[p]] = NoFrame]
           /\ perm' = [perm EXCEPT ![t][ix[p]] = {}]
           /\ ix' = [ix EXCEPT ![p] = @ + 1]
           /\ IF temp[pa] > 1 THEN UNCHANGED <<pc, hand>>
              ELSE Goto(p, "push") /\ hand' = [hand EXCEPT ![p] = pa]
           /\ UNCHANGED <<procVars, freelist, op, lim, peer, val, panicked>>

FreePush(p) ==
  /\ pc[p] = "push"
  /\ Push(p)
  /\ Goto(p, "unmap")
  /\ UNCHANGED <<procVars, tableVars, content, temp, op, ix, lim, peer, val, panicked>>

\* After the loop: freewalk() finds the table empty or panics, freeproc()
\* clears the slot of the child; sbrk only returns.
UnmapDone(p) ==
  /\ pc[p] = "unmap" /\ ix[p] >= lim[p]
  /\ \/ /\ op[p] \in {"fork", "wait", "exec"}
        /\ \E v \in VA : map[Target(p)][v] # NoFrame
        /\ Panic("freewalk: leaf")
     \/ /\ op[p] \in {"fork", "wait", "exec"} => \A v \in VA : map[Target(p)][v] = NoFrame
        /\ Goto(p, "tret")
        /\ IF op[p] \in {"fork", "wait"}
           THEN /\ state' = [state EXCEPT ![peer[p]] = "UNUSED"]
                /\ sz' = [sz EXCEPT ![peer[p]] = 0]
                /\ parent' = [parent EXCEPT ![peer[p]] = NoProc]
                /\ killed' = [killed EXCEPT ![peer[p]] = FALSE]
           ELSE UNCHANGED procVars
        /\ UNCHANGED <<tableVars, allocVars, op, ix, lim, hand, peer, val, panicked>>

StartUnmap(p, from, to) ==
  /\ Goto(p, "unmap")
  /\ ix' = [ix EXCEPT ![p] = from]
  /\ lim' = [lim EXCEPT ![p] = to]
-----------------------------------------------------------------------------
(***************************************************************************)
(* uvmalloc over the pages ix .. lim-1, for sbrk and for exec              *)
(***************************************************************************)
Sbrk(p, n) ==
  /\ pc[p] = "user" /\ ~killed[p]
  /\ sz[p] + n <= NV
  /\ \/ /\ n > 0
        /\ Goto(p, "alloc")
        /\ op' = [op EXCEPT ![p] = "grow"]
        /\ ix' = [ix EXCEPT ![p] = sz[p]]
        /\ lim' = [lim EXCEPT ![p] = sz[p] + n]
        /\ UNCHANGED sz
     \/ /\ n < 0 /\ sz[p] + n >= 0
        /\ op' = [op EXCEPT ![p] = "shrink"]
        /\ StartUnmap(p, sz[p] + n, sz[p])
        /\ sz' = [sz EXCEPT ![p] = sz[p] + n]
  /\ UNCHANGED <<state, parent, killed, tableVars, allocVars, hand, peer, val, panicked>>

\* The first page that an allocation in progress has to give back.
AllocBase(p) == IF op[p] = "exec" THEN 0 ELSE sz[p]

AllocPop(p) ==
  /\ pc[p] = "alloc" /\ ix[p] < lim[p]
  /\ \/ /\ \E f \in Frame : Pop(p, f)
        /\ Goto(p, "allocmap")
        /\ UNCHANGED <<ix, lim>>
     \/ /\ StartUnmap(p, AllocBase(p), ix[p])
        /\ UNCHANGED <<freelist, hand>>
  /\ UNCHANGED <<procVars, tableVars, content, temp, op, peer, val, panicked>>

\* mappages() fails when it needs a page-table page and gets none.  The
\* contents are what memset and, for exec, loadseg leave in the page.
AllocMap(p) ==
  LET t == Target(p)
      new == IF op[p] = "exec" THEN Image[ix[p] + 1] ELSE [flags |-> {"W", "U"}, content |-> Zero]
  IN /\ pc[p] = "allocmap"
     /\ \/ map[t][ix[p]] # NoFrame /\ Panic("mappages: remap")
        \/ /\ map[t][ix[p]] = NoFrame
           /\ Increment(hand[p])
           /\ content' = [content EXCEPT ![hand[p]] = new.content]
           /\ \/ /\ map' = [map EXCEPT ![t][ix[p]] = hand[p]]
                 /\ perm' = [perm EXCEPT ![t][ix[p]] = new.flags]
                 /\ ix' = [ix EXCEPT ![p] = @ + 1]
                 /\ hand' = [hand EXCEPT ![p] = NoFrame]
                 /\ Goto(p, "alloc")
              \/ /\ Goto(p, "memfree")
                 /\ UNCHANGED <<tableVars, ix, hand>>
           /\ UNCHANGED <<procVars, freelist, op, lim, peer, val, panicked>>

\* kfree(mem) after mappages failed, then uvmdealloc.
MemFree(p) ==
  /\ pc[p] = "memfree"
  /\ \/ temp[hand[p]] <= 0 /\ Panic("Error")
     \/ /\ Decrement(hand[p])
        /\ ix' = [ix EXCEPT ![p] = AllocBase(p)]
        /\ lim' = [lim EXCEPT ![p] = ix[p]]
        /\ IF temp[hand[p]] > 1
           THEN Goto(p, "unmap") /\ hand' = [hand EXCEPT ![p] = NoFrame]
           ELSE Goto(p, "push") /\ UNCHANGED hand
        /\ UNCHANGED <<procVars, tableVars, freelist, op, peer, val, panicked>>

\* sbrk returns; exec commits to the new table and frees the old one.
AllocDone(p) ==
  /\ pc[p] = "alloc" /\ ix[p] = lim[p]
  /\ sz' = [sz EXCEPT ![p] = lim[p]]
  /\ IF op[p] = "exec"
     THEN /\ map' = [map EXCEPT ![Cur(p)] = map[New(p)], ![New(p)] = map[Cur(p)]]
          /\ perm' = [perm EXCEPT ![Cur(p)] = perm[New(p)], ![New(p)] = perm[Cur(p)]]
          /\ StartUnmap(p, 0, sz[p])
     ELSE Goto(p, "tret") /\ UNCHANGED <<tableVars, ix, lim>>
  /\ UNCHANGED <<state, parent, killed, allocVars, op, hand, peer, val, panicked>>

Exec(p) ==
  /\ pc[p] = "user" /\ ~killed[p]
  /\ Goto(p, "alloc")
  /\ op' = [op EXCEPT ![p] = "exec"]
  /\ ix' = [ix EXCEPT ![p] = 0]
  /\ lim' = [lim EXCEPT ![p] = Len(Image)]
  /\ UNCHANGED <<procVars, tableVars, allocVars, hand, peer, val, panicked>>

\* goto bad: an unreadable file, a malformed header, arguments too long.
ExecBad(p) ==
  /\ pc[p] = "alloc" /\ op[p] = "exec"
  /\ StartUnmap(p, 0, ix[p])
  /\ UNCHANGED <<procVars, tableVars, allocVars, op, hand, peer, val, panicked>>
-----------------------------------------------------------------------------
(***************************************************************************)
(* fork and uvmcopy; wait                                                  *)
(***************************************************************************)
\* allocproc() fails when no slot, trapframe or page table can be had.
Fork(p) ==
  /\ pc[p] = "user" /\ ~killed[p]
  /\ \/ \E c \in Proc :
          /\ state[c] = "UNUSED"
          /\ state' = [state EXCEPT ![c] = "USED"]
          /\ peer' = [peer EXCEPT ![p] = c]
          /\ op' = [op EXCEPT ![p] = "fork"]
          /\ ix' = [ix EXCEPT ![p] = 0]
          /\ lim' = [lim EXCEPT ![p] = sz[p]]
          /\ Goto(p, "copy")
     \/ /\ Goto(p, "tret")
        /\ UNCHANGED <<state, peer, op, ix, lim>>
  /\ UNCHANGED <<sz, parent, killed, tableVars, allocVars, hand, val, panicked>>

\* Variant: the parent keeps its W bit.
CopyPage_ParentKeepsW(p) ==
  LET fl == perm[Cur(p)][ix[p]]
      flags == IF "W" \in fl THEN (fl \ {"W"}) \cup {"COW"} ELSE fl
  IN /\ pc[p] = "copy" /\ ix[p] < lim[p]
     /\ map' = [map EXCEPT ![Cur(peer[p])][ix[p]] = map[Cur(p)][ix[p]]]
     /\ perm' = [perm EXCEPT ![Cur(peer[p])][ix[p]] = flags]
     /\ Goto(p, "copyinc")
     /\ UNCHANGED <<procVars, allocVars, op, ix, lim, hand, peer, val, panicked>>

\* Variant: the error path unmaps one page too many.
CopyPage_UnmapTooMany(p) ==
  /\ pc[p] = "copy" /\ ix[p] < lim[p]
  /\ StartUnmap(p, 0, ix[p] + 1)
  /\ UNCHANGED <<procVars, tableVars, allocVars, op, hand, peer, val, panicked>>

\* One round of uvmcopy's loop up to check_and_increment.  The parent's page
\* is marked before mappages can fail.
CopyPage(p) ==
  LET old == Cur(p)
      new == Cur(peer[p])
      pa == map[old][ix[p]]
      fl == perm[old][ix[p]]
      flags == IF "W" \in fl THEN (fl \ {"W"}) \cup {"COW"} ELSE fl
  IN /\ pc[p] = "copy" /\ ix[p] < lim[p]
     /\ \/ pa = NoFrame /\ Panic("uvmcopy: page not present")
        \/ map[new][ix[p]] # NoFrame /\ Panic("mappages: remap")
        \/ /\ pa # NoFrame /\ map[new][ix[p]] = NoFrame
           /\ \/ /\ map' = [map EXCEPT ![new][ix[p]] = pa]
                 /\ perm' = [perm EXCEPT ![old][ix[p]] = flags, ![new][ix[p]] = flags]
                 /\ Goto(p, "copyinc")
                 /\ UNCHANGED <<ix, lim>>
              \/ /\ perm' = [perm EXCEPT ![old][ix[p]] = flags]
                 /\ StartUnmap(p, 0, ix[p])
                 /\ UNCHANGED map
           /\ UNCHANGED <<procVars, allocVars, op, hand, peer, val, panicked>>

\* Variant: the new mapping is never counted.
CopyIncrement_Skipped(p) ==
  /\ pc[p] = "copyinc"
  /\ ix' = [ix EXCEPT ![p] = @ + 1]
  /\ Goto(p, "copy")
  /\ UNCHANGED <<procVars, tableVars, allocVars, op, lim, hand, peer, val, panicked>>

CopyIncrement(p) ==
  /\ pc[p] = "copyinc"
  /\ Increment(map[Cur(p)][ix[p]])
  /\ ix' = [ix EXCEPT ![p] = @ + 1]
  /\ Goto(p, "copy")
  /\ UNCHANGED <<procVars, tableVars, content, freelist, op, lim, hand, peer, val, panicked>>

\* The rest of fork: size, parent, and the child may run.
ForkDone(p) ==
  LET c == peer[p]
  IN /\ pc[p] = "copy" /\ ix[p] = lim[p]
     /\ sz' = [sz EXCEPT ![c] = sz[p]]
     /\ parent' = [parent EXCEPT ![c] = p]
     /\ state' = [state EXCEPT ![c] = "LIVE"]
     /\ pc' = [pc EXCEPT ![p] = "tret", ![c] = "user"]
     /\ UNCHANGED <<killed, tableVars, allocVars, op, ix, lim, hand, peer, val, panicked>>

\* wait(addr) that finds the zombie c; without addr it frees at once.
Wait(p, c) ==
  /\ pc[p] = "user" /\ ~killed[p]
  /\ state[c] = "ZOMBIE" /\ parent[c] = p
  /\ peer' = [peer EXCEPT ![p] = c]
  /\ op' = [op EXCEPT ![p] = "wait"]
  /\ \/ StartUnmap(p, 0, sz[c]) /\ UNCHANGED val
     \/ /\ \E v \in 0 .. NV, x \in KVal :
             \/ UserPage(p, v) /\ Copyout(p, v, x)
             \/ ~UserPage(p, v) /\ Goto(p, "tret") /\ UNCHANGED <<ix, val>>
        /\ UNCHANGED lim
  /\ UNCHANGED <<procVars, tableVars, allocVars, hand, panicked>>
-----------------------------------------------------------------------------
\* The steps of a kernel operation in progress.
KernelStep(p) ==
  \/ TrapReturn(p)
  \/ CowAlloc(p) \/ CowMap(p) \/ CowFree(p) \/ CowPush(p)
  \/ CopyoutWrite(p)
  \/ Unmap(p) \/ FreePush(p) \/ UnmapDone(p)
  \/ AllocPop(p) \/ AllocMap(p) \/ MemFree(p) \/ AllocDone(p)
  \/ CopyPage(p) \/ CopyIncrement(p) \/ ForkDone(p)

\* What a user program, or the hardware on its behalf, may start.
UserStep(p) ==
  \/ \E v \in VA, x \in Val : UserStore(p, v, x)
  \/ \E v \in 0 .. NV, sp \in VA, first \in BOOLEAN : StoreFault(p, v, sp, first)
  \/ "read" \in Calls /\ \E v \in 0 .. NV, x \in KVal : Read(p, v, x)
  \/ "sbrk" \in Calls /\ \E n \in -NV .. NV : Sbrk(p, n)
  \/ "kill" \in Calls /\ \E q \in Proc : Kill(p, q)
  \/ "wait" \in Calls /\ \E c \in Proc : Wait(p, c)
  \/ "exec" \in Calls /\ (Exec(p) \/ ExecBad(p))
  \/ "fork" \in Calls /\ Fork(p)
  \/ UserExit(p)

\* After a panic the machine spins.
Halted == panicked # "" /\ UNCHANGED vars

Next == \/ panicked = "" /\ \E p \in Proc : KernelStep(p) \/ UserStep(p)
        \/ Halted

\* A kernel thread is never preempted for good: its CPU keeps running it, and
\* a preempted thread is scheduled again.
Fairness == \A p \in Proc : WF_vars(panicked = "" /\ KernelStep(p))

Spec == Init /\ [][Next]_vars
FairSpec == Spec /\ Fairness
-----------------------------------------------------------------------------
Label == {"dead", "user", "tret", "cow", "cowmap", "cowdec", "cowpush", "write",
          "unmap", "push", "alloc", "allocmap", "memfree", "copy", "copyinc"}

PanicMsg == {"", "init exiting", "custom_cow: pte should exist", "Error",
             "uvmunmap: not mapped", "freewalk: leaf", "mappages: remap",
             "uvmcopy: page not present"}

TypeOK ==
  /\ state \in [Proc -> {"UNUSED", "USED", "LIVE", "ZOMBIE"}]
  /\ sz \in [Proc -> 0 .. NV]
  /\ parent \in [Proc -> Proc \cup {NoProc}]
  /\ killed \in [Proc -> BOOLEAN]
  /\ map \in [Table -> [VA -> Frame \cup {NoFrame}]]
  /\ perm \in [Table -> [VA -> Flags]]
  /\ content \in [Frame -> Content]
  /\ temp \in [Frame -> Nat]
  /\ freelist \in SUBSET Frame
  /\ pc \in [Proc -> Label]
  /\ op \in [Proc -> {"none", "fault", "read", "wait", "fork", "grow", "shrink", "exec"}]
  /\ ix \in [Proc -> 0 .. NV]
  /\ lim \in [Proc -> 0 .. NV]
  /\ hand \in [Proc -> Frame \cup {NoFrame}]
  /\ peer \in [Proc -> Proc \cup {NoProc}]
  /\ val \in [Proc -> KVal \cup {Zero}]
  /\ panicked \in PanicMsg

\* Page table entries that count: all but the one uvmcopy has just made and
\* not yet counted.
Mapped(f) == {s \in Table \X VA :
                /\ map[s[1]][s[2]] = f
                /\ ~\E p \in Proc : pc[p] = "copyinc" /\ s = <<Cur(peer[p]), ix[p]>>}

\* Kernel threads that own a counted reference outside any page table.
Counted == {"cowdec", "memfree"}
Holding(f) == {p \in Proc : pc[p] \in Counted /\ hand[p] = f}

\* The reference count of every page is the number of references there are,
\* whatever kfree, kalloc, custom_cow and uvmcopy are in the middle of.
RefCountExact ==
  \A f \in Frame : temp[f] = Cardinality(Mapped(f)) + Cardinality(Holding(f))

\* No page on the free list can be reached from a page table or is being
\* handled by a kernel thread (kfree's check of temp before pushing).
FreeIsUnreachable ==
  \A f \in freelist :
    /\ \A t \in Table, v \in VA : map[t][v] # f
    /\ \A p \in Proc : hand[p] # f

\* A page mapped writable is mapped exactly once, so nobody else can see a
\* store to it: uvmcopy takes W from parent and child before the second mapping
\* exists, and custom_cow gives W back only on a private copy.
WritableIsPrivate ==
  \A t, u \in Table, v, w \in VA :
    map[t][v] # NoFrame /\ "W" \in perm[t][v] /\ map[u][w] = map[t][v] => t = u /\ v = w

\* Allocator fill patterns are never visible through a page table: no page is
\* mapped before it is initialised, or after it has been freed.
NoJunkMapped ==
  \A t \in Table, v \in VA : map[t][v] # NoFrame => content[map[t][v]] # Junk

\* A page is never lost: it is free, or counted, or in the hands of a thread
\* between the two halves of kalloc or kfree (cowtest: "all copied pages are
\* freed").
NoLeak ==
  \A f \in Frame : \/ f \in freelist \/ temp[f] > 0
                   \/ \E p \in Proc : hand[p] = f

\* The sanity panics of kfree ("Error"), uvmunmap, freewalk, mappages and uvmcopy
\* are unreachable: the tables hold exactly the pages below the size that the
\* operation in progress relies on.
NoInternalPanic ==
  panicked \in {"", "init exiting", "custom_cow: pte should exist"}

Protected(t, v) == map[t][v] # NoFrame /\ "W" \notin perm[t][v]

\* copyout's store to a page that is mapped without W, for copyout tests only V, U and
\* COW: the page is still COW because custom_cow failed, or it is a read-only page that
\* was never COW (program text) and that custom_cow is not asked to copy.  In both cases
\* other processes may map the frame too.
UncheckedCopyout(p) == CopyoutWrite(p) /\ "W" \notin perm[Cur(p)][ix[p]]

\* A page that some process maps without W keeps its contents: a store by a program goes
\* to a private copy.  The exception is copyout's store to that same frame through a
\* mapping without W: copyout ignores a failed custom_cow and never tests W.
IsolatedExceptCopyout ==
  [][\A t \in Table, v \in VA :
       Protected(t, v) /\ map'[t][v] = map[t][v] =>
         \/ content'[map[t][v]] = content[map[t][v]]
         \/ \E p \in Proc : UncheckedCopyout(p) /\ map[Cur(p)][ix[p]] = map[t][v]]_vars

\* A process that kill() has marked stays marked until it has exited (proc.c
\* kill: "The victim won't exit until it tries to return to user space").  The
\* exception is a store fault of the victim itself: usertrap overwrites p->killed
\* with the result of custom_cow.
KillLostOnlyInFault ==
  [][\A p \in Proc : state[p] = "LIVE" /\ killed[p] /\ state'[p] = "LIVE" /\ ~killed'[p]
                       => op[p] = "fault"]_vars

\* An operation that has entered the kernel comes back: the loops over pages
\* and the failures of kalloc in usertrap, copyout, uvmalloc, uvmcopy and
\* uvmunmap all end.
KernelReturns ==
  \A p \in Proc : pc[p] \notin {"user", "dead"} ~> pc[p] \in {"user", "dead"} \/ panicked # ""
-----------------------------------------------------------------------------
(***************************************************************************)
(* The inductive invariant                                                 *)
(***************************************************************************)
InCow == {"cow", "cowmap", "cowdec", "cowpush", "write"}
InLoop == {"unmap", "push", "alloc", "allocmap", "memfree", "copy", "copyinc"}
Uncounted == {"cowmap", "cowpush", "push", "allocmap"}
Forking(p) == pc[p] \in InLoop /\ op[p] = "fork"

\* What the label of a thread says about its locals and about the table it
\* works on, and that no other thread can be working on that table.
ThreadOK(p) ==
  /\ pc[p] = "dead" <=> state[p] # "LIVE"
  /\ hand[p] # NoFrame <=> pc[p] \in Uncounted \cup Counted
  /\ pc[p] \in InCow => /\ op[p] \in {"fault", "read", "wait"}
                        /\ ix[p] \in VA /\ map[Cur(p)][ix[p]] # NoFrame
  /\ pc[p] \in {"alloc", "allocmap", "memfree"} => op[p] \in {"grow", "exec"}
  /\ pc[p] \in {"alloc", "allocmap", "memfree"} /\ op[p] = "exec" => lim[p] = Len(Image)
  /\ pc[p] \in {"copy", "copyinc"} => op[p] = "fork"
  /\ pc[p] \in {"unmap", "push"} => op[p] \in {"fork", "wait", "grow", "shrink", "exec"}
  /\ Forking(p) => peer[p] \in Proc /\ state[peer[p]] = "USED"
  /\ pc[p] \in InLoop \cup InCow /\ op[p] = "wait" =>
       peer[p] \in Proc /\ state[peer[p]] = "ZOMBIE" /\ parent[peer[p]] = p
  /\ pc[p] \in {"allocmap", "memfree", "copyinc"} => ix[p] < lim[p]
  /\ pc[p] = "copyinc" => /\ map[Cur(p)][ix[p]] # NoFrame
                          /\ map[Cur(peer[p])][ix[p]] = map[Cur(p)][ix[p]]

OneForker == \A p, q \in Proc : Forking(p) /\ Forking(q) /\ peer[p] = peer[q] => p = q

\* Pages between the halves of kalloc and kfree, and free pages, have count 0
\* and are in one place only.
HandsOK ==
  /\ \A f \in freelist : temp[f] = 0
  /\ \A p \in Proc : pc[p] \in Uncounted =>
       /\ temp[hand[p]] = 0 /\ hand[p] \notin freelist
       /\ \A q \in Proc : q # p => hand[q] # hand[p]

IInv == /\ TypeOK
        /\ \A p \in Proc : ThreadOK(p)
        /\ OneForker
        /\ HandsOK
        /\ RefCountExact
        /\ WritableIsPrivate
        /\ NoJunkMapped
        /\ NoLeak

\* The pages lo .. hi-1 of a table are mapped, and no others.
Holds(t, lo, hi) == \A v \in VA : map[t][v] # NoFrame <=> lo <= v /\ v < hi

Filling(p) == pc[p] \in {"alloc", "allocmap", "memfree"}
Giving(p) == pc[p] \in {"unmap", "push"}

\* How far uvmalloc, uvmunmap and uvmcopy have come with their table.
LoopOK(p) ==
  /\ Filling(p) => /\ ix[p] <= lim[p] /\ Holds(Target(p), 0, ix[p])
                   /\ op[p] = "grow" => sz[p] <= ix[p]
  /\ Giving(p) /\ op[p] \in {"fork", "wait", "exec"} => Holds(Target(p), ix[p], lim[p])
  /\ Giving(p) /\ op[p] \in {"grow", "shrink"} =>
       /\ sz[p] <= ix[p]
       /\ \A v \in VA : map[Cur(p)][v] # NoFrame <=> v < sz[p] \/ (ix[p] <= v /\ v < lim[p])
  /\ pc[p] = "copy" => lim[p] = sz[p] /\ ix[p] <= lim[p] /\ Holds(Target(p), 0, ix[p])
  /\ pc[p] = "copyinc" => lim[p] = sz[p] /\ ix[p] < lim[p] /\ Holds(Target(p), 0, ix[p] + 1)

\* The tables between operations: a process has the pages below its size, a free
\* slot has none, and exec's second table exists only during exec.
TableOK(p) ==
  /\ state[p] = "UNUSED" => Holds(Cur(p), 0, 0)
  /\ ~(pc[p] \in InLoop /\ op[p] = "exec") => Holds(New(p), 0, 0)
  /\ state[p] = "LIVE" /\ ~(pc[p] \in InLoop /\ op[p] \in {"grow", "shrink"}) => Holds(Cur(p), 0, sz[p])
  /\ state[p] = "ZOMBIE" /\ ~(\E q \in Proc : Giving(q) /\ op[q] = "wait" /\ peer[q] = p)
       => Holds(Cur(p), 0, sz[p])

TablesOK == \A p \in Proc : TableOK(p) /\ LoopOK(p)

\* The mark for a page outside of a process is not the contents of a page.
ASSUME AbsentAssumption == NoFrame \notin Content

\* The memory that the program of p sees: pages below p->sz of a live process.
MemView(p) == [v \in VA |-> IF state[p] = "LIVE" /\ v < sz[p]
                            THEN content[map[Cur(p)][v]] ELSE NoFrame]
Mem == [p \in Proc |-> MemView(p)]

\* What uvmalloc puts into page v: zeroes for sbrk, the program for exec.
NewPage(p, v) == IF op[p] = "exec" THEN Image[v + 1].content ELSE Zero

\* The pages that uvmalloc has mapped so far hold what it put there, and nothing else
\* maps them; the pages that uvmcopy has passed are the parent's.
FillOK(p) ==
  /\ Filling(p) => \A v \in VA : AllocBase(p) <= v /\ v < ix[p] =>
       /\ content[map[Target(p)][v]] = NewPage(p, v)
       /\ \A t \in Table, w \in VA : map[t][w] = map[Target(p)][v] => t = Target(p) /\ w = v
  /\ pc[p] \in {"copy", "copyinc"} => \A v \in VA : v < ix[p] => map[Target(p)][v] = map[Cur(p)][v]

\* copyout has something of the kernel's to write; a store fault never gets there.
CopyoutOK(p) == pc[p] \in InCow => val[p] \in KVal \/ (op[p] = "fault" /\ pc[p] # "write")

FillsOK == \A p \in Proc : FillOK(p) /\ CopyoutOK(p)
=============================================================================
