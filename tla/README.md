# Verification of the xv6 kernel and the two simulations

TLA+ modules beside the code of `src/`: an xv6 kernel for RISC-V with
copy-on-write fork and a priority-based scheduler (PBS), and two programs with
threads and semaphores, a cafe (`concurrency/1.c`) and an ice cream parlour
(`concurrency/2.c`). The modules are written from the C code. TLC checks them on
small instances, TLAPS proves the properties of the memory system, of the
scheduler, of the process life cycle and of the log for all sizes.

`PROJECT.json` has the same information for tools: components, runs, the source
lines of each definition, the hazards, and the theorems.

## 1. The system

| Part | Code | Modules |
|---|---|---|
| User memory, copy-on-write | `kalloc.c`, `vm.c`, `trap.c`, parts of `proc.c`, `exec.c` | `CowMemory`, `PrivateMemory`, `CowRefinement` |
| PBS scheduler | `proc.c`, `trap.c`, `sysproc.c`, `swtch.S` | `Scheduler` |
| Process life cycle | `proc.c`, `sysproc.c` | `ProcLife` |
| Log and crash recovery | `log.c` | `Log`, `AtomicDisk` |
| Buffer cache, sleep locks | `bio.c`, `sleeplock.c` | `BufCache`, `BlockStore` |
| Disk driver | `virtio_disk.c` | `VirtioDisk`, composed in `BufCache` |
| Inodes, directories, open files | `fs.c`, `file.c`, `sysfile.c` | `FileSystem` |
| Pipes | `pipe.c` | `Pipe`, `ByteStream` |
| Serial line and console | `uart.c`, `console.c`, `plic.c` | `Uart`, composed in `Console`; `Terminal` |
| Cafe | `concurrency/1.c` | `Cafe` |
| Parlour | `concurrency/2.c` | `Parlour` |

The parts interact through memory (`fork` and `exec` allocate and share pages),
through processes (everything sleeps and is woken by `proc.c`; the scheduler
decides who runs), through the buffer cache (the log pins what it has not
installed, the driver owns a buffer during a request) and through `kill`, which
reaches a process anywhere.

What makes them hard: any two CPUs interleave between spin-lock sections; a
section ends in the middle of an operation (`kfree` between the count and the
list, `uvmcopy` between the mapping and the count, `bget` between the reference
and the sleep lock, `iput` between the test and the lock); allocation fails
half-way; the machine stops between two disk writes; a value read without a
lock is stale when it is used. The hazards in `PROJECT.json` name the lines.

## 2. Modules

Every component has a module with its state and actions, an `MC` module for
TLC, and `.cfg` files. Abstract specifications and proofs are modules of their
own. Definitions whose name has an underscore suffix (`Push_Lost`,
`pipeclose_Quiet`) and the comment "Variant" are broken versions of the
definition that follows; no specification uses them. They exist to show that
the properties notice such a mistake.

The common rule for steps: a section under a spin lock is one step if nothing
else can see its intermediate states. A section that calls something which
takes other locks, or that a later section relies on, is split there. Loops
over pages, bytes or slots are a step per round.

### CowMemory, PrivateMemory, CowRefinement

Variables: `map`, `perm` (page tables: `<<p, "cur">>` is `p->pagetable`,
`<<p, "new">>` the table that `exec` builds), `content` (physical memory),
`temp` (the reference counts of `kalloc.c`), `freelist`; `state`, `sz`,
`parent`, `killed` of a process; and the kernel thread of each process: `pc`,
`op` (the system call), `ix`, `lim` (loop bounds), `hand` (the page in a local
variable), `peer` (child or zombie).

Actions: `UserStore`, `StoreFault`, `CowAlloc`, `CowMap`, `CowFree`, `CowPush`
(`usertrap` and `custom_cow`), `Copyout`, `CopyoutWrite`, `Unmap`, `FreePush`,
`UnmapDone` (`uvmunmap` for `sbrk`, `exec`, a failed `fork`, `wait`), `AllocPop`,
`AllocMap`, `MemFree`, `AllocDone` (`uvmalloc`), `Exec`, `ExecBad`, `Fork`,
`CopyPage`, `CopyIncrement`, `ForkDone` (`uvmcopy`), `Exit`, `Wait`, `Kill`.
`kfree` is two steps, `Decrement` and `Push`, because it drops its lock between
them. `uvmunmap` clears the entry after `kfree`; in the model the entry goes with
the decrement, since until the loop goes on nobody but the acting thread walks
that table. "Mapped" in `NoUseAfterFree` and `JunkInvisible` is to be read so: the
entry that its own thread is about to clear does not count. Panics are a variable,
so "this panic never fires" is an invariant.

Left out: the kernel's own pages, page-table pages (interior nodes of the
Sv39 tree), alignment, and page contents beyond one value per page.

`PrivateMemory` is what a program relies on: every process has memory of its
own, `fork` copies it in one step. `CowRefinement` says that the kernel
implements it, with the memory view of a process (`MemView`) taken through its
page table: `ImplementsPrivateMemory` without exception, `PrivateExceptCopyout`
up to a store of `copyout` to a page that the process maps without W
(`UncheckedCopyout`: the copy failed, or the page is text).

### Scheduler

Slots 0 .. NPROC - 1 and CPUs. `lock` holds only locks that outlive a step: the
candidate of a scan and a process in `swtch`. `Scan` is a round of the loop in
`scheduler()`, `Dispatch` the choice, `Start` the release by the new process,
`SwitchBack` the return. A process `Yield`s, `Sleep`s, `Exit`s, is woken,
forked, reaped. The clock interrupt is the `Clock` actions on CPU 0, which can
come whenever interrupts are on. `SetStatic` and `SetDynamic` are the two halves
of `sys_setpriority`, the second one without a lock as in the code.
`dp_priority` is the arithmetic of the code. `call` and `target` say of each
process in which window of `fork` or `setpriority` it is; it can be preempted
there, and another process then runs on its CPU. `load` never changes: it is what
the programs do in a behaviour, chosen in `Init`, so that one run covers several
loads. `seen` is a history variable: the
slots that a scan found RUNNABLE and that nobody has touched since.

Left out: the round-robin build, `setpriority` of pid 0 (it finds a free slot,
whose priorities `allocproc` sets again), overflow of the accounts (they stop at
`maxTick`; the code overflows after about 2^31 / 150 ticks of running).

### ProcLife

Parents, pids and states under `wait_lock`; a process that is in `swtch` holds
its own lock (`Locked`). `fork` is `ForkAlloc`, `ForkParent`, `ForkRun`; `exit`
is `Exit`, `reparent`, `WakeParent`, `Zombie`, `Switched`; `wait` and `waitx`
are `WaitLock`, `Reap`, `ReapFails`, `WaitMore`, `Sleep`. `kill(k)` takes the
first slot whose pid is `k`, whatever its state, as the code does. `asked` is a
history variable. Which runnable process runs is not modelled here.

### Log, AtomicDisk

Disk blocks, log blocks and the header are separate variables, and every
`bwrite` of `commit` and of recovery is a step, with `Crash` possible between
any two. Threads run operations that modify buffers and call `log_write`;
`Recycle` drops unpinned buffers. `AtomicDisk` has the view of the running
system and the stable contents: a crash forgets operations since the last
commit, never part of one. The disk writes a block atomically (external).

### VirtioDisk, BufCache, BlockStore

`VirtioDisk` has the descriptors (`free`, `next`), the requests that are in flight
(`req`, `info`), the two rings and the device, which takes requests in any order
(`DeviceStep`, external). `NUM`, the number of descriptors, is a variable that
never changes, so that one run covers several sizes. The handler acknowledges
first and then takes one answer per step, so that the device can answer in
between. `BufCache` composes it with the cache: `bget` (`Hit`, `Recycle` of the
least recently used buffer, `NoBuffers`), `acquiresleep`, `releasesleep`,
`brelse`, `bpin` and `bunpin` as the log calls them, and `virtio_disk_rw` with
both of its sleeps (`DiskFull`, `DiskStart`, `DiskDone`). A thread changes a block
only while it has it and then writes or pins it, as all callers do. It holds one
buffer at a time; `write_log`, `install_trans` and `bmap` hold two for a while,
which `bio.c` cannot tell from two threads with one each. That callers who hold
two do not wait for each other in a circle is not checked. `BlockStore` is the
promise: a block has one content, a thread that has it has it alone.

### FileSystem

Inodes on disk (`dinode`, `ents`, the bitmap `used`) and in memory (`mem`,
`valid`, `ref`, `lock`), the file table, descriptors and the directory of each
process. The calls are `open` with and without creation and truncation, `mkdir`,
`mknod`, `link`, `unlink`, `chdir`, `close`, `dup`, `read`, `write`, `fstat`. A
call is a sequence of steps between sleep locks: `namex` is a step per path
element, `iput` is `iput`, `itrunc`, `FreeInode`, `Invalidate`, `iputEnd`. `stack`
holds what a call does after a nested operation. A `link` that finds its new name
taken drops the existing inode with the directory still locked, as `dirlink` does.
A `read` or `write` is of one block, so `filewrite` is one transaction; the copy
from or to user memory may fail, and a `write` that fails so leaves a block beyond
the size. `mknod` may name a device that does not exist, which `open` then
refuses. Every allocation can fail because the disk, the inode table on disk, the
file table or the descriptors are used up. Transactions (`begin_op`, `end_op`) are
not in this module: that an operation is atomic is what `Log` shows. A block of a
file is a unit; a directory has room for `DPB` entries per block. The table of
inodes in memory has a place for every inode on disk, so `iget` never runs out of
it.

### Pipe, ByteStream

One pipe, several readers and writers. A loop round is a step; `Sleep` is the
window between the test of `killed()` and the state change. `nread` and `nwrite`
count modulo `WRAP`, a multiple of PIPESIZE as 2^32 is. Each writer has its own
text of distinct bytes, so that a lost, repeated or foreign byte shows. Copies
from and to user memory can fail at any byte. `ByteStream` is a bounded FIFO
queue.

### Uart, Console, Terminal

`Uart` has the output ring, the writers that sleep when it is full, and the
device (external). `Console` adds the input ring with line editing, the readers
(which hold `cons.lock` until `sleep` has set the state, `park`) and the interrupt
handler, whose echo spins for the device and writes to it
without `uart_tx_lock` (`uartputc_sync`, then `Store` or `Erase`). The indices
`r`, `w`, `e` wrap at `WRAP`, as unsigned numbers do. What is written and how many
keys come are chosen in `Init` from `Loads`. `Terminal` is the promise:
a line editor in front of a queue, and a queue for the output.

### Cafe, Parlour

Threads in ring order, customers first; `Test`, `Wait`, `Body`, `Post` are the
loop, the bodies under the lock are `customer_func` and `barista_func`, or
`customer_func` and `icecream_machine_func`. `Load` and `Store` are the two
halves of the unprotected counter of closed threads. The inputs are chosen in
`Init`: the numbers of baristas or seats, arrival times, orders, opening times,
stocks. Times to prepare are positive: with
zero, an order would end in a tick that its machine has passed (`2.c:257`), and
`ParlourAssumption` excludes it; there are at most 9 machines, as the arrays have
rows. In `Parlour` the loops of a machine over the orders and of a customer
over their ice creams are sets (`LookForOrder`, `TurnedAway`, `GiveUp`), since
they run under the lock.


## 3. What TLC checks

| Run | Instance | Shows | States |
|---|---|---|---|
| `cow_grow_exec` | 2 processes, 3 frames, 2 pages; fork, sbrk, exec, wait | `RefCountExact`: reference counts are exact; `NoLeak`; `NoInternalPanic`: no sanity panic; `ImplementsPrivateMemory`: the kernel refines `PrivateMemory` | 228,865 |
| `cow_fork` | 2 processes, 2 frames, 1 page of text; all calls, kill; fair | `WritableIsPrivate`: a writable page is mapped once; `IsolatedExceptCopyout`: only `copyout` changes pages that are mapped without W; `KillLostOnlyInFault`; `KernelReturns`: every call on memory ends, with memory running out anywhere | 175,905 |
| `sched_all` | 2 CPUs, 2 slots, four loads: fork with sleep and exit; with sleep and the clock; with `setpriority` and the clock; with exit and `setpriority` to 2 values | `OneStack`: no kernel stack is in use on two CPUs; `PickIsBest`: a scan ends with the best slot it has seen, whatever `setpriority` and the clock do meanwhile | 2,651,590 |
| `proc_tree` | 4 slots, pids to 4, `kill` of pids 0 and 3; fair | `ParentAlive`; `WaiterHasReason`: no missed exit; `FreedOffStack`: slots are freed off their stack; `KilledByPid`; `OrphansReaped`: `init` reaps every zombie it has or adopts | 199,633 |
| `log_commit` | 2 threads, 2 blocks, log of 3 operations, a crash; fair | `ImplementsAtomicDisk`; `SpaceIsReserved`: reservations never exceed LOGSIZE; `SleepersWake` | 250,226 |
| `disk_cache` | 2 threads, 2 buffers, 3 blocks, 4 and 6 descriptors | `RefcntExact`: reference counts are exact and no block has two buffers; `DescriptorsAccounted`; `SleepersHaveReason`: nobody sleeps in vain; `ImplementsBlockStore` | 847,264 |
| `fs_calls` | 2 processes with 2 calls each out of 19, 5 inodes, 6 blocks | `RefsExact`; `LastRefUnlocked`: the assumption of `iput`; `LinksCovered`: no entry without a link; `BlocksExact`: the bitmap is exact; `OnlyDotdotPanics` | 1,084,949 |
| `pipe_all` | 1 reader with 4 reads, 2 writers of 1 or 3 bytes, ring of 2, counters modulo 4, kills; fair | `ImplementsByteStream`: FIFO across the wrap; `NoLostWakeup`; `AllReturn`: all calls return and the pipe is freed | 255,400 |
| `console_all` | 1 writer, 1 reader, rings of 2, indices modulo 4; 5 keys out of 6, or 4 characters of output and 2 keys; fair | `ImplementsTerminal`: no character is lost, repeated or out of order; `SleepsOnlyWhenEmpty`; `AllSent`: every write gets out | 637,535 |
| `cafe_orders` | 2 customers, 1 and 2 baristas, all mixtures of 2 values for each input; fair | `EachOrderSettledOnce`; `NoWasteWithSlack`: nothing is wasted when a barista is free and the tolerance exceeds the time to prepare; `AllSettled` | 518,496 |
| `cafe_waste` | 2 customers, 2 baristas | finding: `NoWasteIfTolerant`, the claim of `README.md:39`, is violated | |
| `parlour_day` | 2 machines, 2 customers, 1 and 2 seats, 2 toppings, 3 menus, one of them with more toppings than there are kinds, 2 plans of opening times, 2 stocks | `SeatsExact`; `StockExact`: no topping is given twice, up to ice creams with more than T toppings; `NobodyForgotten`; `IdleAtEnd`: no machine ends its day in an order | 2,178,934 |

Bounds. They are chosen so that the awkward case happens: two sharers of a page
that fault at once, and memory that runs out in every loop (three and more sharers
are covered by the proofs of section 4, not by a run); two CPUs with candidates
and the clock on one of them (the loads of `sched_all` are what TLC can do in
minutes; all calls at once, and more slots, are covered by the proofs); a slot
that is used a second time; a chain of four processes so that an orphan's new
parent is not woken by accident; a transaction that fills the log, with the ratio
of three operations to a log that `param.h` has, and a crash during a commit (one
crash is enough: recovery starts from the disk alone); fewer buffers than blocks
and fewer descriptors than two requests need (4), and as many (6); a directory
tree of depth two, so that the parent of a removed directory can be removed and
freed, with one direct and one indirect block, so that a file needs both, and with
a free inode and two free blocks, so that creation fails half-way; six bytes
through a pipe of two, so that both counters pass their wrap while the pipe is
full and empty; five keys, more than the input indices can tell apart, which fill
the ring with and without a newline and erase across the wrap, and output that
fills its ring twice; a customer whose patience ends in the tick in which the
coffee is ready; two customers who both find enough toppings when they order and
not when the machines start. The log run has operations of one block; transactions
have two, since operations share them, and atomicity is a matter of transactions.

Symmetry. Frames, threads of the cache and processes of the file system are
interchangeable, and the runs that use this check no liveness.

Fairness. Kernel threads are weakly fair: a CPU goes on, and the timer makes
sure that a preempted thread is scheduled again. PBS gives this only among
processes of equal priority (see below), so the other modules assume these.
Spin locks are given strong fairness where a thread competes for one that others
take again and again, which stands for contention that ends. In `Log`, an
operation makes finitely many writes. In `Pipe`, every process closes its end at
last (`exit` does). `init` calls `wait` for ever (`user/init.c`). In `Console`
interrupts are taken and the device sends; nothing makes a user type or a
process read. In `Cafe` the operating system runs every thread. Nothing else is
assumed of user programs. `Parlour`, `BufCache` and `FileSystem` are checked for
safety only: that all threads of the parlour stop is false, and progress of the
cache and the file system depends on callers that release what they hold.

Deadlock is checked in all runs. States in which the system may rest have a step
of their own that changes nothing: all users of a pipe or of the console sleep
or are done and the CPUs idle (`Idle`, `Quiet`), the machine has panicked
(`Halted`, `Stop`), the calls of the run are over (`Stop`), and `main` of the two
simulations spins.

### Behaviour that a reader of the code may not expect

The models have it, and where a property has to allow for it, the exception is
named in the property.

- `copyout` tests only the COW bit (`vm.c:433`) and ignores the result of
  `custom_cow` (`vm.c:434`): when no page is left it writes into the shared page,
  so a child's `read` can change the buffer of its parent. `cowtest.c:173` expects
  that a child never does ("error: child overwrote parent"). Read-only text is not
  marked COW by `uvmcopy` and is shared as it is, so a `read` into text succeeds
  and changes it for all sharers, with memory left or not. `IsolatedExceptCopyout`
  excepts both cases: any store of `copyout` through an entry without W.
- A `kill` that comes during a store fault is lost: `p->killed` is assigned from
  the result of `custom_cow` (`trap.c:91`). `KillLostOnlyInFault` says that it is
  lost nowhere else.
- A store above the process size goes through the copy-on-write path and panics
  there (`vm.c:358`). `NoInternalPanic` is about the other panics.
- `README.md:16` says that the priority "allows starved process to gain CPU". A
  process of static priority 100 starves next to one that always compares better:
  `dp_priority` is never better than the static priority (theorem `DpBounds`).
- `kill(0)` matches a free slot, whose pid is 0 (`proc.c:731`); the next process
  born there is killed. `KilledByPid` has this exception.
- `mkfs` gives the log LOGSIZE blocks including its header, and `log_write`
  tests for space before it looks for the block in the log (`log.c:220`). Three
  operations that use all of their allowance reach the panic "too big a
  transaction". The system calls of this kernel write fewer blocks.
- NBUF equals LOGSIZE (`param.h:11`), and logged blocks stay pinned until the
  commit, so `bget` can panic with "no buffers" (`bio.c:88`) when the log is full
  of other operations' blocks. The step `NoBuffers` is reachable in `disk_cache`.
- A process whose current directory has been removed reaches, through "..", a
  directory that may have been removed and freed as well, and `ilock` then panics
  with "ilock: no type" (`fs.c:315`). `OnlyDotdotPanics` says that it panics in
  no other case.
- A writer that is killed between two bytes returns without a wakeup
  (`pipe.c:84`), so a reader can sleep on a pipe with data until another end
  is used or closed. `NoLostWakeup` excepts this case.
- A `kill` between the test of `killed()` and `sleep` is noticed only at the
  next wakeup (`pipe.c:114`).
- Cafe and parlour: a thread tests for the end outside of the lock. One that is
  late leaves without posting its semaphore, its successor waits for ever and
  `main` spins (`1.c:74`, `1.c:163`). `thread_closed++` is not protected either
  (`1.c:153`, `1.c:232`, `2.c:284`, `2.c:530`) and can lose a thread.
- Cafe: `README.md:39` says "Assuming that all customers are having tolerance time
  >= time to prepare the coffee, the coffee wastage would be 0". With both equal the
  coffee is wasted: customers other than the first leave before the baristas act in
  a tick (`1.c:190`), and ordering takes a tick. The run `cafe_waste` shows it with
  a barista for everyone; `NoWasteWithSlack` is what the code does guarantee.
- Parlour: `README.md:49` says a customer is rejected for a shortage "only when
  first placing their order"; the code rejects at the preparation as well
  (`2.c:212`). Orders that a leaving customer withdraws are not counted
  (`2.c:432`), so the day may never be over; a customer who comes after the
  machines have stopped never leaves; the flag for a refusal because of a shortage
  is in the row of the next machine (`2.c:214`); and the shop also
  closes at once (`super`) when no topping is limited.
- Parlour: the check at the preparation counts only the first T toppings of an ice
  cream (`2.c:189`), the deduction takes all (`2.c:236`). With one kind and a stock
  of 2, a customer with one topping and one with it twice both get theirs, and the
  quantity ends at -1, which means unlimited from then on. `StockExact` excepts
  ice creams with more than T toppings, and says of these as well where the
  quantity stops.

## 4. What is proved

The theorems of `CowMemoryProofs`, `SchedulerProofs`, `ProcLifeProofs` and
`LogProofs` hold for every number of processes, pages, frames, slots, pids, CPUs,
disk blocks and crashes, from the named assumptions on constants:
`ConstantsAssumption` and `AbsentAssumption` (the mark for "no page" is not the
contents of a page) in `CowMemory`, `SchedulerAssumption`, `ProcAssumption` in
`ProcLife`, and `LogAssumption` in `Log` (sizes are numbers, the log has a header
block, and the marks for "not cached" and "not held" are no block contents and no
thread). TLC evaluates them in the runs.

### Memory: the invariant

`RefCountExact` is not inductive: a thread that is about to free a page holds a
reference no page table shows, and a page that was just taken from the free list
is counted by nobody. `IInv` adds `HandsOK` (pages in local variables are distinct
from one another, from free pages and, when uncounted, from mapped ones),
`ThreadOK` (what the loop variables of each label mean) and `OneForker` (two forks
never fill the same slot). Theorems: `Invariance`, `TypeCorrect`, `CountsExact`,
`WritersAlone`, `NoUseAfterFree`, `JunkInvisible`, `NothingLeaks`.

`NoInternalPanic` needs more, since `mappages` and `uvmunmap` panic on what a
page table holds: `TablesOK` says that between calls a process has exactly the
pages below its size, and how far each loop of `uvmalloc`, `uvmcopy` and
`uvmunmap` has come with its table (`LoopOK`). The difficult cases are the
tables of others: while a parent empties a zombie's table, or a forker fills a
child's, nobody else may have the same target (`WorksApart`). Theorems:
`TablesInOrder`, `NeverPanics`.

Action properties: `Isolation` (`IsolatedExceptCopyout`; every writer of a page
found in `ContentWriters` has it alone, or holds it unmapped, or is `copyout` at an
entry without W) and `KillSticks`
(`KillLostOnlyInFault`).

### Memory: the refinement

`PrivateMemories` says that every step of the kernel is, for the programs, a step
of `PrivateMemory`, or changes nothing, or is `UncheckedCopyout`, the store that
`copyout` makes without having the page for itself. `CowInvisible` is the exact
refinement `ImplementsPrivateMemory` where `KVal`, the values that the kernel
copies out to user pages, is empty: without `copyout` there is no exception. This
is also the instance of the run `cow_grow_exec`. With `copyout` the exact
refinement is false: on the instance of `cow_fork` TLC finds the store into the
shared page in a few steps, and it finds `PrivateExceptCopyout` true there.

The calls take many steps and their effect on the view comes in one: `sbrk` and
`exec` when `AllocDone` sets the size or the table, `fork` when `ForkDone` makes
the child live. So the proof must know what the loops have prepared until then.
That is `FillsOK`: the pages that `uvmalloc` has mapped so far hold zeroes or the
program and are mapped nowhere else, and the pages that `uvmcopy` has passed are
the parent's pages (theorem `LoopsFill`). That they stay so, whatever other
processes do in between, rests on `Footprint` (whose tables a step changes),
`ContentChange` (whose pages) and `OthersStay`. `MemStep` then has one lemma per
kind of change: `StoreViews`, `GrowView`, `ShrinkView`, `ExecView`, `ForkViews`,
`ExitView`, and `OtherViews` for the rest.

The proofs have a lemma per action, in modules that build on one another:
`CowMemoryFacts` (counting, framing, and who works on which table; the counting
arguments rest on `CardAdd`, `CardRemove` and `CardSwap`, which say how the set of
mappings of a page grows, shrinks or moves by one; and the calls of user programs,
fork's and exit's bookkeeping), `CowAllocProofs` (everything that takes, maps or
drops a page), `CowTableProofs` (`TablesOK` and the panics),
`CowContentProofs` (contents and the views of the programs) and
`CowMemoryProofs`, which puts the lemmas together and has the theorems.

### Scheduler

`OneStack` needs to know that the lock of a process in `swtch` is held by its
CPU; `PickIsBest` needs that a candidate is locked and that what the scan computed
for it is still its value. `SchedInv` says, per CPU and label, which lock it
holds, that candidates of two CPUs differ, that a slot is RUNNING exactly on the
CPU whose `c->proc` it is, that the candidate is at least as good as every slot in
`seen`, and that a slot of an unfinished fork belongs to one forker. `BeforeTrans`
(the order of candidates is transitive) and `DpSame` (the priority depends on the
slot's own accounts only) carry the argument over the scan. Theorems:
`SchedulerInvariance`, `StacksAlone`, `BestPicked`, `SchedulerTypes`, and
`DpBounds`, the arithmetic reason for the starvation: the priority of a process is
never better than its static one.

### Process life cycle

All four invariants of the run are proved: `NoOrphans` (`ParentAlive`),
`NoLostChild` (`WaiterHasReason`), `SlotsReused` (`FreedOffStack`) and `KillHits`
(`KilledByPid`). None is inductive. `IInv` of `ProcLife` adds who holds
`wait_lock` (`LockOK`), what holds of a process at each label of `exit` (`ExitOK`:
after `reparent` it has no children, and after `WakeParent` its parent is awake
until the zombie can be seen) and of `wait` (`WaitOK`: a process about to sleep
has children and no zombie among them), that a slot in an unfinished `fork` belongs
to one forker and has the parent that the forker has given it (`ForkOK`), that
pids in use are below `nextpid` and no two slots share one (`PidOK`), and that a
free slot has neither parent nor pid (`FreeOK`). The central case is `reparent`:
`init` may sleep when it gets a zombie, and is woken in the same step.

### Log and crash recovery

`CrashSafe` is the refinement `ImplementsAtomicDisk`: with the view of readers
mapped to `View` and the stable contents to `Recovered` (the home blocks after
`Replay` of the header on disk), every step is a step of `AtomicDisk` or a stutter.
`write_head` is the step that makes the view stable; `install_trans`, `clear_head`
and recovery must change neither the view nor what a crash would give, and
`Recycle` must not change the view.

None of this follows from the variables' types. `IInv` of `Log` says that
operations are counted exactly and that there are none while a thread commits, of
which there is at most one (`CountOK`); that a held buffer is about to be logged
by its holder (`HeldOK`); that the pinned blocks are those of the transaction that
are not yet installed (`PinOK`); that every other buffer nobody holds has the
contents of its home block (`CacheOK`), which makes recycling invisible; that the
header on disk is empty or is the list of a complete transaction, also after a
crash (`HeadOK`); and how far `write_log` and `install_trans` have come
(`CopiedOK`): a block that is installed has the logged contents at home, so that
installing it again after a crash changes nothing. That a list names no block
twice (`ListOK`) matters: otherwise the order of installation would decide the
contents. The lemmas `ReplayIs`, `ReplayAgain` and `ReplayDone` say what `Replay`
does at a block, that replaying again makes no difference, and when the header can
go. `LogInvariance` has one lemma per action for `IInv`, and `CrashSafe` one per
action for the refinement.

`LogSpace` (`SpaceIsReserved`) needs `SpaceOK`: each operation has logged at most
MAXOPBLOCKS blocks, all of them in the transaction. The set `Used` of pairs of an
operation and a block it has logged is what `log_write` makes grow by one when the
list does; `begin_op` adds an operation with nothing in it, and `end_op` takes one
away, with its share of `Used`, which the bound on its blocks pays for.

### Only model-checked

The other refinements (`ImplementsByteStream`, `ImplementsBlockStore`,
`ImplementsTerminal`) and the invariants of `BufCache`, `FileSystem`, `Pipe`,
`Console`, `Cafe` and `Parlour`: their inductive invariants are not written yet.
All liveness (`KernelReturns`, `OrphansReaped`, `SleepersWake`, `AllReturn`,
`AllSent`, `AllSettled`) is out of the prover's reach, as it has no rules for
fairness and ENABLED.

## 5. Not modelled

- Spin locks and the nesting of `push_off`: atomic instructions and interrupt
  masking of one CPU. A section under a spin lock is one step, except where the
  code keeps the lock across one.
- The times that `waitx` returns (`ctime`, `rtime`, `etime`) and `sys_sleep`.
  The accounts that decide scheduling are in `Scheduler`, as unbounded numbers.
- Traps and dispatch of system calls: saved registers and control registers are
  below the model. What a trap does to memory, scheduling and `killed` is modelled.
- Copying of arguments by `exec` and `sys_pipe`, and the parsing of ELF files:
  plain data handling. The memory side of `exec` is in `CowMemory`.
- Path names as text, and the layout of inodes and entries on disk.
- The round-robin build (`SCHEDULER` other than PBS): its loop is the same scan
  without the comparison.
- Boot and machine set-up: each hart runs it once, before anything interleaves.
- The string functions and text output of the kernel and the user library, the
  user allocator, the shell and other user programs: sequential code in one
  process that no kernel state depends on. `init`'s endless `wait` is a fairness
  assumption of `ProcLife`.
- The RAM disk, which the Makefile does not build; `mkfs`, a sequential program
  of the host, whose size of the log is used in `Log`; tests.
- Numbers that overflow after years or with huge inputs: the accounts of the
  scheduler (`proc.c:503`) and the difference of unsigned times (`proc.c:853`).
