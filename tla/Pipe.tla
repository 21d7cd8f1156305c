-------------------------------- MODULE Pipe --------------------------------
(***************************************************************************)
(* One pipe of pipe.c: processes read, write and close its two ends, and   *)
(* get killed.  pi->lock is held over each loop of pipewrite and piperead, *)
(* so a loop round is a step; sleep releases it after killed() has been    *)
(* tested.  nread and nwrite are unsigned counters that wrap.              *)
(***************************************************************************)
EXTENDS Integers, Sequences, FiniteSets

CONSTANTS Reader, Writer,  \* processes with a descriptor of either end
          NoProc,
          Text,      \* the bytes in the buffer of each writer
          Junk,      \* what kalloc leaves in a page
          PIPESIZE,
          WRAP,      \* unsigned counters are taken modulo this (2^32 in C)
          Sizes,     \* how many bytes calls ask for
          MaxReads, MaxWrites,  \* calls of a reader, of a writer
          Kill       \* processes that may be killed

Proc == Reader \cup Writer
Byte == UNION {{Text[p][k] : k \in 1 .. Len(Text[p])} : p \in Writer}

ASSUME PipeAssumption ==
  /\ PIPESIZE \in Nat \ {0} /\ WRAP \in Nat
  /\ \A p \in Writer : Sizes \subseteq 0 .. Len(Text[p])
  /\ MaxReads \in Nat /\ MaxWrites \in Nat
  /\ WRAP % PIPESIZE = 0 /\ PIPESIZE < WRAP
  /\ Reader \cap Writer = {} /\ NoProc \notin Proc /\ Kill \subseteq Proc

VARIABLES
  data, nread, nwrite, readopen, writeopen,  \* struct pipe
  lock,     \* holder of pi->lock
  freed,    \* times that the pipe was given to kfree
  pc, n, i, \* each process: where it is, and the locals of its call
  killed, calls

pipeVars == <<data, nread, nwrite>>
vars == <<pipeVars, readopen, writeopen, lock, freed, pc, n, i, killed, calls>>

Init ==
  /\ data = [k \in 0 .. PIPESIZE - 1 |-> Junk]
  /\ nread = 0 /\ nwrite = 0
  /\ readopen = TRUE /\ writeopen = TRUE
  /\ lock = NoProc /\ freed = 0
  /\ pc = [p \in Proc |-> "user"]
  /\ n = [p \in Proc |-> 0] /\ i = [p \in Proc |-> 0]
  /\ killed = [p \in Proc |-> FALSE]
  /\ calls = [p \in Proc |-> 0]

Goto(p, l) == pc' = [pc EXCEPT ![p] = l]
Inc(x) == (x + 1) % WRAP
Empty == nread = nwrite

\* Variant: the sum is computed in a wider type and does not wrap.
Full_NoWrap == nwrite = nread + PIPESIZE

Full == nwrite = (nread + PIPESIZE) % WRAP

AllCopied(p) == i[p] = n[p]

\* wakeup(chan): the sleepers at label l go on to acquire pi->lock.
Wake(f, l) == [q \in Proc |-> IF f[q] = l THEN "acquire" ELSE f[q]]

\* release(&pi->lock) and return; a killed process exits at once.
Return(p, f) ==
  /\ lock' = NoProc
  /\ pc' = [f EXCEPT ![p] = "user"]
-----------------------------------------------------------------------------
\* read(fd, addr, m) or write(fd, addr, m)
Call(p, m) ==
  /\ pc[p] = "user" /\ ~killed[p]
  /\ calls[p] < IF p \in Reader THEN MaxReads ELSE MaxWrites
  /\ calls' = [calls EXCEPT ![p] = @ + 1]
  /\ n' = [n EXCEPT ![p] = m] /\ i' = [i EXCEPT ![p] = 0]
  /\ Goto(p, "acquire")
  /\ UNCHANGED <<pipeVars, readopen, writeopen, lock, freed, killed>>

Acquire(p) ==
  /\ pc[p] = "acquire" /\ lock = NoProc
  /\ lock' = p
  /\ Goto(p, IF p \in Reader THEN "read" ELSE "write")
  /\ UNCHANGED <<pipeVars, readopen, writeopen, freed, n, i, killed, calls>>

\* sleep() has set SLEEPING under p->lock and released pi->lock.
Sleep(p) ==
  /\ pc[p] \in {"rpark", "wpark"}
  /\ lock' = NoProc
  /\ Goto(p, IF pc[p] = "rpark" THEN "rsleep" ELSE "wsleep")
  /\ UNCHANGED <<pipeVars, readopen, writeopen, freed, n, i, killed, calls>>
-----------------------------------------------------------------------------
(***************************************************************************)
(* pipewrite: a round of the loop                                          *)
(***************************************************************************)
WriteDone(p) == Return(p, Wake(pc, "rsleep")) /\ UNCHANGED <<pipeVars, i>>

WriteByte(p) ==
  /\ ~Full
  /\ data' = [data EXCEPT ![nwrite % PIPESIZE] = Text[p][i[p] + 1]]
  /\ nwrite' = Inc(nwrite)
  /\ i' = [i EXCEPT ![p] = @ + 1]
  /\ UNCHANGED <<nread, lock, pc>>

pipewrite(p) ==
  /\ pc[p] = "write"
  /\ IF AllCopied(p)
     THEN WriteDone(p)
     ELSE IF ~readopen \/ killed[p]
     THEN Return(p, pc) /\ UNCHANGED <<pipeVars, i>>
     ELSE \/ /\ Full
             /\ pc' = [Wake(pc, "rsleep") EXCEPT ![p] = "wpark"]
             /\ UNCHANGED <<pipeVars, lock, i>>
          \/ WriteByte(p)
          \/ ~Full /\ WriteDone(p)  \* copyin fails
  /\ UNCHANGED <<readopen, writeopen, freed, n, killed, calls>>
-----------------------------------------------------------------------------
(***************************************************************************)
(* piperead                                                                *)
(***************************************************************************)
\* The loop that waits for data.
ReadWait(p) ==
  /\ pc[p] = "read"
  /\ IF Empty /\ writeopen
     THEN IF killed[p] THEN Return(p, pc) ELSE Goto(p, "rpark") /\ UNCHANGED lock
     ELSE Goto(p, "copy") /\ UNCHANGED lock
  /\ UNCHANGED <<pipeVars, readopen, writeopen, freed, n, i, killed, calls>>

\* Variant: writers are only woken when the call got all it asked for.
ReadDone_IfAll(p) == Return(p, IF AllCopied(p) THEN Wake(pc, "wsleep") ELSE pc)

ReadDone(p) == Return(p, Wake(pc, "wsleep"))

\* The loop that copies; a byte whose copyout fails is gone.
piperead(p) ==
  /\ pc[p] = "copy"
  /\ IF AllCopied(p) \/ Empty
     THEN ReadDone(p) /\ UNCHANGED <<nread, i>>
     ELSE /\ nread' = Inc(nread)
          /\ \/ i' = [i EXCEPT ![p] = @ + 1] /\ UNCHANGED <<lock, pc>>
             \/ ReadDone(p) /\ UNCHANGED i
  /\ UNCHANGED <<data, nwrite, readopen, writeopen, freed, n, killed, calls>>
-----------------------------------------------------------------------------
\* Does another process still have the end of p open?
Shared(p) == \E q \in Proc \ {p} : /\ pc[q] \notin {"closing", "freeing", "closed"}
                                   /\ p \in Reader <=> q \in Reader

\* fileclose: close(fd), or exit.
Close(p) ==
  /\ pc[p] = "user"
  /\ Goto(p, IF Shared(p) THEN "closed" ELSE "closing")
  /\ UNCHANGED <<pipeVars, readopen, writeopen, lock, freed, n, i, killed, calls>>

\* Variant: the last writer leaves without waking readers.
pipeclose_Quiet(p) ==
  /\ pc[p] = "closing" /\ lock = NoProc
  /\ readopen' = (readopen /\ p \notin Reader)
  /\ writeopen' = (writeopen /\ p \notin Writer)
  /\ Goto(p, IF ~readopen' /\ ~writeopen' THEN "freeing" ELSE "closed")
  /\ UNCHANGED <<pipeVars, lock, freed, n, i, killed, calls>>

\* The section of pipeclose under pi->lock.
pipeclose(p) ==
  /\ pc[p] = "closing" /\ lock = NoProc
  /\ readopen' = (readopen /\ p \notin Reader)
  /\ writeopen' = (writeopen /\ p \notin Writer)
  /\ pc' = [Wake(pc, IF p \in Reader THEN "wsleep" ELSE "rsleep") EXCEPT
              ![p] = IF ~readopen' /\ ~writeopen' THEN "freeing" ELSE "closed"]
  /\ UNCHANGED <<pipeVars, lock, freed, n, i, killed, calls>>

\* Its kfree.
Free(p) ==
  /\ pc[p] = "freeing"
  /\ freed' = freed + 1
  /\ Goto(p, "closed")
  /\ UNCHANGED <<pipeVars, readopen, writeopen, lock, n, i, killed, calls>>

\* kill(): the flag, and a wakeup for a victim that sleeps.
KillProc(p) ==
  /\ p \in Kill /\ ~killed[p] /\ pc[p] # "closed"
  /\ killed' = [killed EXCEPT ![p] = TRUE]
  /\ Goto(p, IF pc[p] \in {"rsleep", "wsleep"} THEN "acquire" ELSE pc[p])
  /\ UNCHANGED <<pipeVars, readopen, writeopen, lock, freed, n, i, calls>>
-----------------------------------------------------------------------------
InCall(p) == Acquire(p) \/ Sleep(p) \/ pipewrite(p) \/ ReadWait(p) \/ piperead(p)
Leave(p) == Close(p) \/ pipeclose(p) \/ Free(p)

\* Nobody is runnable: the CPUs idle.
Idle == (\A p \in Proc : pc[p] \in {"rsleep", "wsleep", "closed"}) /\ UNCHANGED vars

Next == \/ \E p \in Proc : InCall(p) \/ Leave(p) \/ KillProc(p) \/ \E m \in Sizes : Call(p, m)
        \/ Idle

Spec == Init /\ [][Next]_vars

\* Kernel threads run on, the spin lock is handed out fairly, and every process
\* closes its descriptor in the end (exit does).
FairSpec == /\ Spec
            /\ \A p \in Proc : /\ WF_vars(InCall(p)) /\ WF_vars(Close(p)) /\ WF_vars(Free(p))
                               /\ SF_vars(Acquire(p) \/ pipeclose(p))
-----------------------------------------------------------------------------
Queue == [k \in 1 .. (nwrite - nread) % WRAP |-> data[(nread + k - 1) % PIPESIZE]]
Stream == INSTANCE ByteStream WITH Capacity <- PIPESIZE, queue <- Queue

\* The ring buffer is a first-in first-out queue of at most PIPESIZE bytes, also
\* when the counters of pipewrite and piperead wrap and calls are cut short.
ImplementsByteStream == Stream!Spec

KilledMidWrite == \E w \in Writer : killed[w] /\ 0 < i[w] /\ i[w] < n[w]

\* No lost wakeup: whenever pi->lock is free, a sleeping reader has nothing to
\* read (pipe.c "pipe-empty") and a sleeping writer no room ("pipewrite-full").
\* The exception is a writer that is killed between two bytes: pipewrite returns
\* without the wakeup for those it has stored.
NoLostWakeup ==
  lock = NoProc =>
    /\ \A p \in Reader : pc[p] = "rsleep" => writeopen /\ (Empty \/ KilledMidWrite)
    /\ \A p \in Writer : pc[p] = "wsleep" => readopen /\ Full

\* If every process closes its end sooner or later, every call returns and the
\* pipe is freed, in any order of closes, kills and short calls.
AllReturn == <>[](\A p \in Proc : pc[p] = "closed") /\ <>(freed = 1)
=============================================================================
