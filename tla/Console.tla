------------------------------ MODULE Console -------------------------------
(***************************************************************************)
(* The console, kernel/console.c, with the interrupt handler of uart.c.    *)
(* Typed characters go through line editing in the ring cons.buf: [r, w)   *)
(* is ready for readers, [w, e) is the line being edited.  The indices are *)
(* unsigned and wrap around.                                               *)
(***************************************************************************)
EXTENDS Uart

CONSTANTS Reader,             \* processes in consoleread
          Requests,           \* [n |-> bytes asked for, m |-> bytes of dst that can be written]
          INPUT_BUF_SIZE, WRAP

ASSUME ConsoleAssumption ==
  /\ INPUT_BUF_SIZE \in Nat \ {0}
  /\ WRAP \in Nat /\ WRAP > INPUT_BUF_SIZE /\ WRAP % INPUT_BUF_SIZE = 0

VARIABLES buf, r, w, e,          \* cons
          rpc, req, got, killed, \* readers: where, the call, what it has read so far
          hpc, hc                \* the interrupt handler, and its character

cons == <<buf, r, w, e>>
readers == <<rpc, req, got, killed>>
vars == <<uartVars, cons, readers, hpc, hc>>

NoRequest == [n |-> 0, m |-> 0]
NewLine == "nl"
CtrlD == "^D"
CtrlU == "^U"
CtrlP == "^P"
BackSpace == "^H"
Plain == {"a", NewLine, CtrlD}
Keys == Plain \cup {CtrlU, CtrlP, BackSpace}

Diff(a, b) == (a - b) % WRAP
At(i) == buf[i % INPUT_BUF_SIZE]

\* The characters from index a up to index b.
Cells(a, b) == [i \in 1 .. Diff(b, a) |-> At((a + i - 1) % WRAP)]

\* cons.lock is held by the handler while it waits for the device, and by a reader
\* between killed() and the end of sleep(); otherwise for one step.
Locked == hpc \in {"spin", "echo"} \/ \E p \in Reader : rpc[p] = "park"

Init ==
  /\ UartInit
  /\ buf = [i \in 0 .. INPUT_BUF_SIZE - 1 |-> NewLine] /\ r = 0 /\ w = 0 /\ e = 0
  /\ rpc = [p \in Reader |-> "idle"] /\ got = [p \in Reader |-> <<>>]
  /\ req = [p \in Reader |-> NoRequest]
  /\ killed = [p \in Reader |-> FALSE]
  /\ hpc = "off" /\ hc = CtrlP
-----------------------------------------------------------------------------
(***************************************************************************)
(* consoleread                                                             *)
(***************************************************************************)
\* Variant: the end of file is not kept for the next call.
PastEof_Lost(had) == 1

\* How far cons.r goes over ^D: not at all when the call has read something.
PastEof(had) == IF had > 0 THEN 0 ELSE 1

\* The loop, from acquire to the return of the call q or to sleep; x is what the
\* call has read before.  It ends at ^D, at a newline, with n characters, or when
\* a character cannot be copied out, which is lost.
Loop(p, q, x) ==
  LET avail == Cells(r, w)
      had(j) == Len(x) + j - 1
      ends == {j \in 1 .. Len(avail) : avail[j] \in {NewLine, CtrlD} \/ had(j) = q.m \/ had(j) + 1 = q.n}
      j == CHOOSE k \in ends : \A i \in ends : k <= i
  IN IF ends # {}
     THEN /\ r' = (r + j - 1 + IF avail[j] = CtrlD THEN PastEof(had(j)) ELSE 1) % WRAP
          /\ rpc' = [rpc EXCEPT ![p] = "idle"]
          /\ got' = [got EXCEPT ![p] = <<>>] /\ req' = [req EXCEPT ![p] = NoRequest]
     ELSE /\ r' = w
          /\ rpc' = [rpc EXCEPT ![p] = IF killed[p] THEN "idle" ELSE "park"]
          /\ got' = [got EXCEPT ![p] = IF killed[p] THEN <<>> ELSE x \o avail]
          /\ req' = [req EXCEPT ![p] = IF killed[p] THEN NoRequest ELSE q]

consoleread(p) ==
  /\ rpc[p] = "idle" /\ ~killed[p] /\ ~Locked
  /\ \E q \in Requests : Loop(p, q, <<>>)
  /\ UNCHANGED <<uartVars, buf, w, e, killed, hpc, hc>>

ReadAgain(p) ==
  /\ rpc[p] = "awake" /\ ~Locked
  /\ Loop(p, req[p], got[p])
  /\ UNCHANGED <<uartVars, buf, w, e, killed, hpc, hc>>

\* sleep() has set SLEEPING and released cons.lock.
Sleep(p) ==
  /\ rpc[p] = "park"
  /\ rpc' = [rpc EXCEPT ![p] = "asleep"]
  /\ UNCHANGED <<uartVars, cons, req, got, killed, hpc, hc>>

\* kill() of a process that reads: a sleeping process is made runnable.
Kill(p) ==
  /\ rpc[p] # "idle" /\ ~killed[p]
  /\ killed' = [killed EXCEPT ![p] = TRUE]
  /\ rpc' = [rpc EXCEPT ![p] = IF @ = "asleep" THEN "awake" ELSE @]
  /\ UNCHANGED <<uartVars, cons, req, got, hpc, hc>>
-----------------------------------------------------------------------------
(***************************************************************************)
(* devintr for the serial port: uartintr and consoleintr                   *)
(***************************************************************************)
Hand(l, c) == hpc' = l /\ hc' = c

\* From plic_claim to plic_complete no other processor is given the interrupt; the
\* device may raise it again in the meantime.
plic_claim == hpc = "off" /\ irq /\ irq' = FALSE
plic_complete == hpc' = "off"

uartintr ==
  /\ plic_claim
  /\ hpc' = "get"
  /\ UNCHANGED <<thr, rx, keys, ring, writers, cons, readers, hc>>

Room == Diff(e, r) < INPUT_BUF_SIZE

\* The next character that has come in; -1 when there is none.
uartgetc == rx # <<>> /\ rx' = Tail(rx)

\* The begin of consoleintr: a character that is stored or erases something is
\* echoed first; the others do nothing.
consoleintr ==
  /\ hpc = "get" /\ ~Locked /\ uartgetc
  /\ IF \/ Head(rx) \in Plain /\ Room
        \/ Head(rx) = BackSpace /\ e # w
        \/ Head(rx) = CtrlU /\ e # w /\ At((e - 1) % WRAP) # NewLine
     THEN Hand("spin", Head(rx))
     ELSE UNCHANGED <<hpc, hc>>
  /\ UNCHANGED <<thr, irq, keys, ring, writers, cons, readers>>

\* uartputc_sync: spin until the device is idle; the write is a step of its own,
\* because the ring is not locked.
uartputc_sync ==
  /\ hpc = "spin" /\ Idle
  /\ hpc' = "echo"
  /\ UNCHANGED <<uartVars, cons, readers, hc>>

Wake == rpc' = [p \in Reader |-> IF rpc[p] = "asleep" THEN "awake" ELSE rpc[p]]

\* Variant: the readers are only woken for a whole line, not for a full ring.
Commit_WakeLine(next) ==
  IF hc \in {NewLine, CtrlD} THEN w' = next /\ Wake
  ELSE w' = (IF Diff(next, r) = INPUT_BUF_SIZE THEN next ELSE w) /\ UNCHANGED rpc

Commit(next) ==
  IF hc \in {NewLine, CtrlD} \/ Diff(next, r) = INPUT_BUF_SIZE THEN w' = next /\ Wake
  ELSE UNCHANGED <<w, rpc>>

Store ==
  /\ hpc = "echo" /\ hc \in Plain
  /\ thr' = Append(thr, Echo)
  /\ buf' = [buf EXCEPT ![e % INPUT_BUF_SIZE] = hc]
  /\ e' = (e + 1) % WRAP
  /\ Commit((e + 1) % WRAP)
  /\ Hand("get", CtrlP)
  /\ UNCHANGED <<rx, irq, keys, ring, writers, r, req, got, killed>>

\* A character is erased; ^U goes on to the begin of the line.
Erase ==
  LET b == (e - 1) % WRAP
  IN /\ hpc = "echo" /\ hc \in {CtrlU, BackSpace}
     /\ thr' = Append(thr, Echo)
     /\ e' = b
     /\ IF hc = CtrlU /\ b # w /\ At((b - 1) % WRAP) # NewLine THEN Hand("spin", hc)
        ELSE Hand("get", CtrlP)
     /\ UNCHANGED <<rx, irq, keys, ring, writers, buf, r, w, readers>>

\* No more input: send what is buffered.
IntrEnd ==
  /\ hpc = "get" /\ rx = <<>>
  /\ uartstart(uart_tx_buf, uart_tx_w, uart_tx_r)
  /\ plic_complete
  /\ UNCHANGED <<rx, irq, keys, uart_tx_buf, uart_tx_w, todo, cons, readers, hc>>
-----------------------------------------------------------------------------
devintr == uartintr \/ consoleintr \/ uartputc_sync \/ Store \/ Erase \/ IntrEnd
consolewrite(p) == uartputc(p) /\ UNCHANGED <<cons, readers, hpc, hc>>
Device == Send /\ UNCHANGED <<cons, readers, hpc, hc>>
Typing == (\E c \in Keys : Arrive(c)) /\ UNCHANGED <<cons, readers, hpc, hc>>

\* No process is runnable and no interrupt comes any more: the scheduler loops.
Quiet ==
  /\ keys = 0 /\ hpc = "off" /\ ~irq /\ thr = <<>>
  /\ \A p \in Writer : todo[p] = <<>> \/ p \in waiting
  /\ \A p \in Reader : rpc[p] = "asleep" \/ (rpc[p] = "idle" /\ killed[p])
  /\ UNCHANGED vars

Next ==
  \/ \E p \in Reader : consoleread(p) \/ ReadAgain(p) \/ Sleep(p) \/ Kill(p)
  \/ devintr
  \/ \E p \in Writer : consolewrite(p)
  \/ Device \/ Typing
  \/ Quiet

Spec == Init /\ [][Next]_vars

\* Processes are scheduled, interrupts are taken, and the device sends; nothing
\* makes a process read or a user type.
FairSpec ==
  /\ Spec
  /\ \A p \in Reader : WF_vars(ReadAgain(p) \/ Sleep(p))
  /\ \A p \in Writer : WF_vars(consolewrite(p))
  /\ WF_vars(devintr)
  /\ WF_vars(Device)
-----------------------------------------------------------------------------
\* The output that has not left the device.
Buffered == [i \in 1 .. uart_tx_w - uart_tx_r |-> uart_tx_buf[Slot(uart_tx_r + i - 1)]]
Output == SelectSeq(thr, LAMBDA c : c # Echo) \o Buffered

T == INSTANCE Terminal WITH ready <- Cells(r, w), line <- Cells(w, e), out <- Output,
                            Size <- INPUT_BUF_SIZE, Chars <- {"x", "y"}

\* The rings of console.c and uart.c behave like a line editor and a queue: no
\* character is lost, repeated or out of order, and an end of file that a read
\* does not return stays for the next one.
ImplementsTerminal == T!Spec

\* consoleread sleeps only while there is nothing to read: consoleintr wakes the
\* readers whenever it moves cons.w.
SleepsOnlyWhenEmpty == \A p \in Reader : rpc[p] = "asleep" => r = w

\* Every write to the console gets out, though writers sleep when the ring is full
\* and echoes take the device without uart_tx_lock.
AllSent == <>[](thr = <<>> /\ uart_tx_r = uart_tx_w /\ \A p \in Writer : todo[p] = <<>>)
=============================================================================
