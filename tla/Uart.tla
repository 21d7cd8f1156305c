-------------------------------- MODULE Uart --------------------------------
(***************************************************************************)
(* The driver of the serial port, kernel/uart.c, and the device.  Writers  *)
(* put characters into a ring; uartstart hands them to the device, called  *)
(* by a writer or by the interrupt that says that the device is idle.  An  *)
(* echo is written to the device without uart_tx_lock.                     *)
(***************************************************************************)
EXTENDS Integers, Sequences

CONSTANTS Writer,            \* processes in consolewrite
          Loads,             \* [text |-> what each of them writes, keys |-> how many are typed]
          UART_TX_BUF_SIZE,
          RxFifo             \* characters that the device holds for the kernel

ASSUME UartAssumption == UART_TX_BUF_SIZE \in Nat \ {0} /\ RxFifo \in Nat

VARIABLES uart_tx_buf, uart_tx_w, uart_tx_r,
          thr, rx, irq, keys,    \* the device: characters to send, that came in, still to come
          todo, waiting          \* writers: what is left to write, who sleeps in uartputc

device == <<thr, rx, irq, keys>>
ring == <<uart_tx_buf, uart_tx_w, uart_tx_r>>
writers == <<todo, waiting>>
uartVars == <<ring, device, writers>>

\* What consputc writes; the three characters of an erasure count as one.
Echo == "echo"
Slot(i) == i % UART_TX_BUF_SIZE

UartInit ==
  /\ uart_tx_buf = [i \in 0 .. UART_TX_BUF_SIZE - 1 |-> Echo] /\ uart_tx_w = 0 /\ uart_tx_r = 0
  /\ thr = <<>> /\ rx = <<>> /\ irq = FALSE
  /\ \E l \in Loads : todo = l.text /\ keys = l.keys
  /\ waiting = {}

\* The device sends a character; it interrupts when it can take another one.
Send ==
  /\ thr # <<>>
  /\ thr' = Tail(thr)
  /\ irq' = (irq \/ Tail(thr) = <<>>)
  /\ UNCHANGED <<rx, keys, ring, writers>>

\* A character is typed; the device has no room for more than RxFifo.
Arrive(c) ==
  /\ keys > 0 /\ Len(rx) < RxFifo
  /\ rx' = Append(rx, c)
  /\ irq' = TRUE
  /\ keys' = keys - 1
  /\ UNCHANGED <<thr, ring, writers>>

\* LSR_TX_IDLE
Idle == thr = <<>>

\* Variant: the writers that wait for space are not woken.
uartstart_NoWake(b, w, r) ==
  /\ IF w # r /\ Idle
     THEN /\ thr' = <<b[Slot(r)]>> /\ uart_tx_r' = r + 1
     ELSE UNCHANGED thr /\ uart_tx_r' = r
  /\ UNCHANGED waiting

\* uartstart on the ring that b, w and r describe, under uart_tx_lock: one character
\* fills the device.
uartstart(b, w, r) ==
  IF w # r /\ Idle
  THEN thr' = <<b[Slot(r)]>> /\ uart_tx_r' = r + 1 /\ waiting' = {}
  ELSE UNCHANGED <<thr, waiting>> /\ uart_tx_r' = r

\* The next character of consolewrite: sleep while the ring is full.
uartputc(p) ==
  /\ todo[p] # <<>> /\ p \notin waiting
  /\ IF uart_tx_w = uart_tx_r + UART_TX_BUF_SIZE
     THEN waiting' = waiting \cup {p} /\ UNCHANGED <<ring, thr, todo>>
     ELSE LET b == [uart_tx_buf EXCEPT ![Slot(uart_tx_w)] = Head(todo[p])]
          IN /\ uart_tx_buf' = b
             /\ uart_tx_w' = uart_tx_w + 1
             /\ todo' = [todo EXCEPT ![p] = Tail(@)]
             /\ uartstart(b, uart_tx_w + 1, uart_tx_r)
  /\ UNCHANGED <<rx, irq, keys>>
=============================================================================
