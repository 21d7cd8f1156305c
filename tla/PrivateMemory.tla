--------------------------- MODULE PrivateMemory ---------------------------
(***************************************************************************)
(* What fork, sbrk, exec and exit promise a user program: every process    *)
(* has a memory of its own.  A store changes one page of one process, fork *)
(* gives the child a copy, and nothing a process does is seen by another.  *)
(***************************************************************************)
EXTENDS Integers

CONSTANTS Proc, InitProc,
          NV,          \* pages 0 .. NV-1
          Content,     \* what a page may hold
          Absent,      \* the contents of a page outside the process size
          FirstPage,   \* the initial page of InitProc
          Fresh,       \* the contents of a page that sbrk has added
          Program      \* the memory of a process after exec

VARIABLE mem

Page == 0 .. NV - 1

Nothing == [v \in Page |-> Absent]

Init == mem = [p \in Proc |-> IF p = InitProc
                              THEN [v \in Page |-> IF v = 0 THEN FirstPage ELSE Absent]
                              ELSE Nothing]

Store(p, v, x) ==
  /\ mem[p][v] # Absent
  /\ mem' = [mem EXCEPT ![p] = [@ EXCEPT ![v] = x]]

\* Every page outside the process becomes a fresh one, up to page n.
Grow(p, n) ==
  mem' = [mem EXCEPT ![p] =
            [v \in Page |-> IF mem[p][v] = Absent /\ v < n THEN Fresh ELSE mem[p][v]]]

Shrink(p, n) ==
  mem' = [mem EXCEPT ![p] = [v \in Page |-> IF v < n THEN mem[p][v] ELSE Absent]]

Exec(p) == mem' = [mem EXCEPT ![p] = Program]

Fork(p, c) == /\ mem[c] = Nothing
              /\ mem' = [mem EXCEPT ![c] = mem[p]]

Exit(p) == mem' = [mem EXCEPT ![p] = Nothing]

Next == \E p \in Proc :
          \/ \E v \in Page, x \in Content : Store(p, v, x)
          \/ \E n \in 0 .. NV : Grow(p, n) \/ Shrink(p, n)
          \/ Exec(p) \/ Exit(p)
          \/ \E c \in Proc : Fork(p, c)

Spec == Init /\ [][Next]_mem
=============================================================================
