--------------------------- MODULE CowRefinement ---------------------------
(***************************************************************************)
(* CowMemory implements PrivateMemory: the memory that each program sees,  *)
(* as a function of the page tables and the physical pages.                *)
(***************************************************************************)
EXTENDS CowMemory

Private == INSTANCE PrivateMemory WITH
             mem <- Mem,
             Content <- Val \cup KVal, Absent <- NoFrame,
             FirstPage <- InitCode, Fresh <- Zero,
             Program <- [v \in VA |-> IF v < Len(Image) THEN Image[v + 1].content ELSE NoFrame]

\* Copy-on-write is invisible: shared frames, reference counts and faults
\* together behave as if fork copied the whole memory at once (uvmcopy's
\* comment: "copy its memory into a child's page table").
ImplementsPrivateMemory == Private!Spec

\* The same with the exception that the code has, copyout's store through a mapping without
\* W: to a page that custom_cow could not copy, or to a read-only page that fork shares.
PrivateExceptCopyout ==
  Private!Init /\ [][Private!Next \/ \E p \in Proc : UncheckedCopyout(p)]_Mem
=============================================================================
