---------------------------- MODULE MCCowMemory ----------------------------
(* Instances of CowMemory for TLC. *)
EXTENDS CowRefinement, TLC

\* A program of one read-only text page and one writable stack page.
TextStack == <<[flags |-> {"U"}, content |-> "text"],
               [flags |-> {"W", "U"}, content |-> "args"]>>
\* The text page alone: fork shares it and nothing ever makes it COW.
TextOnly == <<[flags |-> {"U"}, content |-> "text"]>>
FrameSymmetry == Permutations(Frame)
=============================================================================
