----------------------------- MODULE MCBufCache -----------------------------
EXTENDS BufCache, TLC
Symm == Permutations(Thread)
=============================================================================
