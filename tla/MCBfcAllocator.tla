---------------------------- MODULE MCBfcAllocator ----------------------------
(* Instances of BfcAllocator for TLC.                                         *)
EXTENDS BfcAllocator, TLC

CONSTANTS u1, u2

TwoThreads == {u1, u2}
\* 31 is rounded up to 32, which is 0 in a 5-bit size_t.
WrappingRequests == {1, 4, 5, 31}

ThreadSymmetry == Permutations(Threads)
==============================================================================
