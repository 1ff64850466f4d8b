----------------------------- MODULE MCFreeList -----------------------------
(* Three threads and three blocks; all are alike.                           *)
EXTENDS FreeList, TLC

Alike == Permutations(Threads) \cup Permutations(Nodes)

=============================================================================
