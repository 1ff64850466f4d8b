----------------------------- MODULE MCChannel -----------------------------
(***************************************************************************)
(* TLC instances of Channel.                                               *)
(***************************************************************************)
EXTENDS Channel, TLC

Symmetry == Permutations(ReadWorkers) \cup Permutations(WriteWorkers)

=============================================================================
