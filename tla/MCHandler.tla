------------------------------ MODULE MCHandler ------------------------------
(* A small instance of SocketHandler with its Logger for TLC.              *)
EXTENDS HandlerLogging, TLC

\* Callers and socket objects are interchangeable.
Symmetry == Permutations(Callers) \cup Permutations(Sockets)
=============================================================================
