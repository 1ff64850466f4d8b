------------------------------ MODULE MCClient ------------------------------
(* Two users of a client, a function and a lambda as callbacks.             *)
EXTENDS ClientSocket, TLC

CONSTANTS function, code
Pointer == function :> code
Alike == Permutations(Users)

=============================================================================
