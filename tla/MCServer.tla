------------------------------ MODULE MCServer ------------------------------
(***************************************************************************)
(* TLC instances of ServerSocket.                                          *)
(***************************************************************************)
EXTENDS ServerSocket, TLC

Symmetry == Permutations(Channels) \cup Permutations(Fds)
              \cup Permutations(Workers) \cup Permutations(Users)

=============================================================================
