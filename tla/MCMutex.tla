------------------------------ MODULE MCMutex ------------------------------
(***************************************************************************)
(* TLC instance of ExclusivePrioritySharedMutex.                           *)
(***************************************************************************)
EXTENDS ExclusivePrioritySharedMutex

=============================================================================
