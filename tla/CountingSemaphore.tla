-------------------------- MODULE CountingSemaphore --------------------------
(***************************************************************************)
(* What LightweightSemaphore promises: permits are neither lost nor made   *)
(* up.  A release adds one, a waiter takes some of those there are.        *)
(***************************************************************************)
EXTENDS Naturals

CONSTANT Consumers

VARIABLES
    permits,  \* permits nobody has taken
    taken     \* permits each waiter has taken in its current wait

Init == permits = 0 /\ taken = [c \in Consumers |-> 0]

Release == permits' = permits + 1 /\ UNCHANGED taken

Acquire(c) ==
    \E k \in 1 .. permits :
        /\ permits' = permits - k
        /\ taken' = [taken EXCEPT ![c] = @ + k]

Return(c) == taken' = [taken EXCEPT ![c] = 0] /\ UNCHANGED permits

Next == Release \/ \E c \in Consumers : Acquire(c) \/ Return(c)

Spec == Init /\ [][Next]_<<permits, taken>>

=============================================================================
