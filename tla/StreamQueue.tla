----------------------------- MODULE StreamQueue -----------------------------
(***************************************************************************)
(* The byte queue of shared/StreamQueue.hpp, as operators on a sequence.   *)
(* Each way of dequeuing has the bytes it returns and the queue it leaves. *)
(***************************************************************************)
EXTENDS Integers, Sequences, FiniteSetsExt

CONSTANT IndexRange    \* values of the loop index of dequeueAsVec: 256

ASSUME IndexRangePositive == IndexRange \in Nat \ {0}

\* What newly grown elements of a vector hold.
Zero == 0

EnqueueMove(bytes, newBytes) == bytes \o newBytes

CountToDequeue(bytes, maxCount) == IF maxCount < Len(bytes) THEN maxCount ELSE Len(bytes)

-----------------------------------------------------------------------------
(* dequeue                                                                 *)

Dequeued(bytes, maxCount) == SubSeq(bytes, 1, CountToDequeue(bytes, maxCount))
DequeueRest(bytes, maxCount) ==
    SubSeq(bytes, CountToDequeue(bytes, maxCount) + 1, Len(bytes))

-----------------------------------------------------------------------------
(* dequeueAsVec and dequeAsMessage                                         *)

\* The loop test before the step that would pop byte number k (from 0).
VecContinues(bytes, maxCount, k) == k % IndexRange < maxCount /\ k < Len(bytes)

\* How many bytes the loop pops: it stops at the first failing test.
VecPops(bytes, maxCount) ==
    CHOOSE n \in 0..Len(bytes) :
        /\ ~VecContinues(bytes, maxCount, n)
        /\ \A k \in 0..n - 1 : VecContinues(bytes, maxCount, k)

\* newQueue[i] = front: each element holds the last byte written to it.
VecDequeued(bytes, maxCount) ==
    [j \in 1..CountToDequeue(bytes, maxCount) |->
        LET writes == {k \in 0..VecPops(bytes, maxCount) - 1 : k % IndexRange = j - 1}
        IN  IF writes = {} THEN Zero ELSE bytes[Max(writes) + 1]]

\* The index gets back to 0 while the loop still has bytes to pop.
Wraps(bytes, maxCount) == maxCount >= IndexRange /\ Len(bytes) > IndexRange

VecRest(bytes, maxCount) == SubSeq(bytes, VecPops(bytes, maxCount) + 1, Len(bytes))

=============================================================================
