-------------------- MODULE ExclusivePrioritySharedMutex --------------------
(***************************************************************************)
(* The lock of shared/ExclusiveSharedMutex.h, which guards the client map  *)
(* of a ServerSocket.  Every access to one of its atomic counters is a     *)
(* step of its own, with two reductions.  Taking mutex_ is merged with the *)
(* first access made under it and releasing mutex_ with the last one; a    *)
(* critical section that touches only what mutex_ protects (exclusiveCount *)
(* and the wait sets) is one step.  A predicate of a condition variable    *)
(* reads one counter that changes outside mutex_ and exclusiveCount, which *)
(* does not, so it is evaluated at the instant of the first read.          *)
(*                                                                         *)
(* A thread waiting on a condition variable is a thread at that pc.        *)
(***************************************************************************)
EXTENDS Integers, FiniteSets

CONSTANTS Threads,    \* the threads that use the lock
          NoThread    \* mutex_ when nobody holds it

ASSUME ThreadsFinite == IsFiniteSet(Threads)
ASSUME NoThreadOutside == NoThread \notin Threads

VARIABLES sharedCount,         \* threads holding shared access
          exclusiveRequests,   \* threads requesting exclusive access
          exclusiveWaiting,    \* never written by the code
          exclusiveCount,      \* threads holding exclusive access
          mutex,               \* holder of mutex_
          pc                   \* where each thread is

counters == <<sharedCount, exclusiveRequests, exclusiveWaiting, exclusiveCount>>
vars == <<sharedCount, exclusiveRequests, exclusiveWaiting, exclusiveCount, mutex, pc>>

SharedPcs == {"sharedFast", "sharedSlow"}
PcValues == SharedPcs \cup
    {"idle", "fastAdd", "slowShared", "sharedCv", "slowAdd", "lastOut",
     "slowExclusive", "exclusiveCv", "withdraw", "take", "exclusive"}

At(p) == {t \in Threads : pc[t] = p}
SharedHolders == {t \in Threads : pc[t] \in SharedPcs}
Requesters == {t \in Threads : pc[t] \in {"slowExclusive", "exclusiveCv", "withdraw"}}

Init ==
    /\ sharedCount = 0
    /\ exclusiveRequests = 0
    /\ exclusiveWaiting = 0
    /\ exclusiveCount = 0
    /\ mutex = NoThread
    /\ pc = [t \in Threads |-> "idle"]

Goto(t, from, to) == pc[t] = from /\ pc' = [pc EXCEPT ![t] = to]

-----------------------------------------------------------------------------
(* Condition variables.                                                    *)

Resume(p) == IF p = "sharedCv" THEN "slowShared" ELSE "slowExclusive"

\* notify_one on cv while the thread's own move is already in to.
NotifyOne(cv, to) ==
    IF cv = {} THEN pc' = to
    ELSE \E w \in cv : pc' = [to EXCEPT ![w] = Resume(pc[w])]

\* The choice between the two condition variables at the end of unlock_shared
\* and of unlock.
CvToNotify == IF exclusiveWaiting > 0 THEN At("exclusiveCv") ELSE At("sharedCv")

\* The standard allows a wait to return without a notification.
SpuriousWakeup(t) ==
    /\ pc[t] \in {"sharedCv", "exclusiveCv"}
    /\ pc' = [pc EXCEPT ![t] = Resume(pc[t])]
    /\ UNCHANGED <<counters, mutex>>

-----------------------------------------------------------------------------
(* lock_shared                                                             *)

LockShared_Load(t) ==
    /\ Goto(t, "idle", IF exclusiveRequests = 0 THEN "fastAdd" ELSE "slowShared")
    /\ UNCHANGED <<counters, mutex>>

LockShared_FastAdd(t) ==
    /\ Goto(t, "fastAdd", IF sharedCount >= 0 THEN "sharedFast" ELSE "slowShared")
    /\ sharedCount' = sharedCount + 1
    /\ UNCHANGED <<exclusiveRequests, exclusiveWaiting, exclusiveCount, mutex>>

SharedPredicate_NoCount == exclusiveRequests = 0

SharedPredicate == exclusiveRequests = 0 /\ exclusiveCount = 0

LockShared_Wait(t) ==
    /\ mutex = NoThread
    /\ IF SharedPredicate
       THEN Goto(t, "slowShared", "slowAdd") /\ mutex' = t
       ELSE Goto(t, "slowShared", "sharedCv") /\ UNCHANGED mutex
    /\ UNCHANGED counters

LockShared_SlowAdd(t) ==
    /\ Goto(t, "slowAdd", "sharedSlow")
    /\ sharedCount' = sharedCount + 1
    /\ mutex' = NoThread
    /\ UNCHANGED <<exclusiveRequests, exclusiveWaiting, exclusiveCount>>

-----------------------------------------------------------------------------
(* unlock_shared                                                           *)

UnlockShared_Sub(t) ==
    /\ pc[t] \in SharedPcs
    /\ pc' = [pc EXCEPT ![t] = IF sharedCount = 1 THEN "lastOut" ELSE "idle"]
    /\ sharedCount' = sharedCount - 1
    /\ UNCHANGED <<exclusiveRequests, exclusiveWaiting, exclusiveCount, mutex>>

UnlockShared_Notify_Skipped(t) ==
    /\ mutex = NoThread
    /\ Goto(t, "lastOut", "idle")
    /\ UNCHANGED <<counters, mutex>>

UnlockShared_Notify(t) ==
    /\ mutex = NoThread
    /\ pc[t] = "lastOut"
    /\ NotifyOne(CvToNotify, [pc EXCEPT ![t] = "idle"])
    /\ UNCHANGED <<counters, mutex>>

-----------------------------------------------------------------------------
(* lock                                                                    *)

Lock_Request(t) ==
    /\ Goto(t, "idle", "slowExclusive")
    /\ exclusiveRequests' = exclusiveRequests + 1
    /\ UNCHANGED <<sharedCount, exclusiveWaiting, exclusiveCount, mutex>>

ExclusivePredicate_NoShared == exclusiveCount = 0
ExclusivePredicate_NoCount == sharedCount = 0

ExclusivePredicate == sharedCount = 0 /\ exclusiveCount = 0

Lock_Wait(t) ==
    /\ mutex = NoThread
    /\ IF ExclusivePredicate
       THEN Goto(t, "slowExclusive", "withdraw") /\ mutex' = t
       ELSE Goto(t, "slowExclusive", "exclusiveCv") /\ UNCHANGED mutex
    /\ UNCHANGED counters

Lock_Withdraw_Kept(t) ==
    /\ Goto(t, "withdraw", "take")
    /\ UNCHANGED <<counters, mutex>>

Lock_Withdraw(t) ==
    /\ Goto(t, "withdraw", "take")
    /\ exclusiveRequests' = exclusiveRequests - 1
    /\ UNCHANGED <<sharedCount, exclusiveWaiting, exclusiveCount, mutex>>

Lock_Take(t) ==
    /\ Goto(t, "take", "exclusive")
    /\ exclusiveCount' = exclusiveCount + 1
    /\ mutex' = NoThread
    /\ UNCHANGED <<sharedCount, exclusiveRequests, exclusiveWaiting>>

-----------------------------------------------------------------------------
(* unlock                                                                  *)

Unlock(t) ==
    /\ mutex = NoThread
    /\ pc[t] = "exclusive"
    /\ exclusiveCount' = exclusiveCount - 1
    /\ NotifyOne(CvToNotify, [pc EXCEPT ![t] = "idle"])
    /\ UNCHANGED <<sharedCount, exclusiveRequests, exclusiveWaiting, mutex>>

-----------------------------------------------------------------------------
\* Steps that begin an operation; the caller decides whether they happen.
Call(t) == LockShared_Load(t) \/ Lock_Request(t)

\* Steps that carry an operation on.  A holder releases what it holds.
Proceed(t) ==
    \/ LockShared_FastAdd(t)
    \/ LockShared_Wait(t)
    \/ LockShared_SlowAdd(t)
    \/ UnlockShared_Sub(t)
    \/ UnlockShared_Notify(t)
    \/ Lock_Wait(t)
    \/ Lock_Withdraw(t)
    \/ Lock_Take(t)
    \/ Unlock(t)

Next == \E t \in Threads : Call(t) \/ Proceed(t) \/ SpuriousWakeup(t)

Spec == Init /\ [][Next]_vars

\* Threads inside the lock keep running and holders release what they hold.
\* Nothing obliges a wait to return spuriously, and nobody has to call again.
FairSpec == Spec /\ \A t \in Threads : WF_vars(Proceed(t))

-----------------------------------------------------------------------------
\* Every variable has its type.
TypeOK ==
    /\ sharedCount \in Nat
    /\ exclusiveRequests \in Nat
    /\ exclusiveWaiting = 0
    /\ exclusiveCount \in Nat
    /\ mutex \in Threads \cup {NoThread}
    /\ pc \in [Threads -> PcValues]

\* The counters say how many threads hold or request access, whatever the
\* interleaving of fetch_add and fetch_sub (the predicates of lock and
\* lock_shared, and the last-reader test of unlock_shared, rely on it).
CountersExact ==
    /\ sharedCount = Cardinality(SharedHolders)
    /\ exclusiveRequests = Cardinality(Requesters)
    /\ exclusiveCount = Cardinality(At("exclusive"))

\* lock() admits one thread at a time: two threads never both modify the
\* client map under their unique_lock.
OneWriter == \A t, u \in Threads :
    pc[t] = "exclusive" /\ pc[u] = "exclusive" => t = u

\* A reader admitted by the slow path of lock_shared never overlaps a writer.
SlowReadersExcludeWriter == At("sharedSlow") = {} \/ At("exclusive") = {}

\* Seen through the readers of the slow path only, the class implements the
\* readers-writer lock its users expect.
SlowPath == INSTANCE ReadersWriterLock
    WITH readers <- At("sharedSlow"), writers <- At("exclusive")
SlowPathIsReadersWriterLock == SlowPath!LockSpec

\* When the predicate of lock() lets a writer through, nobody is inside.
WriterFindsLockEmpty ==
    [][\A t \in Threads : pc[t] = "slowExclusive" /\ pc'[t] = "withdraw"
          => SharedHolders = {} /\ At("exclusive") = {}]_vars

\* If callers stop calling, every operation completes, unless some writer was
\* parked on exclusiveCv_ (which nothing signals) and stays there.
StuckOnlyBehindParkedWriter ==
    <>[][\A t \in Threads : ~Call(t)]_vars
       => \/ <>[](\A t \in Threads : pc[t] = "idle")
          \/ <>[](At("exclusiveCv") # {})

\* exclusiveCv_ is "for signaling exclusive access": no writer sleeps on it for
\* ever while nobody holds the lock.
WaitingWriterIsSignalled == \A t \in Threads :
    []<>~(pc[t] = "exclusiveCv" /\ SharedHolders = {} /\ At("exclusive") = {})

=============================================================================
