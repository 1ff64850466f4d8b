------------------------ MODULE LightweightSemaphore ------------------------
(***************************************************************************)
(* moodycamel::LightweightSemaphore: a counter that goes below zero while  *)
(* threads sleep on a POSIX semaphore.  Each atomic access is a step.      *)
(* The queue signals one permit at a time and waits with waitMany and a    *)
(* positive timeout.  m_maxSpins only says how long a waiter spins, which  *)
(* the model leaves open.                                                  *)
(***************************************************************************)
EXTENDS Integers, FiniteSets

CONSTANTS
    Producers,  \* threads that signal
    Consumers,  \* threads that wait
    MaxBatch    \* the "max" of a waitMany: 10 for writeQueue, 20 for logQueue

ASSUME SemaphoreAssumption ==
    /\ IsFiniteSet(Producers) /\ IsFiniteSet(Consumers)
    /\ Producers \cap Consumers = {}
    /\ MaxBatch \in Nat \ {0}

VARIABLES
    m_count,    \* permits, or minus the threads that sleep
    m_sema,     \* the value of the POSIX semaphore
    at,         \* where each thread is in signal or waitMany
    oldCount,   \* a waiter's last load of m_count
    wanted,     \* the "max" of its waitMany
    got         \* permits it has

semaVars == <<m_count, m_sema, at, oldCount, wanted, got>>

Init ==
    /\ m_count = 0 /\ m_sema = 0
    /\ at = [t \in Producers \cup Consumers |-> "out"]
    /\ oldCount = [c \in Consumers |-> 0]
    /\ wanted = [c \in Consumers |-> 0]
    /\ got = [c \in Consumers |-> 0]

Go(t, from, to) == at[t] = from /\ at' = [at EXCEPT ![t] = to]
Load(c) == oldCount' = [oldCount EXCEPT ![c] = m_count]
Take(c, k) == got' = [got EXCEPT ![c] = @ + k]

-----------------------------------------------------------------------------
(* signal(): a thread that found the count negative owes a sleeper a post.  *)

\* Off by one: no post for the last sleeper.
Signal_Late(p) ==
    /\ Go(p, "out", IF m_count < -1 THEN "post" ELSE "out")
    /\ m_count' = m_count + 1
    /\ UNCHANGED <<m_sema, oldCount, wanted, got>>

Signal(p) ==
    /\ Go(p, "out", IF m_count < 0 THEN "post" ELSE "out")
    /\ m_count' = m_count + 1
    /\ UNCHANGED <<m_sema, oldCount, wanted, got>>

Post(p) ==
    /\ Go(p, "post", "out")
    /\ m_sema' = m_sema + 1
    /\ UNCHANGED <<m_count, oldCount, wanted, got>>

-----------------------------------------------------------------------------
(* waitMany(max, timeout).  tryWaitMany is run at its start and again, for  *)
(* max - 1, by a waiter that has slept or given up spinning.                *)

WaitMany(c, max) ==
    /\ Go(c, "out", "try")
    /\ wanted' = [wanted EXCEPT ![c] = max]
    /\ Load(c)
    /\ UNCHANGED <<m_count, m_sema, got>>

Greedy(c) == IF oldCount[c] > wanted[c] - got[c] THEN wanted[c] - got[c] ELSE oldCount[c]

\* compare_exchange on a loaded count: take what is there, or load again.
Cas(c, from, failed) ==
    \/ /\ m_count = oldCount[c]
       /\ Go(c, from, "done")
       /\ m_count' = m_count - Greedy(c)
       /\ Take(c, Greedy(c))
       /\ UNCHANGED <<m_sema, oldCount, wanted>>
    \/ /\ m_count # oldCount[c]
       /\ Go(c, from, failed)
       /\ Load(c)
       /\ UNCHANGED <<m_count, m_sema, wanted, got>>

Try_Cas(c) == oldCount[c] > 0 /\ Cas(c, "try", "try")

Try_None(c) ==
    /\ oldCount[c] <= 0
    /\ Go(c, "try", IF got[c] = 0 THEN "spin" ELSE "done")
    /\ UNCHANGED <<m_count, m_sema, oldCount, wanted, got>>

\* A turn of the spin loop that sees a permit.
Spin_Load(c) ==
    /\ m_count > 0
    /\ Go(c, "spin", "spincas")
    /\ Load(c)
    /\ UNCHANGED <<m_count, m_sema, wanted, got>>

Spin_Cas(c) == Cas(c, "spincas", "spin")

\* After the permit of the wait itself: tryWaitMany(max - 1) if max > 1.
Granted(c, from) ==
    /\ Go(c, from, IF wanted[c] > 1 THEN "more" ELSE "done")
    /\ Take(c, 1)

\* The end of spinning: fetch_sub, and sleep if there was no permit.
Spin_Sub(c) ==
    /\ m_count' = m_count - 1
    /\ IF m_count > 0
       THEN Granted(c, "spin")
       ELSE Go(c, "spin", "wait") /\ UNCHANGED got
    /\ UNCHANGED <<m_sema, oldCount, wanted>>

\* sem_timedwait gets a post that is there, or times out, maybe with a post
\* on its way.
Wait_Take(c) ==
    /\ m_sema > 0
    /\ m_sema' = m_sema - 1
    /\ Granted(c, "wait")
    /\ UNCHANGED <<m_count, oldCount, wanted>>

Wait_Timeout(c) ==
    /\ m_sema = 0
    /\ Go(c, "wait", "recover")
    /\ UNCHANGED <<m_count, m_sema, oldCount, wanted, got>>

\* A waiter that timed out takes its decrement back, unless a signal has
\* already counted it: then the post is its own and it must be taken.
Recover_Load(c) ==
    /\ Go(c, "recover", IF m_count >= 0 THEN "trywait" ELSE "undo")
    /\ Load(c)
    /\ UNCHANGED <<m_count, m_sema, wanted, got>>

\* The permit is taken for granted, without sem_trywait.
Recover_TryWait_Skipped(c) ==
    /\ Granted(c, "trywait")
    /\ UNCHANGED <<m_count, m_sema, oldCount, wanted>>

Recover_TryWait(c) ==
    /\ IF m_sema > 0
       THEN m_sema' = m_sema - 1 /\ Granted(c, "trywait")
       ELSE Go(c, "trywait", "recover") /\ UNCHANGED <<m_sema, got>>
    /\ UNCHANGED <<m_count, oldCount, wanted>>

Recover_Undo(c) ==
    /\ IF m_count = oldCount[c]
       THEN Go(c, "undo", "done") /\ m_count' = m_count + 1
       ELSE Go(c, "undo", "recover") /\ UNCHANGED m_count
    /\ UNCHANGED <<m_sema, oldCount, wanted, got>>

\* The load at the start of tryWaitMany(max - 1).
More_Load(c) ==
    /\ Go(c, "more", "try")
    /\ Load(c)
    /\ UNCHANGED <<m_count, m_sema, wanted, got>>

\* waitMany hands its permits to the caller.
Return(c) ==
    /\ Go(c, "done", "out")
    /\ oldCount' = [oldCount EXCEPT ![c] = 0]
    /\ wanted' = [wanted EXCEPT ![c] = 0]
    /\ got' = [got EXCEPT ![c] = 0]
    /\ UNCHANGED <<m_count, m_sema>>

WaitStep(c) ==
    \/ Try_Cas(c) \/ Try_None(c) \/ Spin_Load(c) \/ Spin_Cas(c) \/ Spin_Sub(c)
    \/ Wait_Take(c) \/ Wait_Timeout(c) \/ Recover_Load(c) \/ Recover_TryWait(c)
    \/ Recover_Undo(c) \/ More_Load(c)

Next ==
    \/ \E p \in Producers : Signal(p) \/ Post(p)
    \/ \E c \in Consumers :
         WaitStep(c) \/ Return(c) \/ \E max \in 1 .. MaxBatch : WaitMany(c, max)

Spec == Init /\ [][Next]_semaVars

\* availableApprox, the size_approx of the queue.
AvailableApprox == IF m_count > 0 THEN m_count ELSE 0

-----------------------------------------------------------------------------
Owed     == Cardinality({p \in Producers : at[p] = "post"})
Sleepers == {c \in Consumers : at[c] \in {"wait", "recover", "trywait", "undo"}}
Permits  == AvailableApprox + m_sema + Owed

SemaTypeOK ==
    /\ m_count \in Int /\ m_sema \in Nat
    /\ \A p \in Producers : at[p] \in {"out", "post"}
    /\ \A c \in Consumers :
         at[c] \in {"out", "try", "spin", "spincas", "wait", "recover", "trywait", "undo",
                    "more", "done"}
    /\ oldCount \in [Consumers -> Int]
    /\ wanted \in [Consumers -> 0 .. MaxBatch]
    /\ got \in [Consumers -> 0 .. MaxBatch]

\* Every thread past its fetch_sub that has no permit yet is accounted for:
\* it is still in the negative count, or a post is there or owed for it.  A
\* timed out waiter that undid a decrement it no longer owned, or a post
\* nobody takes, breaks the balance.
SleepersAccounted ==
    Cardinality(Sleepers) = m_sema + Owed + (IF m_count < 0 THEN -m_count ELSE 0)

Counting == INSTANCE CountingSemaphore WITH permits <- Permits, taken <- got

\* The semaphore implements the counting semaphore: no permit is lost when a
\* timeout races a signal, and none is handed out twice.
IsCountingSemaphore == Counting!Spec

=============================================================================
