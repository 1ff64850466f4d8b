----------------- MODULE ExclusivePrioritySharedMutexProofs -----------------
(***************************************************************************)
(* Safety of the lock, for any finite set of threads.                      *)
(*                                                                         *)
(* Neither OneWriter nor SlowReadersExcludeWriter is inductive: between    *)
(* the moment its predicate succeeds and the moment it is counted, a       *)
(* thread is protected by mutex_ and by nothing else.  Protected records   *)
(* what such a thread knows, Holds who has mutex_, and CountersExact makes *)
(* a counter that reads 0 mean that nobody is inside.                      *)
(***************************************************************************)
EXTENDS ExclusivePrioritySharedMutex, FiniteSetTheorems, TLAPS

Holds == \A t \in Threads : mutex = t <=> pc[t] \in {"slowAdd", "withdraw", "take"}

Protected == \A t \in Threads :
    /\ pc[t] \in {"slowAdd", "withdraw", "take"} => At("exclusive") = {}
    /\ pc[t] \in {"withdraw", "take"} => At("sharedSlow") = {}

IInv ==
    /\ TypeOK
    /\ CountersExact
    /\ Holds
    /\ Protected
    /\ OneWriter
    /\ SlowReadersExcludeWriter

-----------------------------------------------------------------------------
\* The sets the counters count are finite.
LEMMA HoldersFinite ==
    /\ IsFiniteSet(SharedHolders)
    /\ IsFiniteSet(Requesters)
    /\ IsFiniteSet(At("exclusive"))
<1>1. /\ SharedHolders \in SUBSET Threads
      /\ Requesters \in SUBSET Threads
      /\ At("exclusive") \in SUBSET Threads
  BY DEF SharedHolders, Requesters, At
<1>2. QED
  BY <1>1, ThreadsFinite, FS_Subset

\* Counting a thread in, or out, by fetch_add and fetch_sub keeps a counter
\* equal to the cardinality of the set it counts.
LEMMA CountIn ==
    ASSUME NEW S, IsFiniteSet(S), NEW x, x \notin S, NEW n, n = Cardinality(S)
    PROVE  n + 1 = Cardinality(S \cup {x})
BY FS_AddElement

LEMMA CountOut ==
    ASSUME NEW S, IsFiniteSet(S), NEW x, x \in S, NEW n, n = Cardinality(S)
    PROVE  n - 1 = Cardinality(S \ {x})
BY FS_RemoveElement

\* notify_one moves the notifying thread to idle and at most one other thread,
\* from a wait to the entry of the slow path it was waiting in.
LEMMA NotifyEffect ==
    ASSUME TypeOK, NEW t \in Threads, pc[t] \notin {"sharedCv", "exclusiveCv"},
           NotifyOne(CvToNotify, [pc EXCEPT ![t] = "idle"])
    PROVE  /\ pc' \in [Threads -> PcValues]
           /\ pc'[t] = "idle"
           /\ \A u \in Threads \ {t} :
                \/ pc'[u] = pc[u]
                \/ pc[u] = "sharedCv" /\ pc'[u] = "slowShared"
                \/ pc[u] = "exclusiveCv" /\ pc'[u] = "slowExclusive"
<1> DEFINE to == [pc EXCEPT ![t] = "idle"]
<1>1. to \in [Threads -> PcValues] /\ to[t] = "idle" /\ \A u \in Threads \ {t} : to[u] = pc[u]
  BY DEF TypeOK, PcValues
<1>2. CASE CvToNotify = {}
  BY <1>1, <1>2 DEF NotifyOne
<1>3. CASE CvToNotify # {}
  <2>1. PICK w \in CvToNotify : pc' = [to EXCEPT ![w] = Resume(pc[w])]
    BY <1>3 DEF NotifyOne
  <2>2. w \in Threads /\ pc[w] \in {"sharedCv", "exclusiveCv"}
    BY DEF CvToNotify, At
  <2>3. w # t
    BY <2>2
  <2> HIDE DEF to
  <2>4. QED
    BY <1>1, <2>1, <2>2, <2>3 DEF Resume, PcValues
<1>4. QED
  BY <1>2, <1>3

\* Initially nobody is inside.
LEMMA InitIInv == Init => IInv
<1> SUFFICES ASSUME Init PROVE IInv
  OBVIOUS
<1>1. TypeOK
  BY DEF Init, TypeOK, PcValues
<1>2. /\ SharedHolders = {} /\ Requesters = {} /\ At("exclusive") = {}
      /\ At("sharedSlow") = {}
  BY DEF Init, SharedHolders, Requesters, At, SharedPcs
<1>3. CountersExact
  BY <1>2, FS_EmptySet DEF Init, CountersExact
<1>4. Holds
  BY NoThreadOutside DEF Init, Holds
<1>5. Protected /\ OneWriter /\ SlowReadersExcludeWriter
  BY <1>2 DEF Init, Protected, OneWriter, SlowReadersExcludeWriter
<1>6. QED
  BY <1>1, <1>3, <1>4, <1>5 DEF IInv

\* Once the counters are exact, a counter that reads 0 means an empty set.
LEMMA ZeroMeansEmpty ==
    ASSUME CountersExact
    PROVE  /\ sharedCount = 0 => SharedHolders = {}
           /\ exclusiveCount = 0 => At("exclusive") = {}
BY HoldersFinite, FS_EmptySet DEF CountersExact

\* Every step of a thread keeps the counters exact.
LEMMA CountersStep ==
    ASSUME TypeOK, CountersExact, NEW t \in Threads,
           Call(t) \/ Proceed(t) \/ SpuriousWakeup(t)
    PROVE  CountersExact'
<1> USE DEF TypeOK, SharedHolders, Requesters, At, SharedPcs
<1> DEFINE Excl == At("exclusive")
<1>0. /\ sharedCount = Cardinality(SharedHolders)
      /\ exclusiveRequests = Cardinality(Requesters)
      /\ exclusiveCount = Cardinality(Excl)
  BY DEF CountersExact
<1>a. SUFFICES /\ sharedCount' = Cardinality(SharedHolders')
               /\ exclusiveRequests' = Cardinality(Requesters')
               /\ exclusiveCount' = Cardinality(Excl')
  BY DEF CountersExact
<1>1. CASE \/ LockShared_Load(t) \/ LockShared_Wait(t) \/ SpuriousWakeup(t)
           \/ Lock_Wait(t)
  <2>1. SharedHolders' = SharedHolders /\ Requesters' = Requesters /\ Excl' = Excl
    BY <1>1 DEF LockShared_Load, LockShared_Wait, SpuriousWakeup, Lock_Wait, Goto, Resume
  <2>2. UNCHANGED counters
    BY <1>1 DEF LockShared_Load, LockShared_Wait, SpuriousWakeup, Lock_Wait
  <2>3. QED
    BY <1>0, <2>1, <2>2 DEF counters
<1>2. CASE LockShared_FastAdd(t) \/ LockShared_SlowAdd(t)
  <2>1. /\ sharedCount' = sharedCount + 1
        /\ UNCHANGED <<exclusiveRequests, exclusiveCount>>
    BY <1>2 DEF LockShared_FastAdd, LockShared_SlowAdd
  <2>2. /\ SharedHolders' = SharedHolders \cup {t} /\ t \notin SharedHolders
        /\ Requesters' = Requesters /\ Excl' = Excl
    BY <1>2 DEF LockShared_FastAdd, LockShared_SlowAdd, Goto
  <2> HIDE DEF SharedHolders, Requesters, Excl
  <2>3. sharedCount + 1 = Cardinality(SharedHolders \cup {t})
    BY <1>0, <2>2, HoldersFinite, CountIn
  <2>4. QED
    BY <1>0, <2>1, <2>2, <2>3
<1>3. CASE UnlockShared_Sub(t)
  <2>1. /\ sharedCount' = sharedCount - 1
        /\ UNCHANGED <<exclusiveRequests, exclusiveCount>>
    BY <1>3 DEF UnlockShared_Sub
  <2>2. /\ SharedHolders' = SharedHolders \ {t} /\ t \in SharedHolders
        /\ Requesters' = Requesters /\ Excl' = Excl
    BY <1>3 DEF UnlockShared_Sub
  <2> HIDE DEF SharedHolders, Requesters, Excl
  <2>3. sharedCount - 1 = Cardinality(SharedHolders \ {t})
    BY <1>0, <2>2, HoldersFinite, CountOut
  <2>4. QED
    BY <1>0, <2>1, <2>2, <2>3
<1>4. CASE UnlockShared_Notify(t)
  <2>1. /\ pc' \in [Threads -> PcValues]
        /\ pc'[t] = "idle"
        /\ \A u \in Threads \ {t} :
             \/ pc'[u] = pc[u]
             \/ pc[u] = "sharedCv" /\ pc'[u] = "slowShared"
             \/ pc[u] = "exclusiveCv" /\ pc'[u] = "slowExclusive"
    BY <1>4, NotifyEffect DEF UnlockShared_Notify
  <2>2. SharedHolders' = SharedHolders /\ Requesters' = Requesters /\ Excl' = Excl
    BY <1>4, <2>1 DEF UnlockShared_Notify
  <2>3. QED
    BY <1>0, <1>4, <2>2 DEF UnlockShared_Notify, counters
<1>5. CASE Lock_Request(t)
  <2>1. /\ exclusiveRequests' = exclusiveRequests + 1
        /\ UNCHANGED <<sharedCount, exclusiveCount>>
    BY <1>5 DEF Lock_Request
  <2>2. /\ Requesters' = Requesters \cup {t} /\ t \notin Requesters
        /\ SharedHolders' = SharedHolders /\ Excl' = Excl
    BY <1>5 DEF Lock_Request, Goto
  <2> HIDE DEF SharedHolders, Requesters, Excl
  <2>3. exclusiveRequests + 1 = Cardinality(Requesters \cup {t})
    BY <1>0, <2>2, HoldersFinite, CountIn
  <2>4. QED
    BY <1>0, <2>1, <2>2, <2>3
<1>6. CASE Lock_Withdraw(t)
  <2>1. /\ exclusiveRequests' = exclusiveRequests - 1
        /\ UNCHANGED <<sharedCount, exclusiveCount>>
    BY <1>6 DEF Lock_Withdraw
  <2>2. /\ Requesters' = Requesters \ {t} /\ t \in Requesters
        /\ SharedHolders' = SharedHolders /\ Excl' = Excl
    BY <1>6 DEF Lock_Withdraw, Goto
  <2> HIDE DEF SharedHolders, Requesters, Excl
  <2>3. exclusiveRequests - 1 = Cardinality(Requesters \ {t})
    BY <1>0, <2>2, HoldersFinite, CountOut
  <2>4. QED
    BY <1>0, <2>1, <2>2, <2>3
<1>7. CASE Lock_Take(t)
  <2>1. /\ exclusiveCount' = exclusiveCount + 1
        /\ UNCHANGED <<sharedCount, exclusiveRequests>>
    BY <1>7 DEF Lock_Take
  <2>2. /\ Excl' = Excl \cup {t} /\ t \notin Excl
        /\ SharedHolders' = SharedHolders /\ Requesters' = Requesters
    BY <1>7 DEF Lock_Take, Goto
  <2>3. exclusiveCount + 1 = Cardinality(Excl \cup {t})
    <3> HIDE DEF Excl
    <3>1. IsFiniteSet(Excl)
      BY HoldersFinite DEF Excl
    <3>2. QED
      BY <1>0, <2>2, <3>1, CountIn
  <2> HIDE DEF SharedHolders, Requesters, Excl
  <2>4. QED
    BY <1>0, <2>1, <2>2, <2>3
<1>8. CASE Unlock(t)
  <2>1. /\ exclusiveCount' = exclusiveCount - 1
        /\ UNCHANGED <<sharedCount, exclusiveRequests>>
    BY <1>8 DEF Unlock
  <2>2. /\ pc[t] = "exclusive"
        /\ pc' \in [Threads -> PcValues]
        /\ pc'[t] = "idle"
        /\ \A u \in Threads \ {t} :
             \/ pc'[u] = pc[u]
             \/ pc[u] = "sharedCv" /\ pc'[u] = "slowShared"
             \/ pc[u] = "exclusiveCv" /\ pc'[u] = "slowExclusive"
    BY <1>8, NotifyEffect DEF Unlock
  <2>3. /\ Excl' = Excl \ {t} /\ t \in Excl
        /\ SharedHolders' = SharedHolders /\ Requesters' = Requesters
    BY <2>2
  <2>4. exclusiveCount - 1 = Cardinality(Excl \ {t})
    <3>1. IsFiniteSet(Excl)
      BY HoldersFinite DEF Excl
    <3> HIDE DEF Excl
    <3>2. QED
      BY <1>0, <2>3, <3>1, CountOut
  <2> HIDE DEF SharedHolders, Requesters, Excl
  <2>5. QED
    BY <1>0, <2>1, <2>3, <2>4
<1>9. QED
  BY <1>1, <1>2, <1>3, <1>4, <1>5, <1>6, <1>7, <1>8 DEF Call, Proceed

\* The step of one thread, told by its effect on pc: the thread itself moves
\* along one of the edges below, and a thread that is not itself moving only
\* leaves a wait.
LEMMA OthersOnlyWake ==
    ASSUME TypeOK, NEW t \in Threads,
           Call(t) \/ Proceed(t) \/ SpuriousWakeup(t)
    PROVE  /\ pc' \in [Threads -> PcValues]
           /\ \A u \in Threads \ {t} :
                \/ pc'[u] = pc[u]
                \/ pc[u] = "sharedCv" /\ pc'[u] = "slowShared"
                \/ pc[u] = "exclusiveCv" /\ pc'[u] = "slowExclusive"
<1>1. CASE UnlockShared_Notify(t) \/ Unlock(t)
  BY <1>1, NotifyEffect DEF UnlockShared_Notify, Unlock
<1>2. CASE Call(t) \/ SpuriousWakeup(t)
  BY <1>2 DEF Call, LockShared_Load, Lock_Request, SpuriousWakeup, Goto, Resume,
              TypeOK, PcValues, SharedPcs
<1>3. CASE \/ LockShared_FastAdd(t) \/ LockShared_Wait(t) \/ LockShared_SlowAdd(t)
           \/ UnlockShared_Sub(t) \/ Lock_Wait(t) \/ Lock_Withdraw(t) \/ Lock_Take(t)
  BY <1>3 DEF LockShared_FastAdd, LockShared_Wait, LockShared_SlowAdd,
              UnlockShared_Sub, Lock_Wait, Lock_Withdraw, Lock_Take, Goto,
              TypeOK, PcValues, SharedPcs
<1>4. QED
  BY <1>1, <1>2, <1>3 DEF Proceed

\* Every step of a thread keeps the types.
LEMMA TypeStep ==
    ASSUME TypeOK, CountersExact, NEW t \in Threads,
           Call(t) \/ Proceed(t) \/ SpuriousWakeup(t)
    PROVE  TypeOK'
<1>1. pc' \in [Threads -> PcValues]
  BY OthersOnlyWake
<1>2. CountersExact'
  BY CountersStep
<1>3. /\ IsFiniteSet(SharedHolders') /\ IsFiniteSet(Requesters')
      /\ IsFiniteSet(At("exclusive")')
  <2>1. /\ SharedHolders' \in SUBSET Threads
        /\ Requesters' \in SUBSET Threads
        /\ At("exclusive")' \in SUBSET Threads
    BY DEF SharedHolders, Requesters, At
  <2>2. QED
    BY <2>1, ThreadsFinite, FS_Subset
<1>4. sharedCount' \in Nat /\ exclusiveRequests' \in Nat /\ exclusiveCount' \in Nat
  BY <1>2, <1>3, FS_CardinalityType DEF CountersExact
<1>5. exclusiveWaiting' = 0 /\ mutex' \in Threads \cup {NoThread}
  BY DEF TypeOK, Call, Proceed, LockShared_Load, Lock_Request, SpuriousWakeup,
         LockShared_FastAdd, LockShared_Wait, LockShared_SlowAdd, UnlockShared_Sub,
         UnlockShared_Notify, Lock_Wait, Lock_Withdraw, Lock_Take, Unlock, counters
<1>6. QED
  BY <1>1, <1>4, <1>5 DEF TypeOK

\* Every step of a thread keeps who holds mutex_, what its holder relies on,
\* and the two exclusion properties.
LEMMA ExclusionStep ==
    ASSUME IInv, NEW t \in Threads,
           Call(t) \/ Proceed(t) \/ SpuriousWakeup(t)
    PROVE  Holds' /\ Protected' /\ OneWriter' /\ SlowReadersExcludeWriter'
<1> DEFINE Holding == {"slowAdd", "withdraw", "take"}
<1> DEFINE Goal == Holds' /\ Protected' /\ OneWriter' /\ SlowReadersExcludeWriter'
<1>1. /\ TypeOK /\ CountersExact
      /\ pc' \in [Threads -> PcValues]
      /\ \A u \in Threads \ {t} :
           \/ pc'[u] = pc[u]
           \/ pc[u] = "sharedCv" /\ pc'[u] = "slowShared"
           \/ pc[u] = "exclusiveCv" /\ pc'[u] = "slowExclusive"
  BY OthersOnlyWake DEF IInv
<1>2. Holds /\ Protected /\ OneWriter /\ SlowReadersExcludeWriter
  BY DEF IInv
<1> USE DEF Holds, Protected, OneWriter, SlowReadersExcludeWriter, At
\* Steps that neither touch mutex_ nor let anyone in.
<1>3. ASSUME UNCHANGED mutex, pc[t] \notin Holding, pc'[t] \notin Holding,
             pc'[t] \notin {"exclusive", "sharedSlow"}
      PROVE  Goal
  BY <1>1, <1>2, <1>3
<1>4. CASE LockShared_Load(t) \/ Lock_Request(t) \/ SpuriousWakeup(t)
  <2>1. /\ UNCHANGED mutex /\ pc[t] \notin Holding
        /\ pc'[t] \notin Holding \cup {"exclusive", "sharedSlow"}
    BY <1>1, <1>4 DEF LockShared_Load, Lock_Request, SpuriousWakeup, Goto, Resume, TypeOK
  <2>2. QED
    BY <1>3, <2>1
<1>5. CASE LockShared_FastAdd(t) \/ UnlockShared_Sub(t)
  <2>1. /\ UNCHANGED mutex /\ pc[t] \notin Holding
        /\ pc'[t] \notin Holding \cup {"exclusive", "sharedSlow"}
    BY <1>1, <1>5 DEF LockShared_FastAdd, UnlockShared_Sub, Goto, TypeOK, SharedPcs
  <2>2. QED
    BY <1>3, <2>1
<1>6. CASE UnlockShared_Notify(t) \/ Unlock(t)
  <2>1. pc'[t] = "idle" /\ UNCHANGED mutex /\ pc[t] \notin Holding
    BY <1>1, <1>6, NotifyEffect DEF UnlockShared_Notify, Unlock
  <2>2. QED
    BY <1>3, <2>1
\* The slow paths: a predicate that succeeds under mutex_.
<1>7. CASE LockShared_Wait(t)
  <2>1. CASE SharedPredicate
    <3>1. At("exclusive") = {}
      BY <1>1, <2>1, ZeroMeansEmpty DEF SharedPredicate
    <3>2. mutex = NoThread /\ mutex' = t /\ pc[t] = "slowShared" /\ pc'[t] = "slowAdd"
      BY <1>1, <1>7, <2>1 DEF LockShared_Wait, Goto, TypeOK
    <3>3. QED
      BY <1>1, <1>2, <3>1, <3>2, NoThreadOutside
  <2>2. CASE ~SharedPredicate
    <3>1. UNCHANGED mutex /\ pc[t] = "slowShared" /\ pc'[t] = "sharedCv"
      BY <1>1, <1>7, <2>2 DEF LockShared_Wait, Goto, TypeOK
    <3>2. QED
      BY <1>3, <3>1
  <2>3. QED
    BY <2>1, <2>2
<1>8. CASE Lock_Wait(t)
  <2>1. CASE ExclusivePredicate
    <3>1. At("exclusive") = {} /\ SharedHolders = {}
      BY <1>1, <2>1, ZeroMeansEmpty DEF ExclusivePredicate
    <3>2. At("sharedSlow") = {}
      BY <3>1 DEF SharedHolders, SharedPcs
    <3>3. mutex = NoThread /\ mutex' = t /\ pc[t] = "slowExclusive" /\ pc'[t] = "withdraw"
      BY <1>1, <1>8, <2>1 DEF Lock_Wait, Goto, TypeOK
    <3>4. QED
      BY <1>1, <1>2, <3>1, <3>2, <3>3, NoThreadOutside
  <2>2. CASE ~ExclusivePredicate
    <3>1. UNCHANGED mutex /\ pc[t] = "slowExclusive" /\ pc'[t] = "exclusiveCv"
      BY <1>1, <1>8, <2>2 DEF Lock_Wait, Goto, TypeOK
    <3>2. QED
      BY <1>3, <3>1
  <2>3. QED
    BY <2>1, <2>2
<1>9. CASE Lock_Withdraw(t)
  <2>1. UNCHANGED mutex /\ pc[t] = "withdraw" /\ pc'[t] = "take"
    BY <1>1, <1>9 DEF Lock_Withdraw, Goto, TypeOK
  <2>2. QED
    BY <1>1, <1>2, <2>1
<1>10. CASE LockShared_SlowAdd(t)
  <2>1. mutex' = NoThread /\ mutex = t /\ pc[t] = "slowAdd" /\ pc'[t] = "sharedSlow"
    BY <1>1, <1>2, <1>10 DEF LockShared_SlowAdd, Goto, TypeOK
  <2>2. \A u \in Threads : pc'[u] \notin Holding /\ pc'[u] # "exclusive"
    BY <1>1, <1>2, <2>1
  <2>3. QED
    BY <1>1, <2>1, <2>2, NoThreadOutside
<1>11. CASE Lock_Take(t)
  <2>1. mutex' = NoThread /\ mutex = t /\ pc[t] = "take" /\ pc'[t] = "exclusive"
    BY <1>1, <1>2, <1>11 DEF Lock_Take, Goto, TypeOK
  <2>2. \A u \in Threads : /\ pc'[u] \notin Holding \cup {"sharedSlow"}
                           /\ pc'[u] = "exclusive" => u = t
    BY <1>1, <1>2, <2>1
  <2>3. QED
    BY <1>1, <2>1, <2>2, NoThreadOutside
<1>12. QED
  BY <1>4, <1>5, <1>6, <1>7, <1>8, <1>9, <1>10, <1>11 DEF Call, Proceed

\* IInv is inductive.
LEMMA NextIInv == IInv /\ [Next]_vars => IInv'
<1> SUFFICES ASSUME IInv, [Next]_vars PROVE IInv'
  OBVIOUS
<1>1. CASE UNCHANGED vars
  BY <1>1 DEF vars, IInv, TypeOK, CountersExact, Holds, Protected, OneWriter,
              SlowReadersExcludeWriter, SharedHolders, Requesters, At
<1>2. CASE Next
  <2>1. PICK t \in Threads : Call(t) \/ Proceed(t) \/ SpuriousWakeup(t)
    BY <1>2 DEF Next
  <2>2. TypeOK /\ CountersExact
    BY DEF IInv
  <2>3. TypeOK' /\ CountersExact'
    BY <2>1, <2>2, TypeStep, CountersStep
  <2>4. Holds' /\ Protected' /\ OneWriter' /\ SlowReadersExcludeWriter'
    BY <2>1, ExclusionStep
  <2>5. QED
    BY <2>3, <2>4 DEF IInv
<1>3. QED
  BY <1>1, <1>2

\* IInv is an invariant of the lock.
THEOREM Invariance == Spec => []IInv
BY InitIInv, NextIInv, PTL DEF Spec

\* The types, and the counters of ExclusiveSharedMutex.h lines 76 to 79 that
\* the code does maintain, are right in every state.
THEOREM CountersCorrect == Spec => [](TypeOK /\ CountersExact)
<1>1. IInv => TypeOK /\ CountersExact
  BY DEF IInv
<1>2. QED
  BY <1>1, Invariance, PTL

\* lock() is a mutual-exclusion lock among its callers.
THEOREM WritersExcluded == Spec => []OneWriter
<1>1. IInv => OneWriter
  BY DEF IInv
<1>2. QED
  BY <1>1, Invariance, PTL

\* A reader admitted by the slow path of lock_shared never overlaps a writer;
\* the overlap TLC finds comes from the fast path alone.
THEOREM SlowReadersExcluded == Spec => []SlowReadersExcludeWriter
<1>1. IInv => SlowReadersExcludeWriter
  BY DEF IInv
<1>2. QED
  BY <1>1, Invariance, PTL

\* The predicate of lock() lets a writer through only when nobody is inside.
THEOREM WriterEntersEmptyLock == Spec => WriterFindsLockEmpty
<1> DEFINE A == \A t \in Threads : pc[t] = "slowExclusive" /\ pc'[t] = "withdraw"
                    => SharedHolders = {} /\ At("exclusive") = {}
<1>1. IInv /\ [Next]_vars => [A]_vars
  <2> SUFFICES ASSUME IInv, Next, NEW u \in Threads,
                      pc[u] = "slowExclusive", pc'[u] = "withdraw"
               PROVE  SharedHolders = {} /\ At("exclusive") = {}
    BY DEF A
  <2>1. PICK t \in Threads : Call(t) \/ Proceed(t) \/ SpuriousWakeup(t)
    BY DEF Next
  <2>2. TypeOK /\ CountersExact
    BY DEF IInv
  <2>3. u = t
    BY <2>1, <2>2, OthersOnlyWake
  <2>4. Lock_Wait(t) /\ ExclusivePredicate
    <3>1. pc[t] = "slowExclusive" /\ pc'[t] = "withdraw"
      BY <2>3
    <3>2. Lock_Wait(t)
      BY <2>1, <2>2, <3>1
      DEF TypeOK, Call, Proceed, LockShared_Load, Lock_Request, SpuriousWakeup,
          LockShared_FastAdd, LockShared_Wait, LockShared_SlowAdd, UnlockShared_Sub,
          UnlockShared_Notify, Lock_Withdraw, Lock_Take, Unlock, Goto, SharedPcs
    <3>3. QED
      BY <3>1, <3>2, <2>2 DEF Lock_Wait, Goto, TypeOK
  <2>5. QED
    BY <2>2, <2>4, ZeroMeansEmpty DEF ExclusivePredicate
<1>2. QED
  BY <1>1, Invariance, PTL DEF Spec, WriterFindsLockEmpty

\* Restricted to the readers of the slow path, the class implements the
\* readers-writer lock: every step is one of its steps or changes no holder.
THEOREM SlowPathRefinement == Spec => SlowPathIsReadersWriterLock
<1> DEFINE R == At("sharedSlow")
           W == At("exclusive")
<1>1. Init => SlowPath!LockInit
  BY DEF Init, SlowPath!LockInit, At
<1>2. IInv /\ [Next]_vars => [SlowPath!LockNext]_(SlowPath!lockVars)
  <2> SUFFICES ASSUME IInv, [Next]_vars
               PROVE  SlowPath!LockNext \/ (R' = R /\ W' = W)
    BY DEF SlowPath!lockVars
  <2>1. CASE UNCHANGED vars
    BY <2>1 DEF vars, At
  <2>2. CASE Next
    <3>1. PICK t \in Threads : Call(t) \/ Proceed(t) \/ SpuriousWakeup(t)
      BY <2>2 DEF Next
    <3>2. /\ TypeOK
          /\ pc' \in [Threads -> PcValues]
          /\ \A u \in Threads \ {t} :
               \/ pc'[u] = pc[u]
               \/ pc[u] = "sharedCv" /\ pc'[u] = "slowShared"
               \/ pc[u] = "exclusiveCv" /\ pc'[u] = "slowExclusive"
      BY <3>1, OthersOnlyWake DEF IInv
    <3>3. CASE LockShared_SlowAdd(t)
      <4>1. pc[t] = "slowAdd" /\ pc'[t] = "sharedSlow"
        BY <3>2, <3>3 DEF LockShared_SlowAdd, Goto, TypeOK
      <4>2. R' = R \cup {t} /\ W' = W /\ t \notin R /\ W = {}
        BY <3>2, <4>1 DEF At, IInv, Protected
      <4>3. SlowPath!AcquireShared(t)
        BY <4>2 DEF SlowPath!AcquireShared
      <4>4. QED
        BY <4>3 DEF SlowPath!LockNext
    <3>4. CASE Lock_Take(t)
      <4>1. pc[t] = "take" /\ pc'[t] = "exclusive"
        BY <3>2, <3>4 DEF Lock_Take, Goto, TypeOK
      <4>2. W' = {t} /\ R' = R /\ R = {} /\ W = {}
        BY <3>2, <4>1 DEF At, IInv, Protected
      <4>3. SlowPath!AcquireExclusive(t)
        BY <4>2 DEF SlowPath!AcquireExclusive
      <4>4. QED
        BY <4>3 DEF SlowPath!LockNext
    <3>5. CASE UnlockShared_Sub(t)
      <4>1. pc[t] \in SharedPcs /\ pc'[t] \notin {"sharedSlow", "exclusive"}
        BY <3>2, <3>5 DEF UnlockShared_Sub, TypeOK
      <4>2. R' = R \ {t} /\ W' = W
        BY <3>2, <4>1 DEF At, SharedPcs
      <4>3. t \in R => SlowPath!ReleaseShared(t)
        BY <4>2 DEF SlowPath!ReleaseShared
      <4>4. t \notin R => R' = R
        BY <4>2
      <4>5. QED
        BY <4>2, <4>3, <4>4 DEF SlowPath!LockNext
    <3>6. CASE Unlock(t)
      <4>1. pc[t] = "exclusive" /\ pc'[t] = "idle"
        BY <3>2, <3>6, NotifyEffect DEF Unlock
      <4>2. W = {t} /\ W' = {} /\ R' = R
        BY <3>2, <4>1 DEF At, IInv, OneWriter
      <4>3. SlowPath!ReleaseExclusive(t)
        BY <4>2 DEF SlowPath!ReleaseExclusive
      <4>4. QED
        BY <4>3 DEF SlowPath!LockNext
    <3>7. CASE \/ Call(t) \/ SpuriousWakeup(t) \/ LockShared_FastAdd(t)
               \/ LockShared_Wait(t) \/ UnlockShared_Notify(t) \/ Lock_Wait(t)
               \/ Lock_Withdraw(t)
      <4>1. CASE UnlockShared_Notify(t)
        BY <3>2, <4>1, NotifyEffect DEF UnlockShared_Notify, At
      <4>2. CASE ~UnlockShared_Notify(t)
        BY <3>2, <3>7, <4>2
        DEF Call, LockShared_Load, Lock_Request, SpuriousWakeup, LockShared_FastAdd,
            LockShared_Wait, Lock_Wait, Lock_Withdraw, Goto, Resume, At, TypeOK
      <4>3. QED
        BY <4>1, <4>2
    <3>8. QED
      BY <3>1, <3>3, <3>4, <3>5, <3>6, <3>7 DEF Proceed
  <2>3. QED
    BY <2>1, <2>2
<1>3. QED
  BY <1>1, <1>2, Invariance, PTL DEF Spec, SlowPathIsReadersWriterLock, SlowPath!LockSpec

=============================================================================
