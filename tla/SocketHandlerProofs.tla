------------------------- MODULE SocketHandlerProofs -------------------------
(***************************************************************************)
(* Proofs about SocketHandler and its Logger, for any number of callers,   *)
(* sockets, ids, writers and lines.                                        *)
(***************************************************************************)
EXTENDS HandlerLogging, FiniteSetTheorems, TLAPS

\* socketMutex is held by the one caller that is constructing a socket, and
\* by nobody once the destructor has finished.
MutexInv ==
    /\ \A c \in Callers : pc[c] = "construct" <=> socketMutex = c
    /\ handler = "gone" => socketMutex = None

\* The iterator of destroySocket points to a socket that was created with the
\* id it looked up.
FoundInv ==
    \A c \in Callers : pc[c] = "found" =>
        /\ found[c] \in Sockets
        /\ life[found[c]] # "unborn"
        /\ id[found[c]] = arg[c]

EmptyInv == handler = "gone" => DOMAIN sockets = {}

IInv == TypeOK /\ OwnedUntilDestroyed /\ MutexInv /\ FoundInv /\ EmptyInv

-----------------------------------------------------------------------------
\* The id of the first socket, and of a call that has ended.
LEMMA ZeroIsId == 0 \in Ids
BY IdRangePositive DEF Ids

\* An id computed modulo IdRange is an id, however many sockets there are.
LEMMA NextIdInRange ==
    ASSUME NEW k \in Kinds, TypeOK, IsFiniteSet(DOMAIN sockets)
    PROVE  NextId(k) \in Ids
<1>1. Cardinality(DOMAIN sockets) \in Nat
  BY FS_CardinalityType
<1>2. nextId + 1 \in Nat
  BY IdRangePositive DEF TypeOK, Ids
<1>3. \A n \in Nat : n % IdRange \in Ids
  BY IdRangePositive DEF Ids
<1> QED
  BY <1>1, <1>2, <1>3 DEF NextId

\* The map is finite: its keys are ids.
LEMMA MapFinite ==
    ASSUME TypeOK
    PROVE  IsFiniteSet(DOMAIN sockets)
<1>1. IsFiniteSet(Ids)
  BY FS_Interval, IdRangePositive DEF Ids
<1> QED
  BY <1>1, FS_Subset DEF TypeOK

\* The initial state satisfies the inductive invariant.
LEMMA InitIInv == Init => IInv
<1> SUFFICES ASSUME Init PROVE IInv
  OBVIOUS
<1>1. TypeOK
  <2>1. active \in BOOLEAN /\ crashed \in BOOLEAN
    BY DEF Init
  <2>2. DOMAIN sockets = {}
    BY DEF Init
  <2> QED
    BY <2>1, <2>2, ZeroIsId DEF Init, TypeOK, Kinds
<1>2. OwnedUntilDestroyed
  BY DEF Init, OwnedUntilDestroyed, Owned
<1>3. MutexInv /\ FoundInv /\ EmptyInv
  BY NoneOutside DEF Init, MutexInv, FoundInv, EmptyInv
<1> QED
  BY <1>1, <1>2, <1>3 DEF IInv

\* What emplace makes of the map: the new socket is destroyed again when the
\* id is taken, and alive under its id otherwise.
LEMMA EmplaceKeepsOwnership ==
    ASSUME IInv, NEW s \in Sockets, life[s] = "unborn", NEW i \in Ids,
           id' = [id EXCEPT ![s] = i], Emplace(s, i)
    PROVE  /\ OwnedUntilDestroyed'
           /\ DOMAIN sockets' \subseteq Ids
           /\ \A j \in DOMAIN sockets' : sockets'[j] \in Sockets
           /\ life' \in [Sockets -> {"unborn", "alive", "destroyed", "deleted"}]
           /\ life'[Returns(s, i)] \in {"alive", "deleted"}
           /\ Returns(s, i) \in Sockets
<1> USE DEF IInv, TypeOK
<1>0. \A j \in DOMAIN sockets : /\ sockets[j] \in Sockets /\ life[sockets[j]] \in {"alive", "deleted"}
                               /\ id[sockets[j]] = j /\ sockets[j] # s
  BY DEF OwnedUntilDestroyed, Owned
<1>1. CASE i \in DOMAIN sockets
  <2>1. sockets' = sockets /\ life' = [life EXCEPT ![s] = "destroyed"]
    BY <1>1 DEF Emplace
  <2>2. Owned' = {t \in Sockets : life'[t] \in {"alive", "deleted"}}
    BY <2>1, <1>0 DEF OwnedUntilDestroyed, Owned
  <2>3. \A j \in DOMAIN sockets' : id'[sockets'[j]] = j
    BY <2>1, <1>0
  <2> QED
    BY <1>0, <1>1, <2>1, <2>2, <2>3 DEF OwnedUntilDestroyed, Returns
<1>2. CASE i \notin DOMAIN sockets
  <2>1. /\ life' = [life EXCEPT ![s] = "alive"]
        /\ sockets' = [j \in DOMAIN sockets \cup {i} |-> IF j = i THEN s ELSE sockets[j]]
    BY <1>2 DEF Emplace
  <2>2. Owned' = {t \in Sockets : life'[t] \in {"alive", "deleted"}}
    <3>1. Owned' = Owned \cup {s}
      BY <2>1, <1>2 DEF Owned
    <3> QED
      BY <3>1, <2>1 DEF OwnedUntilDestroyed
  <2>3. \A j \in DOMAIN sockets' : id'[sockets'[j]] = j
    BY <2>1, <1>0, <1>2
  <2> QED
    BY <1>0, <1>2, <2>1, <2>2, <2>3 DEF OwnedUntilDestroyed, Returns
<1> QED
  BY <1>1, <1>2

-----------------------------------------------------------------------------
\* Every step of a caller, of the destructor, a crash of the log thread, and
\* every stuttering step preserves the inductive invariant.
LEMMA NextIInv == IInv /\ [Next \/ Crash]_vars => IInv'
<1> SUFFICES ASSUME IInv, [Next \/ Crash]_vars PROVE IInv'
  OBVIOUS
<1> USE DEF IInv
<1>1. ASSUME NEW c \in Callers, Create_Validate(c) PROVE IInv'
  <2>1. TypeOK'
    BY <1>1 DEF Create_Validate, Goto, TypeOK, objectVars
  <2>2. OwnedUntilDestroyed' /\ EmptyInv'
    BY <1>1 DEF Create_Validate, OwnedUntilDestroyed, Owned, EmptyInv, objectVars
  <2>3. MutexInv' /\ FoundInv'
    BY <1>1 DEF Create_Validate, Goto, MutexInv, FoundInv, TypeOK, objectVars
  <2> QED BY <2>1, <2>2, <2>3
<1>2. ASSUME NEW c \in Callers, Create_Lock(c) PROVE IInv'
  <2>0. NextId(want[c]) \in Ids
    BY NextIdInRange, MapFinite DEF TypeOK
  <2>1. TypeOK'
    BY <1>2, <2>0 DEF Create_Lock, Goto, TypeOK, objectVars
  <2>2. OwnedUntilDestroyed' /\ EmptyInv'
    BY <1>2 DEF Create_Lock, OwnedUntilDestroyed, Owned, EmptyInv, objectVars
  <2>3. MutexInv'
    BY <1>2, NoneOutside DEF Create_Lock, Goto, MutexInv, TypeOK
  <2>4. FoundInv'
    BY <1>2 DEF Create_Lock, Goto, FoundInv, TypeOK, objectVars
  <2> QED BY <2>1, <2>2, <2>3, <2>4
<1>3. ASSUME NEW c \in Callers, Create_Throw(c) PROVE IInv'
  <2>1. TypeOK'
    BY <1>3, ZeroIsId DEF Create_Throw, Goto, Forget, TypeOK, objectVars, Kinds
  <2>2. OwnedUntilDestroyed' /\ EmptyInv'
    BY <1>3 DEF Create_Throw, OwnedUntilDestroyed, Owned, EmptyInv, objectVars
  <2>3. MutexInv'
    BY <1>3, NoneOutside DEF Create_Throw, Goto, MutexInv, TypeOK
  <2>4. FoundInv'
    BY <1>3 DEF Create_Throw, Goto, Forget, FoundInv, TypeOK, objectVars
  <2> QED BY <2>1, <2>2, <2>3, <2>4
<1>4. ASSUME NEW c \in Callers, Create_Emplace(c) PROVE IInv'
  <2> PICK s \in Sockets :
         /\ life[s] = "unborn"
         /\ kind' = [kind EXCEPT ![s] = want[c]]
         /\ id' = [id EXCEPT ![s] = arg[c]]
         /\ Emplace(s, arg[c])
         /\ returned' = [returned EXCEPT ![c] = Returns(s, arg[c])]
    BY <1>4 DEF Create_Emplace
  <2>0. /\ arg[c] \in Ids
        /\ handler' = handler /\ handler # "gone"
        /\ socketMutex = c /\ socketMutex' = None
        /\ pc[c] = "construct" /\ pc' = [pc EXCEPT ![c] = "idle"]
        /\ Forget(c)
        /\ UNCHANGED <<active, nextId, crashed>>
    BY <1>4, NoneOutside DEF Create_Emplace, Goto, TypeOK, MutexInv
  <2>1. /\ OwnedUntilDestroyed'
        /\ DOMAIN sockets' \subseteq Ids
        /\ \A j \in DOMAIN sockets' : sockets'[j] \in Sockets
        /\ life' \in [Sockets -> {"unborn", "alive", "destroyed", "deleted"}]
        /\ Returns(s, arg[c]) \in Sockets
    BY <2>0, EmplaceKeepsOwnership
  <2>2. TypeOK'
    BY <2>0, <2>1, ZeroIsId DEF Forget, TypeOK, Kinds
  <2>3. MutexInv' /\ EmptyInv'
    BY <2>0, NoneOutside DEF MutexInv, EmptyInv, TypeOK
  <2>4. FoundInv'
    <3>1. \A t \in Sockets \ {s} : id'[t] = id[t] /\ life'[t] = life[t]
      BY DEF Emplace, TypeOK
    <3> QED
      BY <2>0, <3>1 DEF Forget, FoundInv, TypeOK
  <2> QED BY <2>1, <2>2, <2>3, <2>4
<1>5. ASSUME NEW c \in Callers, Destroy_Find(c) PROVE IInv'
  <2> PICK i \in Ids :
         \/ /\ i \in DOMAIN sockets
            /\ Goto(c, "idle", "found")
            /\ arg' = [arg EXCEPT ![c] = i]
            /\ found' = [found EXCEPT ![c] = sockets[i]]
         \/ UNCHANGED <<pc, arg, found>>
    BY <1>5 DEF Destroy_Find
  <2>0. \A j \in DOMAIN sockets : life[sockets[j]] # "unborn" /\ id[sockets[j]] = j
    BY DEF OwnedUntilDestroyed, Owned
  <2>1. TypeOK'
    BY <1>5 DEF Destroy_Find, Goto, TypeOK, objectVars
  <2>2. OwnedUntilDestroyed' /\ EmptyInv'
    BY <1>5 DEF Destroy_Find, OwnedUntilDestroyed, Owned, EmptyInv, objectVars
  <2>3. MutexInv'
    BY <1>5 DEF Destroy_Find, Goto, MutexInv, TypeOK
  <2>4. FoundInv'
    BY <1>5, <2>0 DEF Destroy_Find, Goto, FoundInv, TypeOK, objectVars
  <2> QED BY <2>1, <2>2, <2>3, <2>4
<1>6. ASSUME NEW c \in Callers, Destroy_Erase(c) PROVE IInv'
  <2>0. /\ found[c] \in Sockets /\ found[c] \in Owned
        /\ id[found[c]] = arg[c]
        /\ arg[c] \in DOMAIN sockets /\ sockets[arg[c]] = found[c]
    BY <1>6 DEF Destroy_Erase, Goto, FoundInv, OwnedUntilDestroyed, Owned, TypeOK
  <2>1. TypeOK'
    BY <1>6, <2>0, ZeroIsId DEF Destroy_Erase, Goto, Forget, TypeOK, Kinds
  <2>2. OwnedUntilDestroyed'
    <3>1. Owned' = Owned \ {found[c]}
      BY <1>6, <2>0 DEF Destroy_Erase, Owned, OwnedUntilDestroyed
    <3> QED
      BY <1>6, <2>0, <3>1 DEF Destroy_Erase, OwnedUntilDestroyed, TypeOK
  <2>3. MutexInv' /\ EmptyInv'
    BY <1>6 DEF Destroy_Erase, Goto, MutexInv, EmptyInv, TypeOK
  <2>4. FoundInv'
    BY <1>6, <2>0 DEF Destroy_Erase, Goto, Forget, FoundInv, TypeOK
  <2> QED BY <2>1, <2>2, <2>3, <2>4
<1>7. ASSUME Crash PROVE IInv'
  BY <1>7 DEF Crash, TypeOK, OwnedUntilDestroyed, Owned, MutexInv, FoundInv, EmptyInv,
              objectVars, callVars
<1>8. CASE Destructor_Deactivate
  <2>1. TypeOK'
    BY <1>8 DEF Destructor_Deactivate, TypeOK, objectVars, callVars
  <2> QED
    BY <1>8, <2>1 DEF Destructor_Deactivate, OwnedUntilDestroyed, Owned, MutexInv,
                      FoundInv, EmptyInv, objectVars, callVars
<1>9. CASE Destructor_Clear
  <2>1. TypeOK' /\ EmptyInv'
    BY <1>9 DEF Destructor_Clear, TypeOK, EmptyInv, callVars
  <2>2. OwnedUntilDestroyed'
    BY <1>9 DEF Destructor_Clear, OwnedUntilDestroyed, Owned, TypeOK
  <2>3. MutexInv' /\ FoundInv'
    BY <1>9 DEF Destructor_Clear, MutexInv, FoundInv, TypeOK, callVars
  <2> QED BY <2>1, <2>2, <2>3
<1>d. ASSUME NEW c \in Callers, Delete(c) PROVE IInv'
  <2>0. /\ returned[c] \in Sockets /\ life[returned[c]] = "alive"
        /\ life' = [life EXCEPT ![returned[c]] = "deleted"]
        /\ UNCHANGED <<sockets, id, handler, socketMutex, pc, arg, found>>
    BY <1>d DEF Delete, TypeOK
  <2>1. TypeOK'
    BY <1>d, <2>0 DEF Delete, TypeOK
  <2>2. OwnedUntilDestroyed'
    BY <2>0 DEF OwnedUntilDestroyed, Owned, TypeOK
  <2>3. MutexInv' /\ FoundInv' /\ EmptyInv'
    BY <2>0 DEF MutexInv, FoundInv, EmptyInv, TypeOK
  <2> QED BY <2>1, <2>2, <2>3
<1>10. CASE UNCHANGED vars
  BY <1>10 DEF vars, TypeOK, OwnedUntilDestroyed, Owned, MutexInv, FoundInv, EmptyInv,
               objectVars, callVars
<1> QED
  BY <1>1, <1>2, <1>3, <1>4, <1>5, <1>6, <1>7, <1>8, <1>9, <1>d, <1>10
  DEF Next, Caller, Destroy_FindOverlaps, Destroy_EraseDangling, UseAfterDestructor,
      Destructor_ClearDangling

-----------------------------------------------------------------------------
\* To the handler a step of the logger is no step, or the crash of a log thread
\* that outlives it.
LEMMA LoggingIsHandler == [LoggingNext]_allVars => [Next \/ Crash]_vars
BY DEF LoggingNext, allVars, Logging, WriteLog, LogThread_Loop, LogThread_Take,
   LogThread_Dequeued, LogThread_Print, LogThread_Outlives

\* The inductive invariant holds in every reachable state of the handler.
THEOREM Invariance == LoggingSpec => []IInv
<1>1. LoggingInit => IInv
  BY InitIInv DEF LoggingInit
<1> QED
  BY <1>1, NextIInv, LoggingIsHandler, PTL DEF LoggingSpec

\* Every variable of the handler keeps its type.
THEOREM TypeCorrect == LoggingSpec => []TypeOK
<1>1. IInv => TypeOK
  BY DEF IInv
<1> QED BY <1>1, Invariance, PTL

\* The map owns a socket from its construction until the handler destroys it,
\* whatever ids are handed out twice and whatever the program deletes.
THEOREM OwnershipExact == LoggingSpec => []OwnedUntilDestroyed
<1>1. IInv => OwnedUntilDestroyed
  BY DEF IInv
<1> QED BY <1>1, Invariance, PTL

\* The destructor leaves no socket behind.
THEOREM DestructorDestroysAll == LoggingSpec => []NoSocketOutlivesHandler
<1>1. IInv => NoSocketOutlivesHandler
  <2> SUFFICES ASSUME IInv, handler = "gone", NEW s \in Sockets, life[s] = "alive" PROVE FALSE
    BY DEF NoSocketOutlivesHandler
  <2>1. s \in Owned
    BY DEF IInv, OwnedUntilDestroyed
  <2> QED
    BY <2>1 DEF IInv, EmptyInv, Owned
<1> QED BY <1>1, Invariance, PTL

\* What create returns was not destroyed by the handler.
THEOREM CreateReturnsLive == LoggingSpec => CreateReturnsLiveSocket
<1> DEFINE Live == \A c \in Callers :
              returned[c] = None /\ returned'[c] # None => life'[returned'[c]] \in {"alive", "deleted"}
<1>1. IInv /\ [Next \/ Crash]_vars => [Live]_vars
  <2> SUFFICES ASSUME IInv, Next \/ Crash, NEW d \in Callers,
                      returned[d] = None, returned'[d] # None
               PROVE  life'[returned'[d]] \in {"alive", "deleted"}
    BY DEF Live
  <2>1. ASSUME NEW c \in Callers, Create_Validate(c) PROVE FALSE
    BY <2>1 DEF Create_Validate, IInv, TypeOK
  <2>2. ASSUME NEW c \in Callers, Create_Emplace(c) PROVE life'[returned'[d]] \in {"alive", "deleted"}
    <3> PICK s \in Sockets :
           /\ life[s] = "unborn"
           /\ id' = [id EXCEPT ![s] = arg[c]]
           /\ Emplace(s, arg[c])
           /\ returned' = [returned EXCEPT ![c] = Returns(s, arg[c])]
      BY <2>2 DEF Create_Emplace
    <3>1. arg[c] \in Ids
      BY DEF IInv, TypeOK
    <3>2. life'[Returns(s, arg[c])] \in {"alive", "deleted"}
      BY <3>1, EmplaceKeepsOwnership
    <3> QED
      BY <3>2 DEF IInv, TypeOK
  <2>3. ASSUME UNCHANGED returned PROVE FALSE
    BY <2>3
  <2>4. ASSUME NEW c \in Callers, Delete(c) PROVE FALSE
    BY <2>4 DEF Delete, IInv, TypeOK
  <2> QED
    BY <2>1, <2>2, <2>3, <2>4
    DEF Next, Caller, Create_Lock, Create_Throw, Destroy_Find, Destroy_FindOverlaps,
        Destroy_Erase, Destroy_EraseDangling, UseAfterDestructor, Crash,
        Destructor_Deactivate, Destructor_Clear, Destructor_ClearDangling, callVars
<1> QED
  BY <1>1, Invariance, LoggingIsHandler, PTL DEF LoggingSpec, CreateReturnsLiveSocket

-----------------------------------------------------------------------------
(* The lines of the log                                                     *)

Tasks == [writer : Writers, line : Nat]

LogTypes ==
    /\ written \in [Writers -> Nat]
    /\ logQueue \in [Writers -> Seq(Nat)] /\ printed \in [Writers -> Seq(Nat)]
    /\ logTasks \in Seq(Tasks)
    /\ logPc = "print" => logTasks # <<>>

LogInv == LogTypes /\ LinesInOrder

\* The conjuncts of LinesInOrder for one writer.
InOrder(c) ==
    /\ \A i \in 1 .. Len(printed[c]) : printed[c][i] = i
    /\ Len(printed[c]) <= Taken(c)
    /\ {logTasks[i].line : i \in InBatch(c)} = Len(printed[c]) + 1 .. Taken(c)
    /\ \A i, j \in InBatch(c) : i < j => logTasks[i].line < logTasks[j].line
    /\ \A i \in 1 .. Len(logQueue[c]) : logQueue[c][i] = Taken(c) + i

\* No line at first.
LEMMA LogInit == LoggingInit => LogInv
<1> SUFFICES ASSUME LoggingInit PROVE LogInv
  OBVIOUS
<1>1. LogTypes
  BY DEF LoggingInit, LogTypes
<1>2. ASSUME NEW c \in Writers PROVE InOrder(c)
  <2>1. Len(printed[c]) = 0 /\ Taken(c) = 0 /\ Len(logQueue[c]) = 0 /\ InBatch(c) = {}
    BY DEF LoggingInit, Taken, InBatch
  <2> QED
    BY <2>1 DEF InOrder
<1> QED
  BY <1>1, <1>2 DEF LogInv, LinesInOrder, InOrder

\* A writer whose lines do not move stays in order.
LEMMA OtherInOrder ==
    ASSUME NEW c \in Writers, InOrder(c), LogTypes,
           written'[c] = written[c], logQueue'[c] = logQueue[c], printed'[c] = printed[c],
           UNCHANGED logTasks
    PROVE  InOrder(c)'
BY DEF InOrder, Taken, InBatch

\* The next line of a writer is queued last.
LEMMA WriteInOrder ==
    ASSUME LogInv, NEW c \in Writers, WriteLog(c)
    PROVE  LogInv'
<1>1. /\ written \in [Writers -> Nat] /\ logQueue \in [Writers -> Seq(Nat)] /\ LogTypes
      /\ \A d \in Writers : InOrder(d)
  BY DEF LogInv, LogTypes, LinesInOrder, InOrder
<1>2. /\ written' = [written EXCEPT ![c] = @ + 1]
      /\ logQueue' = [logQueue EXCEPT ![c] = Append(@, written[c] + 1)]
      /\ UNCHANGED <<logPc, logTasks, printed>>
  BY DEF WriteLog, QueueLogInternal
<1>3. /\ written'[c] = written[c] + 1 /\ logQueue'[c] = Append(logQueue[c], written[c] + 1)
      /\ \A d \in Writers \ {c} : written'[d] = written[d] /\ logQueue'[d] = logQueue[d]
      /\ written' \in [Writers -> Nat] /\ logQueue' \in [Writers -> Seq(Nat)]
  BY <1>1, <1>2
<1>4. LogTypes'
  BY <1>1, <1>2, <1>3 DEF LogTypes
<1>5. InOrder(c)'
  <2>1. /\ Len(logQueue'[c]) = Len(logQueue[c]) + 1
        /\ \A i \in 1 .. Len(logQueue[c]) : logQueue'[c][i] = logQueue[c][i]
        /\ logQueue'[c][Len(logQueue[c]) + 1] = written[c] + 1
        /\ Len(logQueue[c]) \in Nat /\ written[c] \in Nat
    BY <1>1, <1>3
  <2>2. Taken(c)' = Taken(c) /\ Taken(c) = written[c] - Len(logQueue[c])
    BY <1>3, <2>1 DEF Taken
  <2>3. InBatch(c)' = InBatch(c)
    BY <1>2 DEF InBatch
  <2>4. \A i \in 1 .. Len(logQueue'[c]) : logQueue'[c][i] = Taken(c)' + i
    BY <1>1, <2>1, <2>2 DEF InOrder
  <2>5. {logTasks'[i].line : i \in InBatch(c)'} = {logTasks[i].line : i \in InBatch(c)}
    BY <1>2, <2>3
  <2> QED
    BY <1>1, <1>2, <2>2, <2>3, <2>4, <2>5 DEF InOrder
<1>6. ASSUME NEW d \in Writers \ {c} PROVE InOrder(d)'
  BY <1>1, <1>2, <1>3, OtherInOrder
<1> QED
  BY <1>4, <1>5, <1>6 DEF LogInv, LinesInOrder, InOrder

\* The log thread takes the next line of a writer.
LEMMA TakeInOrder ==
    ASSUME LogInv, NEW c \in Writers, LogThread_Take(c)
    PROVE  LogInv'
<1> DEFINE n == Len(logTasks)
           first == Head(logQueue[c])
<1>1. /\ written \in [Writers -> Nat] /\ logQueue \in [Writers -> Seq(Nat)] /\ LogTypes
      /\ logTasks \in Seq(Tasks) /\ printed \in [Writers -> Seq(Nat)]
      /\ \A d \in Writers : InOrder(d)
  BY DEF LogInv, LogTypes, LinesInOrder, InOrder
<1>2. /\ logQueue[c] # <<>> /\ UNCHANGED <<written, printed>>
      /\ logTasks' = Append(logTasks, [writer |-> c, line |-> first])
      /\ logQueue' = [logQueue EXCEPT ![c] = Tail(@)]
      /\ logPc = "dequeue" /\ UNCHANGED logPc
  BY DEF LogThread_Take
<1>3. /\ n \in Nat /\ written[c] \in Nat /\ Len(logQueue[c]) \in Nat \ {0}
      /\ Len(printed[c]) \in Nat /\ first \in Nat /\ first = logQueue[c][1]
  BY <1>1, <1>2
<1>4. /\ logQueue'[c] = Tail(logQueue[c])
      /\ \A d \in Writers \ {c} : logQueue'[d] = logQueue[d]
      /\ Tail(logQueue[c]) \in Seq(Nat) /\ logQueue' \in [Writers -> Seq(Nat)]
  BY <1>1, <1>2
<1>5. /\ Len(logQueue'[c]) = Len(logQueue[c]) - 1
      /\ \A i \in 1 .. Len(logQueue'[c]) : logQueue'[c][i] = logQueue[c][i + 1]
  BY <1>1, <1>3, <1>4
<1> HIDE DEF first
<1>6. [writer |-> c, line |-> first] \in Tasks
  BY <1>3 DEF Tasks
<1>7. /\ logTasks' \in Seq(Tasks) /\ DOMAIN logTasks = 1 .. n /\ DOMAIN logTasks' = 1 .. n + 1
      /\ \A i \in 1 .. n : logTasks'[i] = logTasks[i]
      /\ logTasks'[n + 1] = [writer |-> c, line |-> first]
  BY <1>1, <1>2, <1>3, <1>6
<1>8. LogTypes'
  BY <1>1, <1>2, <1>4, <1>7 DEF LogTypes
<1> HIDE DEF n
<1>9. InOrder(c)'
  <2>1. Taken(c)' = Taken(c) + 1 /\ Taken(c) \in Int
    BY <1>2, <1>3, <1>5 DEF Taken
  <2>2. first = Taken(c) + 1
    BY <1>1, <1>3 DEF InOrder
  <2>3. InBatch(c)' = InBatch(c) \cup {n + 1} /\ InBatch(c) \subseteq 1 .. n
    BY <1>3, <1>7 DEF InBatch
  <2>4. {logTasks'[i].line : i \in InBatch(c)'}
          = {logTasks[i].line : i \in InBatch(c)} \cup {Taken(c) + 1}
    BY <1>3, <1>7, <2>2, <2>3
  <2>5. {logTasks'[i].line : i \in InBatch(c)'} = Len(printed[c]) + 1 .. Taken(c) + 1
    <3>1. /\ {logTasks[i].line : i \in InBatch(c)} = Len(printed[c]) + 1 .. Taken(c)
          /\ Len(printed[c]) <= Taken(c)
      BY <1>1 DEF InOrder
    <3>2. (Len(printed[c]) + 1 .. Taken(c)) \cup {Taken(c) + 1} = Len(printed[c]) + 1 .. Taken(c) + 1
      BY <1>3, <2>1, <3>1
    <3> QED
      BY <2>4, <3>1, <3>2
  <2>6. \A i \in InBatch(c) : logTasks[i].line \in Len(printed[c]) + 1 .. Taken(c)
    BY <1>1 DEF InOrder
  <2>7. \A i, j \in InBatch(c)' : i < j => logTasks'[i].line < logTasks'[j].line
    <3> SUFFICES ASSUME NEW i \in InBatch(c)', NEW j \in InBatch(c)', i < j
                 PROVE  logTasks'[i].line < logTasks'[j].line
      OBVIOUS
    <3>1. i \in InBatch(c) /\ logTasks'[i] = logTasks[i]
      BY <1>3, <1>7, <2>3
    <3>2. CASE j \in InBatch(c)
      BY <1>1, <1>7, <2>3, <3>1, <3>2 DEF InOrder
    <3>3. CASE j = n + 1
      BY <1>3, <1>7, <2>1, <2>2, <2>6, <3>1, <3>3
    <3> QED
      BY <2>3, <3>2, <3>3
  <2>8. \A i \in 1 .. Len(logQueue'[c]) : logQueue'[c][i] = Taken(c)' + i
    BY <1>1, <1>3, <1>5, <2>1 DEF InOrder
  <2>9. Len(printed[c]) <= Taken(c)'
    BY <1>1, <1>3, <2>1 DEF InOrder
  <2>10. \A i \in 1 .. Len(printed[c]) : printed[c][i] = i
    BY <1>1 DEF InOrder
  <2> QED
    BY <1>2, <2>1, <2>5, <2>7, <2>8, <2>9, <2>10 DEF InOrder
<1>10. ASSUME NEW d \in Writers \ {c} PROVE InOrder(d)'
  <2>1. InBatch(d)' = InBatch(d) /\ InBatch(d) \subseteq 1 .. n
    BY <1>3, <1>7 DEF InBatch
  <2>2. {logTasks'[i].line : i \in InBatch(d)'} = {logTasks[i].line : i \in InBatch(d)}
    BY <1>7, <2>1
  <2>3. Taken(d)' = Taken(d)
    BY <1>2, <1>4 DEF Taken
  <2> QED
    BY <1>1, <1>2, <1>4, <1>7, <2>1, <2>2, <2>3 DEF InOrder
<1> QED
  BY <1>8, <1>9, <1>10 DEF LogInv, LinesInOrder, InOrder

\* The first line of the batch is the next one of its writer.
LEMMA PrintInOrder ==
    ASSUME LogInv, LogThread_Print
    PROVE  LogInv'
<1> DEFINE n == Len(logTasks)
<1>1. /\ logTasks \in Seq(Tasks) /\ printed \in [Writers -> Seq(Nat)] /\ LogTypes
      /\ written \in [Writers -> Nat] /\ logQueue \in [Writers -> Seq(Nat)]
      /\ \A d \in Writers : InOrder(d)
  BY DEF LogInv, LogTypes, LinesInOrder, InOrder
<1>2. logTasks # <<>>
  BY DEF LogInv, LogTypes, LogThread_Print
<1>3. n \in Nat \ {0} /\ DOMAIN logTasks = 1 .. n /\ Head(logTasks) = logTasks[1]
  BY <1>1, <1>2
<1>4. PICK c \in Writers, line \in Nat : logTasks[1].writer = c /\ logTasks[1].line = line
  <2>1. logTasks[1] \in Tasks
    BY <1>1, <1>3
  <2> QED
    BY <2>1 DEF Tasks
<1>5. /\ printed' = [printed EXCEPT ![c] = Append(@, line)] /\ logTasks' = Tail(logTasks)
      /\ logPc' = (IF Len(logTasks) = 1 THEN "loop" ELSE "print")
      /\ UNCHANGED <<written, logQueue>>
  BY <1>3, <1>4 DEF LogThread_Print
<1>6. /\ logTasks' \in Seq(Tasks) /\ DOMAIN logTasks' = 1 .. n - 1
      /\ \A i \in 1 .. n - 1 : logTasks'[i] = logTasks[i + 1]
  BY <1>1, <1>2, <1>3, <1>5
<1>7. /\ printed'[c] = Append(printed[c], line)
      /\ \A d \in Writers \ {c} : printed'[d] = printed[d]
      /\ printed' \in [Writers -> Seq(Nat)]
  BY <1>1, <1>4, <1>5
<1>8. LogTypes'
  <2>1. logPc' = "print" => logTasks' # <<>>
    <3>1. logPc' = "print" => 1 \in DOMAIN logTasks'
      BY <1>3, <1>5, <1>6
    <3> QED
      BY <3>1
  <2> QED
    BY <1>1, <1>5, <1>6, <1>7, <2>1 DEF LogTypes
<1>9. /\ Len(printed'[c]) = Len(printed[c]) + 1 /\ Len(printed[c]) \in Nat
      /\ \A i \in 1 .. Len(printed[c]) : printed'[c][i] = printed[c][i]
      /\ printed'[c][Len(printed[c]) + 1] = line
  BY <1>1, <1>4, <1>7
<1>10. \A d \in Writers : Taken(d)' = Taken(d) /\ Taken(d) \in Int
  BY <1>1, <1>5 DEF Taken
<1> HIDE DEF n
<1>11. \A d \in Writers, i \in 1 .. n - 1 : i \in InBatch(d)' <=> i + 1 \in InBatch(d)
  BY <1>3, <1>6 DEF InBatch
<1>12. \A d \in Writers : InBatch(d) \subseteq 1 .. n /\ InBatch(d)' \subseteq 1 .. n - 1
  BY <1>3, <1>6 DEF InBatch
<1>13. ASSUME NEW d \in Writers PROVE
        \A i, j \in InBatch(d)' : i < j => logTasks'[i].line < logTasks'[j].line
  <2> SUFFICES ASSUME NEW i \in InBatch(d)', NEW j \in InBatch(d)', i < j
               PROVE  logTasks'[i].line < logTasks'[j].line
    OBVIOUS
  <2>1. i \in 1 .. n - 1 /\ j \in 1 .. n - 1 /\ i + 1 \in InBatch(d) /\ j + 1 \in InBatch(d)
    BY <1>11, <1>12
  <2>2. logTasks'[i] = logTasks[i + 1] /\ logTasks'[j] = logTasks[j + 1] /\ i + 1 < j + 1
    BY <1>3, <1>6, <2>1
  <2>3. \A a, b \in InBatch(d) : a < b => logTasks[a].line < logTasks[b].line
    BY <1>1 DEF InOrder
  <2> QED
    BY <2>1, <2>2, <2>3
<1>14. 1 \in InBatch(c)
  BY <1>3, <1>4 DEF InBatch
<1>15. line = Len(printed[c]) + 1
  <2> DEFINE k == Len(printed[c]) + 1
  <2>1. line \in k .. Taken(c)
    BY <1>1, <1>4, <1>14 DEF InOrder
  <2>2. k \in k .. Taken(c)
    BY <1>9, <1>10, <1>4, <2>1
  <2>3. PICK j \in InBatch(c) : logTasks[j].line = k
    <3>1. {logTasks[i].line : i \in InBatch(c)} = k .. Taken(c)
      BY <1>1, <1>4 DEF InOrder
    <3> HIDE DEF k
    <3> QED
      BY <2>2, <3>1
  <2>4. j = 1 \/ 1 < j
    BY <1>3, <1>4, <1>12, <2>3
  <2>5. 1 < j => line < k
    BY <1>1, <1>4, <1>14, <2>3 DEF InOrder
  <2> QED
    BY <1>4, <1>9, <1>10, <2>1, <2>3, <2>4, <2>5
<1>16. InOrder(c)'
  <2> DEFINE k == Len(printed[c])
             Old == {logTasks[i].line : i \in InBatch(c)}
             New == {logTasks'[i].line : i \in InBatch(c)'}
  <2>1. New = Old \ {line}
    <3>1. ASSUME NEW i \in InBatch(c)' PROVE logTasks'[i].line \in Old \ {line}
      <4>1. i \in 1 .. n - 1 /\ i + 1 \in InBatch(c) /\ logTasks'[i] = logTasks[i + 1]
        BY <1>4, <1>6, <1>11, <1>12
      <4>2. logTasks[1].line < logTasks[i + 1].line
        <5>1. \A a, b \in InBatch(c) : a < b => logTasks[a].line < logTasks[b].line
          BY <1>1, <1>4 DEF InOrder
        <5>2. 1 < i + 1
          BY <1>3, <4>1
        <5> QED
          BY <1>14, <4>1, <5>1, <5>2
      <4>3. logTasks[i + 1].line \in Old /\ Old \subseteq Int
        BY <1>1, <1>4, <1>9, <1>10, <4>1 DEF InOrder
      <4> QED
        BY <1>4, <4>1, <4>2, <4>3
    <3>2. ASSUME NEW i \in InBatch(c), logTasks[i].line # line PROVE logTasks[i].line \in New
      <4>1. i \in 1 .. n /\ i # 1
        BY <1>4, <1>12, <3>2
      <4>2. i - 1 \in 1 .. n - 1 /\ (i - 1) + 1 = i
        BY <1>3, <4>1
      <4>3. i - 1 \in InBatch(c)' /\ logTasks'[i - 1] = logTasks[i]
        BY <1>4, <1>6, <1>11, <4>2
      <4> QED
        BY <4>3
    <3> QED
      BY <3>1, <3>2
  <2>2. Old = k + 1 .. Taken(c)
    BY <1>1, <1>4 DEF InOrder
  <2> HIDE DEF Old, New
  <2>3. k + 1 \in Old
    <3>1. line \in Old
      BY <1>4, <1>14 DEF Old
    <3> QED
      BY <1>15, <3>1
  <2>4. k + 1 <= Taken(c) /\ New = k + 2 .. Taken(c)
    BY <1>4, <1>9, <1>10, <1>15, <2>1, <2>2, <2>3
  <2>5. \A i \in 1 .. Len(printed'[c]) : printed'[c][i] = i
    <3>1. \A i \in 1 .. Len(printed[c]) : printed[c][i] = i
      BY <1>1, <1>4 DEF InOrder
    <3> QED
      BY <1>9, <1>15, <3>1
  <2>6. Len(printed'[c]) + 1 = k + 2 /\ Len(printed'[c]) <= Taken(c)
    BY <1>9, <1>4, <1>10, <2>4
  <2>7. \A i \in 1 .. Len(logQueue[c]) : logQueue[c][i] = Taken(c) + i
    BY <1>1, <1>4 DEF InOrder
  <2> QED
    BY <1>4, <1>5, <1>10, <1>13, <2>4, <2>5, <2>6, <2>7 DEF InOrder, New
<1>17. ASSUME NEW d \in Writers \ {c} PROVE InOrder(d)'
  <2>1. 1 \notin InBatch(d)
    BY <1>4 DEF InBatch
  <2>2. {logTasks'[i].line : i \in InBatch(d)'} = {logTasks[i].line : i \in InBatch(d)}
    <3>1. ASSUME NEW i \in InBatch(d)' PROVE logTasks'[i].line \in {logTasks[j].line : j \in InBatch(d)}
      <4>1. i + 1 \in InBatch(d) /\ logTasks'[i] = logTasks[i + 1]
        BY <1>6, <1>11, <1>12
      <4> QED
        BY <4>1
    <3>2. ASSUME NEW i \in InBatch(d) PROVE logTasks[i].line \in {logTasks'[j].line : j \in InBatch(d)'}
      <4>1. i \in 1 .. n /\ i # 1
        BY <1>12, <2>1
      <4>2. i - 1 \in 1 .. n - 1 /\ (i - 1) + 1 = i
        BY <1>3, <4>1
      <4>3. i - 1 \in InBatch(d)' /\ logTasks'[i - 1] = logTasks[i]
        BY <1>6, <1>11, <4>2
      <4> QED
        BY <4>3
    <3> QED
      BY <3>1, <3>2
  <2> QED
    BY <1>1, <1>5, <1>7, <1>10, <1>13, <2>2 DEF InOrder
<1> QED
  BY <1>8, <1>16, <1>17 DEF LogInv, LinesInOrder, InOrder

\* Every step keeps the lines in order.
LEMMA LogNext == LogInv /\ [LoggingNext]_allVars => LogInv'
<1> SUFFICES ASSUME LogInv, [LoggingNext]_allVars PROVE LogInv'
  OBVIOUS
<1>1. ASSUME UNCHANGED <<written, logQueue, logTasks, printed>>,
             logPc' = "print" => logTasks # <<>>
      PROVE  LogInv'
  <2>1. LogTypes'
    BY <1>1 DEF LogInv, LogTypes
  <2>2. ASSUME NEW c \in Writers PROVE InOrder(c)'
    BY <1>1, OtherInOrder DEF LogInv, LinesInOrder, InOrder
  <2> QED
    BY <2>1, <2>2 DEF LogInv, LinesInOrder, InOrder
<1>2. CASE UNCHANGED logVars
  BY <1>1, <1>2 DEF logVars, LogInv, LogTypes
<1>3. CASE LogThread_Loop \/ LogThread_Dequeued
  BY <1>1, <1>3 DEF LogThread_Loop, LogThread_Dequeued
<1> QED
  BY <1>2, <1>3, WriteInOrder, TakeInOrder, PrintInOrder
     DEF LoggingNext, Logging, allVars, LogThread_Outlives

\* Every queued line is printed once and in its writer's order, for any writers,
\* any number of lines and any batch size, unless the handler goes first.
THEOREM LogInOrder == LoggingSpec => []LinesInOrder
<1>1. LogInv => LinesInOrder
  BY DEF LogInv
<1> QED
  BY <1>1, LogInit, LogNext, PTL DEF LoggingSpec
=============================================================================
