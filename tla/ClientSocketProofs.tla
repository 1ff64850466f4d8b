------------------------- MODULE ClientSocketProofs -------------------------
(***************************************************************************)
(* Proofs about ClientSocket and the EventCallback in it, for any threads, *)
(* any callbacks and any pointers.                                         *)
(***************************************************************************)
EXTENDS ClientSocket, TLAPS

-----------------------------------------------------------------------------
(* The event: a writer has its mutex alone, so nothing changes under an     *)
(* invoke.                                                                  *)

EventPcs == {"idle", "invoke", "calling", "running", "lock", "change"}

EventTypes ==
    /\ epc \in [Threads -> EventPcs]
    /\ todo = [t \in Threads |-> todo[t]]
    /\ running = [t \in Threads |-> running[t]]
    /\ change = [t \in Threads |-> change[t]]
    /\ owed = [t \in Threads |-> owed[t]]

\* The mutex: its owner is the thread about to change the set; an invoke that
\* calls has it shared.
MutexInv ==
    /\ owner # None => sharing = {}
    /\ \A t \in Threads : epc[t] = "change" => owner = t
    /\ \A t \in Threads : epc[t] \in {"calling", "running"} => t \in sharing

\* What an invoke has still to call is registered, and covers what it owes.
CallInv(t) ==
    /\ epc[t] \in {"calling", "running"} => todo[t] \subseteq callbacks /\ owed[t] \subseteq todo[t]
    /\ epc[t] = "running" => running[t] \in callbacks
    /\ epc[t] = "invoke" => owed[t] \subseteq callbacks

EventInv == EventTypes /\ MutexInv /\ \A t \in Threads : CallInv(t)

\* The event starts in the invariant.
LEMMA EventInitInv == EventInit => EventInv
BY DEF EventInit, EventInv, EventTypes, EventPcs, MutexInv, CallInv

\* The first look of invoke, by a notifier or in close.
LEMMA InvokeEmptyInv ==
    ASSUME EventInv, NEW t \in Threads, Invoke_Empty(t)
    PROVE  EventInv'
<1>1. EventTypes'
  BY DEF EventInv, EventTypes, EventPcs, Invoke_Empty, Step
<1>2. MutexInv'
  BY DEF EventInv, EventTypes, MutexInv, Invoke_Empty, Step, lockVars
<1>3. ASSUME NEW s \in Threads PROVE CallInv(s)'
  BY DEF EventInv, EventTypes, CallInv, Invoke_Empty, Step
<1> QED
  BY <1>1, <1>2, <1>3 DEF EventInv

\* A step of an invoke.
LEMMA InvokingInv ==
    ASSUME EventInv, NEW t \in Threads, Invoking(t)
    PROVE  EventInv'
<1>1. EventTypes'
  BY DEF EventInv, EventTypes, EventPcs, Invoking, Invoke_Lock, Invoke_Call, Callback_Return,
     Callback_Throw, Invoke_Return, Step
<1>2. MutexInv'
  BY EventAssumption DEF EventInv, EventTypes, MutexInv, Invoking, Invoke_Lock, Invoke_Call,
     Callback_Return, Callback_Throw, Invoke_Return, Step, lockVars
<1>3. ASSUME NEW s \in Threads PROVE CallInv(s)'
  <2>1. CASE Invoke_Lock(t)
    BY <2>1 DEF EventInv, EventTypes, CallInv, Invoke_Lock, Step
  <2>2. CASE Invoke_Call(t)
    BY <2>2 DEF EventInv, EventTypes, CallInv, Invoke_Call, Step
  <2>3. CASE Callback_Return(t)
    BY <2>3 DEF EventInv, EventTypes, CallInv, Callback_Return, Step
  <2>4. CASE Callback_Throw(t)
    BY <2>4 DEF EventInv, EventTypes, CallInv, Callback_Throw
  <2>5. CASE Invoke_Return(t)
    BY <2>5 DEF EventInv, EventTypes, CallInv, Invoke_Return, Step
  <2> QED
    BY <2>1, <2>2, <2>3, <2>4, <2>5 DEF Invoking
<1> QED
  BY <1>1, <1>2, <1>3 DEF EventInv

\* A change begins, waits for the mutex, and is made while nobody calls.
LEMMA ChangingInv ==
    ASSUME EventInv, NEW t \in Threads, Changing(t) \/ Change_Begin(t)
    PROVE  EventInv'
<1>1. EventTypes'
  BY DEF EventInv, EventTypes, EventPcs, Changing, Change_Begin, Change_Lock, Change_Apply, Step
<1>2. CASE Change_Begin(t)
  <2>1. MutexInv'
    BY <1>2 DEF EventInv, EventTypes, MutexInv, Change_Begin, Step, lockVars
  <2>2. ASSUME NEW s \in Threads PROVE CallInv(s)'
    BY <1>2 DEF EventInv, EventTypes, CallInv, Change_Begin, Step
  <2> QED
    BY <1>1, <2>1, <2>2 DEF EventInv
<1>3. CASE Change_Lock(t)
  <2>1. MutexInv'
    BY <1>3, EventAssumption DEF EventInv, EventTypes, MutexInv, Change_Lock, Step
  <2>2. ASSUME NEW s \in Threads PROVE CallInv(s)'
    BY <1>3 DEF EventInv, EventTypes, CallInv, Change_Lock, Step
  <2> QED
    BY <1>1, <2>1, <2>2 DEF EventInv
<1>4. CASE Change_Apply(t)
  <2>1. owner = t /\ sharing = {}
    BY <1>4, EventAssumption DEF EventInv, MutexInv, Change_Apply, Step
  <2>2. \A s \in Threads : epc[s] \notin {"calling", "running"}
    BY <2>1 DEF EventInv, MutexInv
  <2>3. MutexInv'
    BY <1>4, <2>1, <2>2 DEF EventInv, EventTypes, MutexInv, Change_Apply, Step
  <2>4. ASSUME NEW s \in Threads PROVE CallInv(s)'
    BY <1>4, <2>2 DEF EventInv, EventTypes, CallInv, Change_Apply, Step
  <2> QED
    BY <1>1, <2>3, <2>4 DEF EventInv
<1> QED
  BY <1>2, <1>3, <1>4 DEF Changing

\* A step that leaves the event alone.
LEMMA EventSame ==
    ASSUME EventInv, UNCHANGED eventVars
    PROVE  EventInv'
BY DEF EventInv, EventTypes, MutexInv, CallInv, eventVars, lockVars

\* Every step of the client keeps the invariant of the event.
LEMMA EventNext == EventInv /\ [Next]_vars => EventInv'
<1> SUFFICES ASSUME EventInv, [Next]_vars PROVE EventInv'
  OBVIOUS
<1>1. CASE OtherOpens
  BY <1>1, EventSame DEF OtherOpens
<1>2. ASSUME NEW t \in Threads, Client(t) PROVE EventInv'
  <2>1. CASE Notify(t) \/ Close_Callback(t)
    BY <2>1, InvokeEmptyInv DEF Notify, Close_Callback
  <2>2. CASE ~(Notify(t) \/ Close_Callback(t))
    BY <1>2, <2>2, EventSame DEF Client, Connect, Connect_Fail, Connect_Done, Notify_End, Close,
       Destroy, Close_Test, Close_Fd, Close_Reset, Close_NoCallback, Close_End, Write, UseNoChannel
  <2> QED
    BY <2>1, <2>2
<1>3. ASSUME NEW t \in Threads, Event(t) PROVE EventInv'
  BY <1>3, InvokingInv, ChangingInv DEF Event
<1>4. ASSUME NEW t \in Threads, UseDeadSocket(t) PROVE EventInv'
  BY <1>4, EventSame DEF UseDeadSocket
<1>5. CASE UNCHANGED vars
  BY <1>5, EventSame DEF vars
<1> QED
  BY <1>1, <1>2, <1>3, <1>4, <1>5 DEF Next

\* A callback runs only while it is registered, and an invoke calls all that
\* stay registered, for any threads, callbacks and pointers: also when the
\* callbacks change the set, and when removeCallback waits for an invoke.
THEOREM CallbacksExact == Spec => []CallsExactlyRegistered
<1>1. Init => EventInv
  BY EventInitInv DEF Init
<1>2. EventInv => CallsExactlyRegistered
  BY DEF EventInv, CallInv, CallsExactlyRegistered, RunsOnlyRegistered, RegisteredAreCalled
<1> QED
  BY <1>1, <1>2, EventNext, PTL DEF Spec

-----------------------------------------------------------------------------
(* The descriptor: while no connect fails and close is entered by one       *)
(* thread at a time, the number is the socket's from its test to its close. *)

\* One thread closes, it found a descriptor, and only between ::close and
\* "socketDescriptor = -1" does the socket keep a number it does not own.
CloseInv ==
    /\ \A s, t \in Threads : Closing(s) /\ Closing(t) => s = t
    /\ \A t \in Threads : cpc[t] = "closeFd" => socketDescriptor
    /\ socketDescriptor /\ number # "socket" => \E t \in Threads : cpc[t] = "reset"
    /\ ~foreignClosed

DescriptorInv ==
    /\ cpc = [t \in Threads |-> cpc[t]]
    /\ ~failed /\ ~overlapped => CloseInv

\* Every step keeps it.
LEMMA DescriptorNext == DescriptorInv /\ [Next]_vars => DescriptorInv'
<1> SUFFICES ASSUME DescriptorInv, [Next]_vars PROVE DescriptorInv'
  OBVIOUS
<1>1. cpc = [t \in Threads |-> cpc[t]]
  BY DEF DescriptorInv
<1>2. CASE OtherOpens
  BY <1>2 DEF OtherOpens, history, DescriptorInv, CloseInv, Closing
<1>3. ASSUME NEW t \in Threads, Connect(t) PROVE DescriptorInv'
  BY <1>3 DEF Connect, Go, history, DescriptorInv, CloseInv, Closing
<1>4. ASSUME NEW t \in Threads, Connect_Fail(t) PROVE DescriptorInv'
  BY <1>4 DEF Connect_Fail, Go, DescriptorInv
<1>5. ASSUME NEW t \in Threads, Connect_Done(t) PROVE DescriptorInv'
  BY <1>5, ClientAssumption DEF Connect_Done, Go, history, DescriptorInv, CloseInv, Closing
<1>6. ASSUME NEW t \in Threads, Notify(t) \/ Notify_End(t) PROVE DescriptorInv'
  BY <1>6 DEF Notify, Notify_End, Go, history, DescriptorInv, CloseInv, Closing
<1>7. ASSUME NEW t \in Threads, Close(t) \/ Destroy(t) PROVE DescriptorInv'
  <2>1. Close_Test(t)
    BY <1>7 DEF Close, Destroy
  <2>2. overlapped' = (overlapped \/ \E s \in Threads : Closing(s))
    BY <2>1 DEF Close_Test
  <2>3. ~overlapped' => ~overlapped /\ \A s \in Threads : ~Closing(s)
    BY <2>2, Zenon
  <2>4. /\ cpc' = [cpc EXCEPT ![t] = IF socketDescriptor THEN "closeFd" ELSE "callback"]
        /\ UNCHANGED <<socketDescriptor, number, failed, foreignClosed>>
    BY <2>1 DEF Close_Test, Go
  <2>5. \A s \in Threads : s # t => cpc'[s] = cpc[s]
    BY <1>1, <2>4
  <2>6. cpc'[t] = IF socketDescriptor THEN "closeFd" ELSE "callback"
    BY <1>1, <2>4
  <2>7. cpc' = [s \in Threads |-> cpc'[s]]
    BY <1>1, <2>4
  <2>8. ASSUME ~failed', ~overlapped' PROVE CloseInv'
    <3>1. CloseInv /\ \A s \in Threads : ~Closing(s)
      BY <2>3, <2>4, <2>8 DEF DescriptorInv
    <3>2. \A s \in Threads : cpc[s] # "reset"
      BY <3>1 DEF Closing
    <3>3. \A s \in Threads : s # t => ~Closing(s)'
      BY <2>5, <3>1 DEF Closing
    <3> QED
      BY <2>4, <2>5, <2>6, <3>1, <3>2, <3>3 DEF CloseInv, Closing
  <2> QED
    BY <2>7, <2>8 DEF DescriptorInv
<1>8. ASSUME NEW t \in Threads, Close_Fd(t) PROVE DescriptorInv'
  BY <1>8 DEF Close_Fd, CloseDescriptor, Go, DescriptorInv, CloseInv, Closing
<1>9. ASSUME NEW t \in Threads, Close_Reset(t) PROVE DescriptorInv'
  BY <1>9 DEF Close_Reset, Go, history, DescriptorInv, CloseInv, Closing
<1>10. ASSUME NEW t \in Threads, Close_NoCallback(t) \/ Close_Callback(t) \/ Close_End(t)
       PROVE  DescriptorInv'
  BY <1>10 DEF Close_NoCallback, Close_Callback, Close_End, Go, history, DescriptorInv, CloseInv,
     Closing
<1>11. ASSUME NEW t \in Threads, Write(t) \/ UseNoChannel(t) \/ UseDeadSocket(t)
       PROVE  DescriptorInv'
  BY <1>11 DEF Write, UseNoChannel, UseDeadSocket, history, DescriptorInv, CloseInv, Closing
<1>12. CASE UNCHANGED clientVars
  BY <1>12 DEF clientVars, DescriptorInv, CloseInv, Closing
<1> QED
  BY <1>2, <1>3, <1>4, <1>5, <1>6, <1>7, <1>8, <1>9, <1>10, <1>11, <1>12
     DEF Next, Client, vars

\* close closes the socket's own descriptor only, for any number of users and
\* of calls, as long as no connect failed and no two threads close at once.
THEOREM ClosesOwn == Spec => []ClosesOwnDescriptorOnly
<1>1. Init => DescriptorInv
  BY DEF Init, DescriptorInv, CloseInv, Closing
<1>2. DescriptorInv => ClosesOwnDescriptorOnly
  BY DEF DescriptorInv, CloseInv, ClosesOwnDescriptorOnly
<1> QED
  BY <1>1, <1>2, DescriptorNext, PTL DEF Spec
=============================================================================
