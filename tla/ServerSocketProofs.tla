------------------------- MODULE ServerSocketProofs -------------------------
(***************************************************************************)
(* Proofs about ServerSocket: channels, descriptors and the client map,    *)
(* for any workers, users, channels and descriptors.                       *)
(***************************************************************************)
EXTENDS ServerSocket, FiniteSetTheorems, TLAPS

-----------------------------------------------------------------------------
(* The invariant.                                                          *)

Types ==
    /\ clients \subseteq Channels
    /\ life \in [Channels -> {"none", "alive", "freed"}]
    /\ fd \in [Channels -> Fds \cup {None}]
    /\ fdOwner \in [Fds -> Channels \cup {None}]
    /\ events \in [Channels -> Seq(BOOLEAN)]
    /\ spc = [t \in Threads |-> spc[t]]
    /\ todo = [t \in Threads |-> todo[t]]
    /\ arg \in [Threads -> Fds \cup {None}]
    /\ cur \in [Threads -> Channels \cup {None}]

\* The descriptor of c is open and stands for c.
Open(c) == fd[c] \in Fds /\ fdOwner[fd[c]] = c

\* The disconnect callback has not run for c.
Connected(c) == \A i \in DOMAIN events[c] : events[c][i]

\* No two entries of the disconnect callback.
OneDisconnect(c) == \A i, j \in DOMAIN events[c] : ~events[c][i] /\ ~events[c][j] => i = j

ClosePcs == {"notify", "closeFd", "destroy"}
OpenPcs == {"accepted", "connecting"}

\* A channel of the map is live and in nobody's hands.
ClientInv(c) ==
    /\ life[c] = "alive" /\ Open(c) /\ Connected(c)
    /\ \A t \in Threads : ~Closing(t, c)

\* What a thread holds outside the map is its own.
HandInv(t) ==
    /\ spc[t] \in ClosePcs =>
         /\ cur[t] \in Channels /\ cur[t] \notin clients /\ life[cur[t]] = "alive"
         /\ fd[cur[t]] \in Fds /\ arg[t] = fd[cur[t]]
         /\ spc[t] # "destroy" => Open(cur[t])
         /\ spc[t] = "notify" => Connected(cur[t])
    /\ spc[t] \in OpenPcs =>
         t = Acceptor /\ cur[t] \in Channels /\ life[cur[t]] = "none" /\ Open(cur[t]) /\ Connected(cur[t])

AloneInv == \A s, t \in Threads :
    spc[s] \in ClosePcs /\ spc[t] \in ClosePcs /\ cur[s] = cur[t] => s = t

ChannelInv(c) ==
    /\ OneDisconnect(c)
    /\ fd[c] = None => life[c] = "none" /\ Connected(c)

OwnerInv(f) == fdOwner[f] # None => fd[fdOwner[f]] = f

\* How far the server is, and who can be where.
PhaseInv ==
    /\ started = "no" => spc[Acceptor] = "unstarted" /\ \A f \in Fds : fdOwner[f] = None
    /\ started \in {"no", "accepting"} => \A w \in Workers : spc[w] = "unstarted"
    /\ \A w \in Workers : spc[w] \in {"unstarted", "loop", "locking", "visit", "enter", "inside", "exited"}
    /\ \A o \in Owner : spc[o] # "idle" => ~active

DescriptorInv ==
    /\ AloneInv
    /\ \A c \in clients : ClientInv(c)
    /\ \A t \in Threads : HandInv(t)
    /\ \A c \in Channels : ChannelInv(c)
    /\ \A f \in Fds : OwnerInv(f)
    /\ NoLeakWhileRunning

ServerInv == Types /\ PhaseInv /\ DescriptorInv

\* The accept thread's walk over the map: what it has still to visit is in the
\* map or was erased by a user, and never has the descriptor it is closing.
WalkInv ==
    /\ spc[Acceptor] \in {"scan", "closing"} \cup ClosePcs =>
         /\ todo[Acceptor] \subseteq clients \cup userErased
         /\ \A c, d \in todo[Acceptor] : fd[c] = fd[d] => c = d
    /\ spc[Acceptor] = "closing" =>
         /\ \E c \in clients \cup userErased : fd[c] = arg[Acceptor]
         /\ \A c \in todo[Acceptor] : fd[c] # arg[Acceptor]
    /\ crash = "threadLoop" => todo[Acceptor] \cap userErased # {}
    /\ crash = "terminate" => \E c \in userErased : fd[c] = arg[Acceptor]

AcceptInv == active => WalkInv

-----------------------------------------------------------------------------
(* Types and phases.                                                       *)

\* What Append does to the callbacks of a channel.
LEMMA AppendFacts ==
    ASSUME NEW S, NEW s \in Seq(S), NEW b \in S
    PROVE  /\ Append(s, b) \in Seq(S)
           /\ \A i \in DOMAIN Append(s, b) :
                 \/ i \in DOMAIN s /\ Append(s, b)[i] = s[i]
                 \/ i = Len(s) + 1 /\ Append(s, b)[i] = b
OBVIOUS

\* Append leaves the earlier elements.
LEMMA AppendKeeps ==
    ASSUME NEW S, NEW s \in Seq(S), NEW b \in S, NEW i \in DOMAIN s
    PROVE  Append(s, b)[i] = s[i]
OBVIOUS

\* A connect callback adds no FALSE.
LEMMA AppendTrue ==
    ASSUME NEW s \in Seq(BOOLEAN), NEW i \in DOMAIN Append(s, TRUE), ~Append(s, TRUE)[i]
    PROVE  i \in DOMAIN s /\ ~s[i]
<1>1. CASE i \in DOMAIN s
  <2>1. \A b \in BOOLEAN : Append(s, b)[i] = s[i]
    BY <1>1, AppendKeeps, Zenon
  <2> QED
    BY <1>1, <2>1
<1>2. CASE i \notin DOMAIN s
  <2>1. i = Len(s) + 1
    BY <1>2
  <2>2. Append(s, TRUE)[Len(s) + 1] = TRUE
    OBVIOUS
  <2> QED
    BY <2>1, <2>2
<1> QED
  BY <1>1, <1>2

\* The server starts in the invariant.
LEMMA InitInv == Init => ServerInv /\ AcceptInv
<1> SUFFICES ASSUME Init PROVE ServerInv /\ AcceptInv
  OBVIOUS
<1>1. /\ ~active /\ started = "no" /\ clients = {}
      /\ life = [c \in Channels |-> "none"]
      /\ fd = [c \in Channels |-> None]
      /\ fdOwner = [f \in Fds |-> None]
      /\ events = [c \in Channels |-> <<>>]
      /\ spc = [t \in Threads |-> IF t \in Users \cup Owner THEN "idle" ELSE "unstarted"]
      /\ todo = [t \in Threads |-> {}]
      /\ arg = [t \in Threads |-> None] /\ cur = [t \in Threads |-> None]
  BY DEF Init
<1>2. Types
  BY <1>1 DEF Types
<1>3. PhaseInv
  BY <1>1, DistinctThreads DEF PhaseInv, Threads
<1>4. \A t \in Threads : spc[t] \in {"idle", "unstarted"}
  BY <1>1
<1>5. DescriptorInv
  BY <1>1, <1>4 DEF DescriptorInv, AloneInv, HandInv, ClosePcs, OpenPcs, ChannelInv, OwnerInv,
     OneDisconnect, Connected, NoLeakWhileRunning
<1> QED
  BY <1>1, <1>2, <1>3, <1>5 DEF ServerInv, AcceptInv

\* Every step keeps the types.
LEMMA TypesNext == ServerInv /\ [Next]_vars => Types'
<1> SUFFICES ASSUME ServerInv, [Next]_vars PROVE Types'
  OBVIOUS
<1> Types /\ \A t \in Threads : HandInv(t)
  BY DEF ServerInv, DescriptorInv
<1> USE DEF Types, mapVars, callVars, threadVars, Goto, Release, Visited, Crash
<1>1. ASSUME NEW t \in Threads, LockStep(t) \/ SpuriousWakeup(t) PROVE Types'
  BY <1>1 DEF LockStep, SpuriousWakeup
<1>2. CASE BindAndListen_Accept \/ BindAndListen_Workers
  BY <1>2 DEF BindAndListen_Accept, BindAndListen_Workers
<1>3. ASSUME NEW t \in Threads, CloseClient_Missing(t) PROVE Types'
  BY <1>3 DEF CloseClient_Missing
<1>4. ASSUME NEW t \in Threads, NEW c \in Channels, CloseClient_Erase(t, c) PROVE Types'
  BY <1>4 DEF CloseClient_Erase
<1>5. ASSUME NEW t \in Threads, CloseClient_Notify(t) PROVE Types'
  <2>1. \A e \in Seq(BOOLEAN) : Append(e, FALSE) \in Seq(BOOLEAN)
    BY AppendFacts
  <2> QED
    BY <1>5, <2>1 DEF CloseClient_Notify
<1>6. ASSUME NEW t \in Threads, CloseClient_CloseFd(t) PROVE Types'
  BY <1>6 DEF CloseClient_CloseFd
<1>7. ASSUME NEW t \in Threads, CloseClient_Destroy(t) PROVE Types'
  BY <1>7 DEF CloseClient_Destroy
<1>8. CASE Listen
  <2> Acceptor \in Threads
    BY DEF Threads
  <2>1. CASE Listen_Loop
    BY <2>1 DEF Listen_Loop
  <2>2. ASSUME NEW c \in Channels, ThreadLoop_Gone(c) \/ ThreadLoop_Skip(c) \/ ThreadLoop_Close(c)
        PROVE  Types'
    BY <2>2 DEF ThreadLoop_Gone, ThreadLoop_Skip, ThreadLoop_Close, CloseClient_Call
  <2>3. CASE Listen_Accept
    <3>1. /\ UNCHANGED <<clients, life, events, todo, arg>>
          /\ \E p \in {"loop", "accepted"} : spc' = [spc EXCEPT ![Acceptor] = p]
      BY <2>3 DEF Listen_Accept
    <3>2. CASE UNCHANGED <<fd, fdOwner, cur>>
      BY <3>1, <3>2
    <3>3. ASSUME NEW c \in Channels, NEW f \in Fds, fd' = [fd EXCEPT ![c] = f],
                 fdOwner' = [fdOwner EXCEPT ![f] = c], cur' = [cur EXCEPT ![Acceptor] = c]
          PROVE  Types'
      BY <3>1, <3>3
    <3> QED
      BY <2>3, <3>2, <3>3 DEF Listen_Accept
  <2>4. CASE Listen_Check
    BY <2>4 DEF Listen_Check
  <2>5. CASE OnConnectedClient
    <3>1. cur[Acceptor] \in Channels
      BY <2>5 DEF OnConnectedClient, HandInv, OpenPcs
    <3> QED
      BY <2>5, <3>1 DEF OnConnectedClient
  <2> QED
    BY <1>8, <2>1, <2>2, <2>3, <2>4, <2>5 DEF Listen
<1>9. ASSUME NEW c \in Channels, ConnectCallback(c) PROVE Types'
  <2>1. \A e \in Seq(BOOLEAN) : Append(e, TRUE) \in Seq(BOOLEAN)
    BY AppendFacts
  <2>2. UNCHANGED <<clients, life, fd, fdOwner, spc, todo, arg, cur>>
    BY <1>9 DEF ConnectCallback
  <2>3. events' \in [Channels -> Seq(BOOLEAN)]
    <3>1. CASE UNCHANGED events
      BY <3>1
    <3>2. CASE events' = [events EXCEPT ![c] = Append(@, TRUE)]
      BY <2>1, <3>2
    <3> QED
      BY <1>9, <3>1, <3>2 DEF ConnectCallback
  <2> QED
    BY <2>2, <2>3
<1>10. ASSUME NEW w \in Threads, Worker(w) PROVE Types'
  <2>1. ASSUME NEW c \in Channels, Worker_Visit(w, c) PROVE Types'
    <3>1. /\ UNCHANGED <<clients, life, fd, fdOwner, events, arg>>
          /\ spc' = [spc EXCEPT ![w] = spc'[w]] /\ todo' = [todo EXCEPT ![w] = @ \ {c}]
          /\ cur' = [cur EXCEPT ![w] = IF ChannelIsActive(c) THEN c ELSE None]
      BY <2>1 DEF Worker_Visit
    <3> QED
      BY <3>1
  <2>4. ASSUME NEW c \in Channels, Worker_Gone(w, c) PROVE Types'
    BY <2>4 DEF Worker_Gone
  <2>2. CASE Worker_Loop(w) \/ Worker_Begin(w) \/ Worker_TryLock(w)
    BY <2>2 DEF Worker_Loop, Worker_Begin, Worker_TryLock
  <2>3. CASE Worker_Leave(w) \/ Worker_End(w)
    BY <2>3 DEF Worker_Leave, Worker_End
  <2> QED
    BY <1>10, <2>1, <2>2, <2>3, <2>4 DEF Worker
<1>11. ASSUME NEW u \in Threads, NEW f \in Fds, User_Close(u, f) \/ Write_Call(u, f) PROVE Types'
  BY <1>11 DEF User_Close, CloseClient_Call, Write_Call
<1>12. ASSUME NEW u \in Threads, Write_Find(u) \/ Write_Queue(u) PROVE Types'
  BY <1>12 DEF Write_Find, Write_Queue
<1>13. CASE NotifyStop
  BY <1>13 DEF NotifyStop
<1>14. ASSUME NEW o \in Threads, Destroy_Begin(o) \/ Destroy(o) PROVE Types'
  BY <1>14 DEF Destroy_Begin, Destroy, Destroy_Gone, Destroy_Close, CloseClient_Call, Destroy_Join
<1>15. CASE UNCHANGED vars
  BY <1>15 DEF vars
<1> QED
  BY <1>1, <1>2, <1>3, <1>4, <1>5, <1>6, <1>7, <1>8, <1>9, <1>10, <1>11, <1>12, <1>13, <1>14, <1>15
     DEF Next, Event, Step, CloseClient, Threads

\* No worker closes, no owner acts while the server is active, and the workers
\* wait for bindAndListen.
LEMMA PhaseNext == Types /\ PhaseInv /\ [Next]_vars => PhaseInv'
<1> SUFFICES ASSUME Types, PhaseInv, [Next]_vars PROVE PhaseInv'
  OBVIOUS
<1> USE DistinctThreads DEF PhaseInv, mapVars, callVars, threadVars, Goto, Crash
<1>0. spc = [t \in Threads |-> spc[t]]
  BY DEF Types
<1>a. Acceptor \in Threads /\ Workers \subseteq Threads /\ Owner \subseteq Threads
  BY DEF Threads
<1>1. ASSUME NEW t \in Threads, LockStep(t) \/ SpuriousWakeup(t) PROVE PhaseInv'
  BY <1>1 DEF LockStep, SpuriousWakeup
<1>2. CASE BindAndListen_Accept \/ BindAndListen_Workers
  BY <1>0, <1>a, <1>2 DEF BindAndListen_Accept, BindAndListen_Workers
<1>3. ASSUME NEW t \in Threads, CloseClient(t) PROVE PhaseInv'
  <2>1. UNCHANGED <<active, started>>
    BY <1>3 DEF CloseClient, CloseClient_Missing, CloseClient_Erase, CloseClient_Notify,
       CloseClient_CloseFd, CloseClient_Destroy
  <2>2. spc[t] \in {"closing", "notify", "closeFd", "destroy"}
    BY <1>3 DEF CloseClient, CloseClient_Missing, CloseClient_Erase, CloseClient_Notify,
       CloseClient_CloseFd, CloseClient_Destroy
  <2>3. spc' = [spc EXCEPT ![t] = spc'[t]]
    BY <1>0, <1>3 DEF CloseClient, CloseClient_Missing, CloseClient_Erase, CloseClient_Notify,
       CloseClient_CloseFd, CloseClient_Destroy
  <2>4. started = "no" => \A f \in Fds : fdOwner'[f] = None
    BY <1>3 DEF Types, CloseClient, CloseClient_Missing, CloseClient_Erase, CloseClient_Notify,
       CloseClient_CloseFd, CloseClient_Destroy
  <2>5. t \notin Workers /\ (started = "no" => t # Acceptor)
    BY <2>2
  <2> QED
    BY <1>0, <1>a, <2>1, <2>2, <2>3, <2>4, <2>5
<1>4. CASE Listen
  <2>1. UNCHANGED <<active, started>>
    BY <1>4 DEF Listen, Listen_Loop, ThreadLoop_Gone, ThreadLoop_Skip, ThreadLoop_Close,
       CloseClient_Call, Listen_Accept, Listen_Check, OnConnectedClient
  <2>2. spc[Acceptor] # "unstarted"
    BY <1>4 DEF Listen, Listen_Loop, ThreadLoop_Gone, ThreadLoop_Skip, ThreadLoop_Close,
       CloseClient_Call, Listen_Accept, Listen_Check, OnConnectedClient
  <2>3. \A s \in Threads : s # Acceptor => spc'[s] = spc[s]
    BY <1>0, <1>4 DEF Listen, Listen_Loop, ThreadLoop_Gone, ThreadLoop_Skip, ThreadLoop_Close,
       CloseClient_Call, Listen_Accept, Listen_Check, OnConnectedClient
  <2> QED
    BY <1>a, <2>1, <2>2, <2>3
<1>5. ASSUME NEW c \in Channels, ConnectCallback(c) PROVE PhaseInv'
  BY <1>5 DEF ConnectCallback
<1>6. ASSUME NEW w \in Workers, Worker(w) PROVE PhaseInv'
  <2>1. UNCHANGED <<active, started, fdOwner>>
    BY <1>6 DEF Worker, Worker_Loop, Worker_Begin, Worker_Visit, Worker_Gone, Worker_TryLock, Worker_Leave,
       Worker_End
  <2>2. spc[w] # "unstarted"
    BY <1>6 DEF Worker, Worker_Loop, Worker_Begin, Worker_Visit, Worker_Gone, Worker_TryLock, Worker_Leave,
       Worker_End
  <2>3. \A s \in Threads : s # w => spc'[s] = spc[s]
    BY <1>0, <1>a, <1>6 DEF Worker, Worker_Loop, Worker_Begin, Worker_Visit, Worker_Gone, Worker_TryLock,
       Worker_Leave, Worker_End
  <2>4. spc'[w] \in {"loop", "locking", "visit", "enter", "inside", "exited"}
    BY <1>0, <1>a, <1>6 DEF Worker, Worker_Loop, Worker_Begin, Worker_Visit, Worker_Gone, Worker_TryLock,
       Worker_Leave, Worker_End
  <2> QED
    BY <1>a, <2>1, <2>2, <2>3, <2>4
<1>7. ASSUME NEW u \in Users, NEW f \in Fds, User_Close(u, f) \/ Write_Call(u, f) PROVE PhaseInv'
  BY <1>0, <1>a, <1>7 DEF User_Close, CloseClient_Call, Write_Call
<1>8. ASSUME NEW u \in Users, Write_Find(u) \/ Write_Queue(u) PROVE PhaseInv'
  BY <1>0, <1>a, <1>8 DEF Write_Find, Write_Queue
<1>9. CASE NotifyStop
  BY <1>9 DEF NotifyStop
<1>10. ASSUME NEW o \in Owner, Destroy_Begin(o) PROVE PhaseInv'
  BY <1>0, <1>a, <1>10 DEF Destroy_Begin
<1>11. ASSUME NEW o \in Owner, Destroy(o) PROVE PhaseInv'
  <2>1. UNCHANGED <<active, started, fdOwner>> /\ spc[o] # "idle"
    BY <1>11 DEF Destroy, Destroy_Gone, Destroy_Close, CloseClient_Call, Destroy_Join
  <2>2. \A s \in Threads : s # o => spc'[s] = spc[s]
    BY <1>0, <1>11 DEF Destroy, Destroy_Gone, Destroy_Close, CloseClient_Call, Destroy_Join
  <2> QED
    BY <1>a, <2>1, <2>2
<1>12. CASE UNCHANGED vars
  BY <1>12 DEF vars
<1> QED
  BY <1>1, <1>2, <1>3, <1>4, <1>5, <1>6, <1>7, <1>8, <1>9, <1>10, <1>11, <1>12 DEF Next, Event, Step

-----------------------------------------------------------------------------
(* Descriptors.  Most steps leave the map and the descriptors alone.       *)

\* A step that leaves the map alone and every thread with what it holds.
Calm ==
    /\ UNCHANGED <<clients, life, fd, fdOwner, events>>
    /\ active' => active \/ \A f \in Fds : fdOwner[f] = None
    /\ \A s \in Threads :
         \/ spc'[s] = spc[s] /\ arg'[s] = arg[s] /\ cur'[s] = cur[s]
         \/ spc[s] \notin ClosePcs \cup OpenPcs /\ spc'[s] \notin ClosePcs \cup OpenPcs

\* Calm steps keep the invariant.
LEMMA CalmInv ==
    ASSUME DescriptorInv, Calm
    PROVE  DescriptorInv'
<1>1. /\ UNCHANGED <<clients, life, fd, fdOwner, events>>
      /\ active' => active \/ \A f \in Fds : fdOwner[f] = None
      /\ \A s \in Threads :
           \/ spc'[s] = spc[s] /\ arg'[s] = arg[s] /\ cur'[s] = cur[s]
           \/ spc[s] \notin ClosePcs \cup OpenPcs /\ spc'[s] \notin ClosePcs \cup OpenPcs
  BY DEF Calm
<1>2. AloneInv'
  BY <1>1 DEF DescriptorInv, AloneInv
<1>3. ASSUME NEW c \in clients' PROVE ClientInv(c)'
  BY <1>1 DEF DescriptorInv, ClientInv, Open, Connected, Closing, ClosePcs
<1>4. ASSUME NEW s \in Threads PROVE HandInv(s)'
  BY <1>1 DEF DescriptorInv, HandInv, Open, Connected
<1>5. ASSUME NEW c \in Channels PROVE ChannelInv(c)'
  BY <1>1 DEF DescriptorInv, ChannelInv, OneDisconnect, Connected
<1>6. ASSUME NEW f \in Fds PROVE OwnerInv(f)'
  BY <1>1 DEF DescriptorInv, OwnerInv
<1>7. NoLeakWhileRunning'
  <2> SUFFICES ASSUME active', NEW f \in Fds, fdOwner[f] # None, fdOwner[f] \notin clients
               PROVE  \E s \in Threads : cur'[s] = fdOwner[f]
                        /\ spc'[s] \in {"accepted", "connecting", "notify", "closeFd"}
    BY <1>1 DEF NoLeakWhileRunning
  <2>1. PICK s \in Threads : cur[s] = fdOwner[f]
                        /\ spc[s] \in {"accepted", "connecting", "notify", "closeFd"}
    BY <1>1 DEF DescriptorInv, NoLeakWhileRunning
  <2> QED
    BY <1>1, <2>1 DEF ClosePcs, OpenPcs
<1> QED
  BY <1>2, <1>3, <1>4, <1>5, <1>6, <1>7 DEF DescriptorInv

\* The steps of bindAndListen: no descriptor is open before it, and no worker
\* has begun.
LEMMA BindCalm ==
    ASSUME ServerInv, BindAndListen_Accept \/ BindAndListen_Workers
    PROVE  Calm
<1> USE DEF ServerInv, mapVars, callVars, Goto
<1>0. spc = [t \in Threads |-> spc[t]]
  BY DEF Types
<1>1. CASE BindAndListen_Accept
  <2>1. UNCHANGED <<clients, life, fd, fdOwner, events, arg, cur>> /\ started = "no"
    BY <1>1 DEF BindAndListen_Accept
  <2>2. \A f \in Fds : fdOwner[f] = None
    BY <2>1 DEF PhaseInv
  <2>3. \/ UNCHANGED spc
        \/ spc[Acceptor] = "unstarted" /\ spc' = [spc EXCEPT ![Acceptor] = "loop"]
    BY <1>1 DEF BindAndListen_Accept
  <2> QED
    BY <1>0, <2>1, <2>2, <2>3 DEF Calm, ClosePcs, OpenPcs
<1>2. CASE BindAndListen_Workers
  <2>1. UNCHANGED <<active, clients, life, fd, fdOwner, events, arg, cur>> /\ started = "accepting"
    BY <1>2 DEF BindAndListen_Workers
  <2>2. \A w \in Workers : spc[w] = "unstarted"
    BY <2>1 DEF PhaseInv
  <2>3. \/ UNCHANGED spc
        \/ spc' = [t \in Threads |-> IF t \in Workers THEN "loop" ELSE spc[t]]
    BY <1>2 DEF BindAndListen_Workers
  <2> QED
    BY <1>0, <2>1, <2>2, <2>3 DEF Calm, ClosePcs, OpenPcs
<1> QED
  BY <1>1, <1>2

\* Steps inside the lock, calls of closeClient and write, the workers, and
\* what the accept thread and the destructor do between two of their calls.
LEMMA ThreadCalm ==
    ASSUME ServerInv, NEW t \in Threads,
           \/ LockStep(t) \/ SpuriousWakeup(t) \/ NotifyStop
           \/ CloseClient_Missing(t)
           \/ \E f \in Fds : User_Close(t, f) \/ Write_Call(t, f)
           \/ Write_Find(t) \/ Write_Queue(t)
           \/ Worker(t)
           \/ t = Acceptor /\ Listen_Loop
           \/ t = Acceptor /\ \E c \in Channels :
                ThreadLoop_Gone(c) \/ ThreadLoop_Skip(c) \/ ThreadLoop_Close(c)
           \/ Destroy_Begin(t) \/ (\E c \in Channels : Destroy_Gone(t, c) \/ Destroy_Close(t, c))
    PROVE  Calm
<1> DEFINE Moves(p, q) ==
      /\ UNCHANGED <<clients, life, fd, fdOwner, events>> /\ (active' => active)
      /\ spc[t] = p /\ spc' = [spc EXCEPT ![t] = q]
      /\ arg' = [arg EXCEPT ![t] = arg'[t]] /\ cur' = [cur EXCEPT ![t] = cur'[t]]
<1> DEFINE Stays ==
      UNCHANGED <<clients, life, fd, fdOwner, events, spc, arg, cur>> /\ (active' => active)
<1>0. /\ spc = [s \in Threads |-> spc[s]]
      /\ arg = [s \in Threads |-> arg[s]]
      /\ cur = [s \in Threads |-> cur[s]]
  BY DEF ServerInv, Types
<1>1. ASSUME NEW p, NEW q, p \notin ClosePcs \cup OpenPcs, q \notin ClosePcs \cup OpenPcs, Moves(p, q)
      PROVE  Calm
  BY <1>0, <1>1 DEF Calm
<1>2. ASSUME Stays PROVE Calm
  BY <1>2 DEF Calm
<1> HIDE DEF Moves, Stays
<1>3. CASE LockStep(t) \/ SpuriousWakeup(t) \/ NotifyStop
  BY <1>3, <1>2 DEF LockStep, SpuriousWakeup, NotifyStop, Stays, mapVars, callVars, threadVars
<1>4. CASE CloseClient_Missing(t)
  <2>1. CASE t \in Users
    <3>1. Moves("closing", "idle")
      BY <1>0, <1>4, <2>1 DEF CloseClient_Missing, Goto, Release, mapVars, callVars, Moves
    <3> QED
      BY <3>1, <1>1 DEF ClosePcs, OpenPcs
  <2>2. CASE t \notin Users
    BY <1>4, <2>2, <1>2 DEF CloseClient_Missing, Crash, mapVars, callVars, threadVars, Stays
  <2> QED
    BY <2>1, <2>2
<1>5. ASSUME NEW f, NEW p \in {"idle", "scan", "close"}, CloseClient_Call(t, p, f)
      PROVE  Calm
  <2>1. Moves(p, "closing")
    BY <1>0, <1>5 DEF CloseClient_Call, Goto, mapVars, callVars, Moves
  <2> QED
    BY <2>1, <1>1 DEF ClosePcs, OpenPcs
<1>6. ASSUME NEW f \in Fds, Write_Call(t, f) PROVE Calm
  <2>1. Moves("idle", "writing")
    BY <1>0, <1>6 DEF Write_Call, Goto, mapVars, callVars, Moves
  <2> QED
    BY <2>1, <1>1 DEF ClosePcs, OpenPcs
<1>7. CASE Write_Find(t)
  <2>1. Moves("writing", "queueWrite") \/ Moves("writing", "idle")
    BY <1>0, <1>7 DEF Write_Find, Goto, Release, mapVars, callVars, Moves
  <2> QED
    BY <2>1, <1>1 DEF ClosePcs, OpenPcs
<1>8. CASE Write_Queue(t)
  <2>1. Moves("queueWrite", "idle") \/ Stays
    BY <1>0, <1>8 DEF Write_Queue, Goto, Release, Crash, mapVars, callVars, threadVars, Moves, Stays
  <2> QED
    BY <2>1, <1>1, <1>2 DEF ClosePcs, OpenPcs
<1>9. CASE Worker(t)
  <2>1. CASE Worker_Loop(t)
    <3>1. Moves("loop", "locking") \/ Moves("loop", "exited")
      BY <1>0, <2>1 DEF Worker_Loop, Goto, mapVars, callVars, Moves
    <3> QED
      BY <3>1, <1>1 DEF ClosePcs, OpenPcs
  <2>2. CASE Worker_Begin(t)
    <3>1. Moves("locking", "visit")
      BY <1>0, <2>2 DEF Worker_Begin, Goto, mapVars, callVars, Moves
    <3> QED
      BY <3>1, <1>1 DEF ClosePcs, OpenPcs
  <2>3. ASSUME NEW c \in Channels, Worker_Visit(t, c) \/ Worker_Gone(t, c) PROVE Calm
    <3>1. Moves("visit", "enter") \/ Moves("visit", "visit") \/ Stays
      BY <1>0, <2>3 DEF Worker_Visit, Worker_Gone, Visited, Crash, mapVars, callVars, threadVars, Moves,
         Stays
    <3> QED
      BY <3>1, <1>1, <1>2 DEF ClosePcs, OpenPcs
  <2>4. CASE Worker_TryLock(t)
    <3>1. Moves("enter", "inside") \/ Moves("enter", "visit") \/ Stays
      BY <1>0, <2>4 DEF Worker_TryLock, Goto, Release, Crash, mapVars, callVars, threadVars, Moves,
         Stays
    <3> QED
      BY <3>1, <1>1, <1>2 DEF ClosePcs, OpenPcs
  <2>5. CASE Worker_Leave(t)
    <3>1. Moves("inside", "visit")
      BY <1>0, <2>5 DEF Worker_Leave, Goto, Release, mapVars, callVars, Moves
    <3> QED
      BY <3>1, <1>1 DEF ClosePcs, OpenPcs
  <2>6. CASE Worker_End(t)
    <3>1. Moves("visit", "loop")
      BY <1>0, <2>6 DEF Worker_End, Goto, mapVars, callVars, Moves
    <3> QED
      BY <3>1, <1>1 DEF ClosePcs, OpenPcs
  <2> QED
    BY <1>9, <2>1, <2>2, <2>3, <2>4, <2>5, <2>6 DEF Worker
<1>10. CASE t = Acceptor /\ Listen_Loop
  <2>1. Moves("loop", "scan") \/ Moves("loop", "exited")
    BY <1>0, <1>10 DEF Listen_Loop, Goto, mapVars, callVars, Moves
  <2> QED
    BY <2>1, <1>1 DEF ClosePcs, OpenPcs
<1>11. ASSUME t = Acceptor, NEW c \in Channels, ThreadLoop_Gone(c) \/ ThreadLoop_Skip(c)
       PROVE  Calm
  BY <1>11, <1>2 DEF ThreadLoop_Gone, ThreadLoop_Skip, Visited, Crash, mapVars, callVars, threadVars, Stays
<1>12. CASE Destroy_Begin(t)
  <2>1. Moves("idle", "close")
    BY <1>0, <1>12 DEF Destroy_Begin, Goto, mapVars, callVars, Moves
  <2> QED
    BY <2>1, <1>1 DEF ClosePcs, OpenPcs
<1>13. ASSUME NEW c \in Channels, Destroy_Gone(t, c) PROVE Calm
  BY <1>13, <1>2 DEF Destroy_Gone, Visited, Crash, mapVars, callVars, threadVars, Stays
<1> QED
  BY <1>3, <1>4, <1>5, <1>6, <1>7, <1>8, <1>9, <1>10, <1>11, <1>12, <1>13
     DEF User_Close, ThreadLoop_Close, Destroy_Close

-----------------------------------------------------------------------------
(* The steps that change the map, a descriptor or the callbacks.           *)

\* closeClient takes a channel out of the map into the hands of its thread.
LEMMA EraseInv ==
    ASSUME ServerInv, NEW t \in Threads, NEW c \in Channels, CloseClient_Erase(t, c)
    PROVE  DescriptorInv'
<1>0. Types /\ DescriptorInv
  BY DEF ServerInv
<1>1. /\ UNCHANGED <<active, life, fd, fdOwner, events, arg>>
      /\ clients' = clients \ {c} /\ c \in clients /\ fd[c] = arg[t]
      /\ spc[t] = "closing"
  BY DEF CloseClient_Erase, Goto, callVars
<1>2. spc'[t] = "notify" /\ cur'[t] = c
  BY <1>0 DEF CloseClient_Erase, Goto, Types
<1>3. \A s \in Threads : s # t => spc'[s] = spc[s] /\ cur'[s] = cur[s]
  BY <1>0 DEF CloseClient_Erase, Goto, Types
<1>4. ClientInv(c) /\ \A s \in Threads : s # t => HandInv(s)
  BY <1>0, <1>1 DEF DescriptorInv
<1>5. AloneInv'
  BY <1>0, <1>1, <1>2, <1>3, <1>4 DEF DescriptorInv, AloneInv, ClientInv, Closing, ClosePcs
<1>6. ASSUME NEW d \in clients' PROVE ClientInv(d)'
  BY <1>0, <1>1, <1>2, <1>3, <1>6 DEF DescriptorInv, ClientInv, Open, Connected, Closing
<1>7. ASSUME NEW s \in Threads PROVE HandInv(s)'
  BY <1>0, <1>1, <1>2, <1>3, <1>4 DEF ClientInv, HandInv, Open, Connected, ClosePcs, OpenPcs
<1>8. ASSUME NEW d \in Channels PROVE ChannelInv(d)'
  BY <1>0, <1>1 DEF DescriptorInv, ChannelInv, OneDisconnect, Connected
<1>9. ASSUME NEW f \in Fds PROVE OwnerInv(f)'
  BY <1>0, <1>1 DEF DescriptorInv, OwnerInv
<1>10. NoLeakWhileRunning'
  BY <1>0, <1>1, <1>2, <1>3 DEF DescriptorInv, NoLeakWhileRunning
<1> QED
  BY <1>5, <1>6, <1>7, <1>8, <1>9, <1>10 DEF DescriptorInv

\* The disconnect callback runs for a channel that no other thread holds and
\* that is not in the map.
LEMMA NotifyInv ==
    ASSUME ServerInv, NEW t \in Threads, CloseClient_Notify(t)
    PROVE  DescriptorInv'
<1>0. Types /\ DescriptorInv
  BY DEF ServerInv
<1>1. /\ UNCHANGED <<active, clients, life, fd, fdOwner, arg, cur>>
      /\ spc[t] = "notify"
  BY DEF CloseClient_Notify, Goto, mapVars
<1> DEFINE c == cur[t]
<1>2. c \in Channels /\ c \notin clients /\ life[c] = "alive" /\ Open(c) /\ Connected(c)
  BY <1>0, <1>1 DEF DescriptorInv, HandInv, ClosePcs
<1>3. spc'[t] = "closeFd" /\ \A s \in Threads : s # t => spc'[s] = spc[s]
  BY <1>0 DEF CloseClient_Notify, Goto, Types
<1>4. events'[c] = Append(events[c], FALSE) /\ \A d \in Channels : d # c => events'[d] = events[d]
  BY <1>0, <1>2 DEF CloseClient_Notify, Types
<1>5. \A s \in Threads : s # t /\ spc[s] \in ClosePcs \cup OpenPcs => cur[s] # c
  BY <1>0, <1>1, <1>2 DEF DescriptorInv, AloneInv, HandInv, ClosePcs
<1>6. AloneInv'
  BY <1>0, <1>1, <1>3 DEF DescriptorInv, AloneInv, ClosePcs
<1>7. ASSUME NEW d \in clients' PROVE ClientInv(d)'
  <2>1. d \in clients /\ d \in Channels /\ d # c
    BY <1>0, <1>1, <1>2, <1>7 DEF Types
  <2>2. \A s \in Threads : ~Closing(s, d)'
    BY <1>0, <1>1, <1>3, <2>1 DEF DescriptorInv, ClientInv, Closing
  <2> QED
    BY <1>0, <1>1, <1>4, <2>1, <2>2 DEF DescriptorInv, ClientInv, Open, Connected
<1>8. ASSUME NEW s \in Threads PROVE HandInv(s)'
  <2>1. CASE s = t
    BY <1>0, <1>1, <1>2, <1>3, <2>1 DEF DescriptorInv, HandInv, Open, ClosePcs, OpenPcs
  <2>2. CASE s # t
    BY <1>0, <1>1, <1>3, <1>4, <1>5, <2>2 DEF DescriptorInv, HandInv, Open, Connected
  <2> QED
    BY <2>1, <2>2
<1>9. ASSUME NEW d \in Channels PROVE ChannelInv(d)'
  <2>1. CASE d # c
    BY <1>0, <1>1, <1>4, <2>1 DEF DescriptorInv, ChannelInv, OneDisconnect, Connected
  <2>2. CASE d = c
    <3>1. fd'[d] # None
      BY <1>1, <1>2, <2>2, DistinctThreads DEF Open
    <3>2. events[c] \in Seq(BOOLEAN)
      BY <1>0, <1>2 DEF Types
    <3>3. \A i \in DOMAIN events'[c] : events'[c][i] \/ i = Len(events[c]) + 1
      BY <1>2, <1>4, <3>2, AppendFacts DEF Connected
    <3> QED
      BY <2>2, <3>1, <3>3 DEF ChannelInv, OneDisconnect
  <2> QED
    BY <2>1, <2>2
<1>10. ASSUME NEW f \in Fds PROVE OwnerInv(f)'
  BY <1>0, <1>1 DEF DescriptorInv, OwnerInv
<1>11. NoLeakWhileRunning'
  BY <1>0, <1>1, <1>3 DEF DescriptorInv, NoLeakWhileRunning
<1> QED
  BY <1>6, <1>7, <1>8, <1>9, <1>10, <1>11 DEF DescriptorInv

\* ::close frees the number of a channel that no other thread and no entry of
\* the map stands for.
LEMMA CloseFdInv ==
    ASSUME ServerInv, NEW t \in Threads, CloseClient_CloseFd(t)
    PROVE  DescriptorInv'
<1>0. Types /\ DescriptorInv
  BY DEF ServerInv
<1>1. /\ UNCHANGED <<active, clients, life, fd, events, arg, cur>>
      /\ spc[t] = "closeFd"
  BY DEF CloseClient_CloseFd, Goto, callVars
<1>2. cur[t] \in Channels /\ cur[t] \notin clients /\ life[cur[t]] = "alive" /\ Open(cur[t])
      /\ arg[t] = fd[cur[t]] /\ arg[t] \in Fds
  BY <1>0, <1>1 DEF DescriptorInv, HandInv, ClosePcs
<1>3. spc'[t] = "destroy" /\ \A s \in Threads : s # t => spc'[s] = spc[s]
  BY <1>0 DEF CloseClient_CloseFd, Goto, Types
<1>4. fdOwner'[arg[t]] = None /\ \A f \in Fds : f # arg[t] => fdOwner'[f] = fdOwner[f]
  BY <1>0, <1>2 DEF CloseClient_CloseFd, Types
<1>5. \A s \in Threads : s # t /\ spc[s] \in ClosePcs \cup OpenPcs => cur[s] # cur[t]
  BY <1>0, <1>1, <1>2 DEF DescriptorInv, AloneInv, HandInv, ClosePcs
<1>6. \A d \in Channels : Open(d) /\ d # cur[t] => Open(d)'
  BY <1>1, <1>2, <1>4 DEF Open
<1>7. AloneInv'
  BY <1>0, <1>1, <1>3 DEF DescriptorInv, AloneInv, ClosePcs
<1>8. ASSUME NEW d \in clients' PROVE ClientInv(d)'
  <2>1. d \in clients /\ d \in Channels /\ d # cur[t]
    BY <1>0, <1>1, <1>2, <1>8 DEF Types
  <2>2. \A s \in Threads : ~Closing(s, d)'
    BY <1>0, <1>1, <1>3, <2>1 DEF DescriptorInv, ClientInv, Closing
  <2> QED
    BY <1>0, <1>1, <1>6, <2>1, <2>2 DEF DescriptorInv, ClientInv, Connected
<1>9. ASSUME NEW s \in Threads PROVE HandInv(s)'
  <2>1. CASE s = t
    BY <1>0, <1>1, <1>2, <1>3, <2>1 DEF DescriptorInv, HandInv, ClosePcs, OpenPcs
  <2>2. CASE s # t
    BY <1>0, <1>1, <1>3, <1>5, <1>6, <2>2 DEF DescriptorInv, HandInv, Connected
  <2> QED
    BY <2>1, <2>2
<1>10. ASSUME NEW d \in Channels PROVE ChannelInv(d)'
  BY <1>0, <1>1 DEF DescriptorInv, ChannelInv, OneDisconnect, Connected
<1>11. ASSUME NEW f \in Fds PROVE OwnerInv(f)'
  BY <1>0, <1>1, <1>4 DEF DescriptorInv, OwnerInv
<1>12. NoLeakWhileRunning'
  <2> SUFFICES ASSUME active', NEW f \in Fds, fdOwner'[f] # None, fdOwner'[f] \notin clients'
               PROVE  \E s \in Threads : cur'[s] = fdOwner'[f]
                        /\ spc'[s] \in {"accepted", "connecting", "notify", "closeFd"}
    BY DEF NoLeakWhileRunning
  <2>1. f # arg[t] /\ fdOwner'[f] = fdOwner[f]
    BY <1>4
  <2>2. PICK s \in Threads : cur[s] = fdOwner[f]
                        /\ spc[s] \in {"accepted", "connecting", "notify", "closeFd"}
    BY <1>0, <1>1, <2>1 DEF DescriptorInv, NoLeakWhileRunning
  <2>3. fd[fdOwner[f]] = f
    BY <1>0, <2>1 DEF DescriptorInv, OwnerInv
  <2>4. s # t
    BY <1>2, <2>1, <2>2, <2>3
  <2> QED
    BY <1>1, <1>3, <2>1, <2>2, <2>4
<1> QED
  BY <1>7, <1>8, <1>9, <1>10, <1>11, <1>12 DEF DescriptorInv

\* ~Channel.
LEMMA DestroyInv ==
    ASSUME ServerInv, NEW t \in Threads, CloseClient_Destroy(t)
    PROVE  DescriptorInv'
<1>0. Types /\ DescriptorInv
  BY DEF ServerInv
<1>1. /\ UNCHANGED <<active, clients, fd, fdOwner, events>>
      /\ spc[t] = "destroy"
  BY DEF CloseClient_Destroy, Goto, callVars
<1>2. cur[t] \in Channels /\ cur[t] \notin clients /\ life[cur[t]] = "alive" /\ fd[cur[t]] \in Fds
  BY <1>0, <1>1 DEF DescriptorInv, HandInv, ClosePcs
<1>3. spc'[t] \in {"scan", "close", "idle"} /\ \A s \in Threads : s # t => spc'[s] = spc[s]
  BY <1>0 DEF CloseClient_Destroy, Goto, Types
<1>4. \A s \in Threads : s # t => arg'[s] = arg[s] /\ cur'[s] = cur[s]
  BY <1>0 DEF CloseClient_Destroy, Release, Types
<1>5. \A d \in Channels : d # cur[t] => life'[d] = life[d]
  BY <1>0 DEF CloseClient_Destroy, Types
<1>6. \A s \in Threads : s # t /\ spc[s] \in ClosePcs \cup OpenPcs => cur[s] # cur[t]
  BY <1>0, <1>1, <1>2 DEF DescriptorInv, AloneInv, HandInv, ClosePcs
<1>7. AloneInv'
  BY <1>0, <1>3, <1>4 DEF DescriptorInv, AloneInv, ClosePcs
<1>8. ASSUME NEW d \in clients' PROVE ClientInv(d)'
  <2>1. d \in clients /\ d \in Channels /\ d # cur[t]
    BY <1>0, <1>1, <1>2, <1>8 DEF Types
  <2>2. \A s \in Threads : ~Closing(s, d)'
    BY <1>0, <1>3, <1>4, <2>1 DEF DescriptorInv, ClientInv, Closing
  <2> QED
    BY <1>0, <1>1, <1>5, <2>1, <2>2 DEF DescriptorInv, ClientInv, Connected, Open
<1>9. ASSUME NEW s \in Threads PROVE HandInv(s)'
  <2>1. CASE s = t
    BY <1>3, <2>1 DEF HandInv, ClosePcs, OpenPcs
  <2>2. CASE s # t
    BY <1>0, <1>1, <1>3, <1>4, <1>5, <1>6, <2>2 DEF DescriptorInv, HandInv, Connected, Open
  <2> QED
    BY <2>1, <2>2
<1>10. ASSUME NEW d \in Channels PROVE ChannelInv(d)'
  BY <1>0, <1>1, <1>2, <1>5, DistinctThreads DEF DescriptorInv, ChannelInv, OneDisconnect, Connected
<1>11. ASSUME NEW f \in Fds PROVE OwnerInv(f)'
  BY <1>0, <1>1 DEF DescriptorInv, OwnerInv
<1>12. NoLeakWhileRunning'
  BY <1>0, <1>1, <1>3, <1>4 DEF DescriptorInv, NoLeakWhileRunning
<1> QED
  BY <1>7, <1>8, <1>9, <1>10, <1>11, <1>12 DEF DescriptorInv

\* accept4 takes a free number for a new connection.
LEMMA AcceptStepInv ==
    ASSUME ServerInv, Listen_Accept
    PROVE  DescriptorInv'
<1>0. Types /\ DescriptorInv /\ Acceptor \in Threads
  BY DEF ServerInv, Threads
<1>1. UNCHANGED <<active, clients, life, events, arg>> /\ spc[Acceptor] = "scan"
  BY DEF Listen_Accept, Goto, callVars
<1>2. \A s \in Threads : s # Acceptor => spc'[s] = spc[s]
  BY <1>0 DEF Listen_Accept, Goto, Types
<1>3. CASE UNCHANGED <<fd, fdOwner, cur>> /\ spc' = [spc EXCEPT ![Acceptor] = "loop"]
  <2>1. Calm
    BY <1>0, <1>1, <1>2, <1>3 DEF Types, Calm, ClosePcs, OpenPcs
  <2> QED
    BY <1>0, <2>1, CalmInv
<1>4. ASSUME NEW c \in Channels, NEW f \in Fds, fd[c] = None, fdOwner[f] = None,
             spc' = [spc EXCEPT ![Acceptor] = "accepted"],
             fd' = [fd EXCEPT ![c] = f], fdOwner' = [fdOwner EXCEPT ![f] = c],
             cur' = [cur EXCEPT ![Acceptor] = c]
      PROVE  DescriptorInv'
  <2>1. spc'[Acceptor] = "accepted" /\ cur'[Acceptor] = c
    BY <1>0, <1>4 DEF Types
  <2>2. \A s \in Threads : s # Acceptor => cur'[s] = cur[s]
    BY <1>0, <1>4 DEF Types
  <2>3. fd'[c] = f /\ \A d \in Channels : d # c => fd'[d] = fd[d]
    BY <1>0, <1>4 DEF Types
  <2>4. fdOwner'[f] = c /\ \A g \in Fds : g # f => fdOwner'[g] = fdOwner[g]
    BY <1>0, <1>4 DEF Types
  <2>5. life[c] = "none" /\ Connected(c) /\ OneDisconnect(c)
    BY <1>0, <1>4 DEF DescriptorInv, ChannelInv
  <2>6. c \notin clients
    BY <1>0, <2>5 DEF DescriptorInv, ClientInv
  <2>7. \A d \in Channels : Open(d) => d # c /\ fd[d] # f /\ Open(d)'
    BY <1>4, <2>3, <2>4, DistinctThreads DEF Open
  <2>8. \A s \in Threads : s # Acceptor /\ spc[s] \in ClosePcs \cup OpenPcs => cur[s] # c
    BY <1>0, <2>5 DEF DescriptorInv, HandInv, ClosePcs
  <2>9. AloneInv'
    BY <1>0, <1>2, <2>1, <2>2 DEF DescriptorInv, AloneInv, ClosePcs
  <2>10. ASSUME NEW d \in clients' PROVE ClientInv(d)'
    <3>1. d \in clients /\ d \in Channels
      BY <1>0, <1>1, <2>10 DEF Types
    <3>2. \A s \in Threads : ~Closing(s, d)'
      BY <1>0, <1>2, <2>1, <2>2, <3>1 DEF DescriptorInv, ClientInv, Closing
    <3> QED
      BY <1>0, <1>1, <2>7, <3>1, <3>2 DEF DescriptorInv, ClientInv, Connected
  <2>11. ASSUME NEW s \in Threads PROVE HandInv(s)'
    <3>1. CASE s = Acceptor
      BY <1>1, <2>1, <2>3, <2>4, <2>5, <3>1 DEF HandInv, Open, Connected, ClosePcs
    <3>2. CASE s # Acceptor
      <4>1. spc[s] \notin OpenPcs
        BY <1>0, <3>2 DEF DescriptorInv, HandInv
      <4> QED
        BY <1>0, <1>1, <1>2, <2>2, <2>3, <2>7, <2>8, <3>2, <4>1
           DEF DescriptorInv, HandInv, Connected
    <3> QED
      BY <3>1, <3>2
  <2>12. ASSUME NEW d \in Channels PROVE ChannelInv(d)'
    BY <1>0, <1>1, <2>3, <2>5 DEF DescriptorInv, ChannelInv, OneDisconnect, Connected
  <2>13. ASSUME NEW g \in Fds PROVE OwnerInv(g)'
    <3>1. CASE g = f
      BY <2>3, <2>4, <3>1 DEF OwnerInv
    <3>2. CASE g # f
      <4>1. fdOwner[g] # None => fdOwner[g] \in Channels /\ fd[fdOwner[g]] = g
        BY <1>0 DEF Types, DescriptorInv, OwnerInv
      <4>2. fdOwner[g] # c
        BY <1>4, <4>1, DistinctThreads
      <4> QED
        BY <2>3, <2>4, <3>2, <4>1, <4>2 DEF OwnerInv
    <3> QED
      BY <3>1, <3>2
  <2>14. NoLeakWhileRunning'
    <3> SUFFICES ASSUME active', NEW g \in Fds, fdOwner'[g] # None, fdOwner'[g] \notin clients'
                 PROVE  \E s \in Threads : cur'[s] = fdOwner'[g]
                          /\ spc'[s] \in {"accepted", "connecting", "notify", "closeFd"}
      BY DEF NoLeakWhileRunning
    <3>1. CASE g = f
      BY <1>0, <2>1, <2>4, <3>1
    <3>2. CASE g # f
      <4>1. PICK s \in Threads : cur[s] = fdOwner[g]
                          /\ spc[s] \in {"accepted", "connecting", "notify", "closeFd"}
        BY <1>0, <1>1, <2>4, <3>2 DEF DescriptorInv, NoLeakWhileRunning
      <4>2. s # Acceptor
        BY <1>1, <4>1
      <4> QED
        BY <1>2, <2>2, <2>4, <3>2, <4>1, <4>2
    <3> QED
      BY <3>1, <3>2
  <2> QED
    BY <2>9, <2>10, <2>11, <2>12, <2>13, <2>14 DEF DescriptorInv
<1> QED
  BY <1>3, <1>4 DEF Listen_Accept, Goto

\* An accepted connection is dropped only by a server that was stopped.
LEMMA CheckInv ==
    ASSUME ServerInv, Listen_Check
    PROVE  DescriptorInv'
<1>0. Types /\ DescriptorInv /\ Acceptor \in Threads
  BY DEF ServerInv, Threads
<1>1. UNCHANGED <<active, clients, life, fd, fdOwner, events, arg, cur>> /\ spc[Acceptor] = "accepted"
  BY DEF Listen_Check, Goto, mapVars, callVars
<1>2. \A s \in Threads : s # Acceptor => spc'[s] = spc[s]
  BY <1>0 DEF Listen_Check, Goto, Types
<1>3. spc'[Acceptor] = IF active THEN "connecting" ELSE "exited"
  BY <1>0 DEF Listen_Check, Goto, Types
<1>4. AloneInv'
  BY <1>0, <1>1, <1>2, <1>3 DEF DescriptorInv, AloneInv, ClosePcs
<1>5. ASSUME NEW d \in clients' PROVE ClientInv(d)'
  BY <1>0, <1>1, <1>2, <1>3 DEF DescriptorInv, ClientInv, Connected, Open, Closing
<1>6. ASSUME NEW s \in Threads PROVE HandInv(s)'
  BY <1>0, <1>1, <1>2, <1>3 DEF DescriptorInv, HandInv, Connected, Open, ClosePcs, OpenPcs
<1>7. ASSUME NEW d \in Channels PROVE ChannelInv(d)'
  BY <1>0, <1>1 DEF DescriptorInv, ChannelInv, OneDisconnect, Connected
<1>8. ASSUME NEW f \in Fds PROVE OwnerInv(f)'
  BY <1>0, <1>1 DEF DescriptorInv, OwnerInv
<1>9. NoLeakWhileRunning'
  BY <1>0, <1>1, <1>2, <1>3 DEF DescriptorInv, NoLeakWhileRunning
<1> QED
  BY <1>4, <1>5, <1>6, <1>7, <1>8, <1>9 DEF DescriptorInv

\* onConnectedClient finds no entry with the new number, and adds one.
LEMMA ConnectedInv ==
    ASSUME ServerInv, OnConnectedClient
    PROVE  DescriptorInv'
<1>0. Types /\ DescriptorInv /\ Acceptor \in Threads
  BY DEF ServerInv, Threads
<1>1. UNCHANGED <<active, fd, fdOwner, events>> /\ spc[Acceptor] = "connecting"
  BY DEF OnConnectedClient, Goto
<1> DEFINE c == cur[Acceptor]
<1>2. c \in Channels /\ life[c] = "none" /\ Open(c) /\ Connected(c)
  BY <1>0, <1>1 DEF DescriptorInv, HandInv, OpenPcs
<1>3. c \notin clients /\ \A d \in clients : fd[d] # fd[c]
  BY <1>0, <1>2 DEF DescriptorInv, ClientInv, Open
<1>4. clients' = clients \cup {c} /\ life' = [life EXCEPT ![c] = "alive"]
  BY <1>3 DEF OnConnectedClient
<1>5. life'[c] = "alive" /\ \A d \in Channels : d # c => life'[d] = life[d]
  BY <1>0, <1>2, <1>4 DEF Types
<1>6. spc'[Acceptor] = "loop" /\ \A s \in Threads : s # Acceptor => spc'[s] = spc[s]
  BY <1>0 DEF OnConnectedClient, Goto, Types
<1>7. \A s \in Threads : s # Acceptor => arg'[s] = arg[s] /\ cur'[s] = cur[s]
  BY <1>0 DEF OnConnectedClient, Release, Types
<1>8. \A s \in Threads : s # Acceptor => spc[s] \notin OpenPcs /\ (spc[s] \in ClosePcs => cur[s] # c)
  BY <1>0, <1>2 DEF DescriptorInv, HandInv
<1>9. AloneInv'
  BY <1>0, <1>6, <1>7 DEF DescriptorInv, AloneInv, ClosePcs
<1>10. ASSUME NEW d \in clients' PROVE ClientInv(d)'
  <2>1. CASE d = c
    BY <1>1, <1>2, <1>5, <1>6, <1>7, <1>8, <2>1
       DEF ClientInv, Connected, Open, Closing, ClosePcs
  <2>2. CASE d # c
    <3>1. d \in clients /\ d \in Channels
      BY <1>0, <1>4, <1>10, <2>2 DEF Types
    <3>2. \A s \in Threads : ~Closing(s, d)'
      BY <1>0, <1>6, <1>7, <3>1 DEF DescriptorInv, ClientInv, Closing
    <3> QED
      BY <1>0, <1>1, <1>5, <2>2, <3>1, <3>2 DEF DescriptorInv, ClientInv, Connected, Open
  <2> QED
    BY <2>1, <2>2
<1>11. ASSUME NEW s \in Threads PROVE HandInv(s)'
  <2>1. CASE s = Acceptor
    BY <1>6, <2>1 DEF HandInv, ClosePcs, OpenPcs
  <2>2. CASE s # Acceptor
    BY <1>0, <1>1, <1>4, <1>5, <1>6, <1>7, <1>8, <2>2 DEF DescriptorInv, HandInv, Connected, Open
  <2> QED
    BY <2>1, <2>2
<1>12. ASSUME NEW d \in Channels PROVE ChannelInv(d)'
  BY <1>0, <1>1, <1>2, <1>5, DistinctThreads
     DEF DescriptorInv, ChannelInv, OneDisconnect, Connected, Open
<1>13. ASSUME NEW f \in Fds PROVE OwnerInv(f)'
  BY <1>0, <1>1 DEF DescriptorInv, OwnerInv
<1>14. NoLeakWhileRunning'
  BY <1>0, <1>1, <1>4, <1>6, <1>7 DEF DescriptorInv, NoLeakWhileRunning
<1> QED
  BY <1>9, <1>10, <1>11, <1>12, <1>13, <1>14 DEF DescriptorInv

\* The connect callback disconnects nobody.
LEMMA CallbackInv ==
    ASSUME ServerInv, NEW c \in Channels, ConnectCallback(c)
    PROVE  DescriptorInv'
<1>0. Types /\ DescriptorInv
  BY DEF ServerInv
<1>1. UNCHANGED <<active, clients, life, fd, fdOwner, spc, arg, cur>>
  BY DEF ConnectCallback, Crash, mapVars, threadVars
<1>2. \A d \in Channels : d # c => events'[d] = events[d]
  BY <1>0 DEF ConnectCallback, Crash, callVars, Types
<1>3. events'[c] = events[c] \/ events'[c] = Append(events[c], TRUE)
  BY <1>0 DEF ConnectCallback, Crash, callVars, Types
<1>4. ASSUME NEW d \in Channels, NEW i \in DOMAIN events'[d], ~events'[d][i]
      PROVE  i \in DOMAIN events[d] /\ ~events[d][i]
  <2>1. CASE events'[d] = events[d]
    BY <1>4, <2>1
  <2>2. CASE d = c /\ events'[c] = Append(events[c], TRUE)
    <3>1. events[c] \in Seq(BOOLEAN)
      BY <1>0 DEF Types
    <3> QED
      BY <1>4, <2>2, <3>1, AppendTrue
  <2> QED
    BY <1>2, <1>3, <2>1, <2>2
<1>5. \A d \in Channels : /\ Connected(d) => Connected(d)'
                          /\ OneDisconnect(d) => OneDisconnect(d)'
  BY <1>4 DEF Connected, OneDisconnect
<1>6. AloneInv'
  BY <1>0, <1>1 DEF DescriptorInv, AloneInv
<1>7. ASSUME NEW d \in clients' PROVE ClientInv(d)'
  BY <1>0, <1>1, <1>5 DEF Types, DescriptorInv, ClientInv, Open, Closing
<1>8. ASSUME NEW s \in Threads PROVE HandInv(s)'
  BY <1>0, <1>1, <1>5 DEF DescriptorInv, HandInv, Open
<1>9. ASSUME NEW d \in Channels PROVE ChannelInv(d)'
  BY <1>0, <1>1, <1>5 DEF DescriptorInv, ChannelInv
<1>10. (\A f \in Fds : OwnerInv(f)') /\ NoLeakWhileRunning'
  BY <1>0, <1>1 DEF DescriptorInv, OwnerInv, NoLeakWhileRunning
<1> QED
  BY <1>6, <1>7, <1>8, <1>9, <1>10 DEF DescriptorInv

\* The destructor frees what is left in the map of a stopped server.
LEMMA JoinInv ==
    ASSUME ServerInv, NEW o \in Owner, Destroy_Join(o)
    PROVE  DescriptorInv'
<1>0. Types /\ DescriptorInv /\ o \in Threads
  BY DEF ServerInv, Threads
<1>1. /\ UNCHANGED <<active, fd, fdOwner, events, arg, cur>> /\ spc[o] = "close"
      /\ clients' = {}
  BY DEF Destroy_Join, Goto, callVars
<1>2. ~active
  BY <1>1 DEF ServerInv, PhaseInv
<1>3. spc'[o] = "done" /\ \A s \in Threads : s # o => spc'[s] = spc[s]
  BY <1>0 DEF Destroy_Join, Goto, Types
<1>4. \A d \in Channels : life'[d] = IF d \in clients THEN "freed" ELSE life[d]
  BY DEF Destroy_Join
<1>5. AloneInv'
  BY <1>0, <1>1, <1>3 DEF DescriptorInv, AloneInv, ClosePcs
<1>6. ASSUME NEW s \in Threads PROVE HandInv(s)'
  <2>1. CASE s = o
    BY <1>3, <2>1 DEF HandInv, ClosePcs, OpenPcs
  <2>2. CASE s # o
    <3>1. \A d \in clients : life[d] = "alive"
      BY <1>0 DEF DescriptorInv, ClientInv
    <3> QED
      BY <1>0, <1>1, <1>3, <1>4, <2>2, <3>1 DEF DescriptorInv, HandInv, Connected, Open
  <2> QED
    BY <2>1, <2>2
<1>7. ASSUME NEW d \in Channels PROVE ChannelInv(d)'
  BY <1>0, <1>1, <1>4, DistinctThreads
     DEF DescriptorInv, ClientInv, ChannelInv, OneDisconnect, Connected, Open
<1>8. (\A f \in Fds : OwnerInv(f)') /\ NoLeakWhileRunning'
  BY <1>0, <1>1, <1>2 DEF DescriptorInv, OwnerInv, NoLeakWhileRunning
<1> QED
  BY <1>1, <1>5, <1>6, <1>7, <1>8 DEF DescriptorInv

\* Every step keeps the invariant.
LEMMA NextInv == ServerInv /\ [Next]_vars => ServerInv'
<1> SUFFICES ASSUME ServerInv, [Next]_vars PROVE DescriptorInv'
  BY TypesNext, PhaseNext DEF ServerInv
<1>0. DescriptorInv
  BY DEF ServerInv
<1>1. CASE Event
  <2>1. CASE BindAndListen_Accept \/ BindAndListen_Workers
    BY <1>0, <2>1, BindCalm, CalmInv
  <2>2. ASSUME NEW c \in Channels, ConnectCallback(c) PROVE DescriptorInv'
    BY <2>2, CallbackInv
  <2>3. CASE ~(BindAndListen_Accept \/ BindAndListen_Workers) /\ ~(\E c \in Channels : ConnectCallback(c))
    <3>1. \E t \in Threads :
             \/ SpuriousWakeup(t) \/ NotifyStop \/ Destroy_Begin(t)
             \/ \E f \in Fds : User_Close(t, f) \/ Write_Call(t, f)
      BY <1>1, <2>3 DEF Event, Threads
    <3> QED
      BY <1>0, <3>1, ThreadCalm, CalmInv
  <2> QED
    BY <2>1, <2>2, <2>3
<1>2. ASSUME NEW t \in Threads, Step(t) PROVE DescriptorInv'
  <2>1. CASE LockStep(t)
    BY <1>0, <2>1, ThreadCalm, CalmInv
  <2>2. CASE CloseClient(t)
    BY <1>0, <2>2, ThreadCalm, CalmInv, EraseInv, NotifyInv, CloseFdInv, DestroyInv DEF CloseClient
  <2>3. CASE t = Acceptor /\ Listen
    BY <1>0, <2>3, ThreadCalm, CalmInv, AcceptStepInv, CheckInv, ConnectedInv DEF Listen
  <2>4. CASE Worker(t) \/ Write_Find(t) \/ Write_Queue(t)
    BY <1>0, <2>4, ThreadCalm, CalmInv
  <2>5. CASE t \in Owner /\ Destroy(t)
    BY <1>0, <2>5, ThreadCalm, CalmInv, JoinInv DEF Destroy
  <2> QED
    BY <1>2, <2>1, <2>2, <2>3, <2>4, <2>5 DEF Step
<1>3. CASE UNCHANGED vars
  <2>1. Calm
    BY <1>3 DEF vars, mapVars, callVars, threadVars, Calm
  <2> QED
    BY <1>0, <2>1, CalmInv
<1> QED
  BY <1>1, <1>2, <1>3 DEF Next

-----------------------------------------------------------------------------
(* The theorems.                                                           *)

\* The invariant holds in every reachable state.
LEMMA Invariance == Spec => []ServerInv
BY InitInv, NextInv, PTL DEF Spec

\* Every channel in the client map is a live object whose descriptor is open
\* and its own, however many threads close clients while accept4 hands the
\* numbers out again.
THEOREM MapMatches == Spec => []MapMatchesDescriptors
<1>1. ServerInv => MapMatchesDescriptors
  BY DistinctThreads DEF ServerInv, DescriptorInv, ClientInv, Open, MapMatchesDescriptors
<1> QED
  BY <1>1, Invariance, PTL

\* closeClient never closes the descriptor of another connection.
THEOREM ClosesOwn == Spec => []ClosesOwnDescriptor
<1>1. ServerInv => ClosesOwnDescriptor
  BY DEF ServerInv, DescriptorInv, HandInv, Open, ClosePcs, ClosesOwnDescriptor
<1> QED
  BY <1>1, Invariance, PTL

\* A running server loses no descriptor.
THEOREM NoLeak == Spec => []NoLeakWhileRunning
<1>1. ServerInv => NoLeakWhileRunning
  BY DEF ServerInv, DescriptorInv
<1> QED
  BY <1>1, Invariance, PTL

\* A set whose elements are all equal has at most one.
LEMMA AtMostOne ==
    ASSUME NEW S, \A x, y \in S : x = y
    PROVE  Cardinality(S) <= 1
<1>1. CASE S = {}
  BY <1>1, FS_EmptySet
<1>2. CASE S # {}
  <2>1. PICK x \in S : TRUE
    BY <1>2
  <2>2. S = {x}
    BY <2>1
  <2>3. Cardinality(S) = 1
    BY <2>2, FS_Singleton
  <2> QED
    BY <2>3
<1> QED
  BY <1>1, <1>2

\* For any number of threads that race to close it, a client is disconnected
\* once, and destroyed by one of them.
THEOREM DisconnectsOnce == Spec => []DisconnectedOnce
<1>1. ServerInv => DisconnectedOnce
  <2> SUFFICES ASSUME ServerInv, NEW c \in Channels
               PROVE  /\ Cardinality({i \in DOMAIN events[c] : ~events[c][i]}) <= 1
                      /\ Cardinality({t \in Threads : Closing(t, c)}) <= 1
    BY DEF DisconnectedOnce
  <2>1. \A i, j \in {i \in DOMAIN events[c] : ~events[c][i]} : i = j
    BY DEF ServerInv, DescriptorInv, ChannelInv, OneDisconnect
  <2>2. \A s, t \in {t \in Threads : Closing(t, c)} : s = t
    BY DEF ServerInv, DescriptorInv, AloneInv, Closing, ClosePcs
  <2> QED
    BY <2>1, <2>2, AtMostOne
<1> QED
  BY <1>1, Invariance, PTL

\* Only the accept thread and users erase entries of a running server.
LEMMA AcceptNext == ServerInv /\ AcceptInv /\ [Next]_vars => AcceptInv'
<1> SUFFICES ASSUME ServerInv, AcceptInv, [Next]_vars, active' PROVE WalkInv'
  BY DEF AcceptInv
<1>0. Types /\ PhaseInv /\ DescriptorInv /\ Acceptor \in Threads
  BY DEF ServerInv, Threads
<1>a. Acceptor \notin Workers /\ Acceptor \notin Owner /\ Acceptor \notin Users
  BY DistinctThreads
<1>1. CASE crash = "no" /\ BindAndListen_Accept
  <2>1. spc'[Acceptor] \in {"loop", "unstarted"}
    BY <1>0, <1>1 DEF BindAndListen_Accept, PhaseInv, Types, Goto
  <2> QED
    BY <1>1, <2>1 DEF BindAndListen_Accept, WalkInv, ClosePcs
<1>2. CASE active /\ ~BindAndListen_Accept
  <2>0. WalkInv
    BY <1>2 DEF AcceptInv
  <2>c. crash = "no" \/ UNCHANGED vars
    BY DEF Next, Event, Step
  <2>1. \A t \in Threads : spc[t] \in {"closing", "close"} \cup ClosePcs => t = Acceptor \/ t \in Users
    BY <1>0, <1>2 DEF PhaseInv, ClosePcs, Threads
  <2>2. ASSUME UNCHANGED fd, crash' \in {crash, "worker", "connectCallback", "write"},
               clients \cup userErased \subseteq clients' \cup userErased', userErased \subseteq userErased',
               spc'[Acceptor] = spc[Acceptor], todo'[Acceptor] = todo[Acceptor],
               arg'[Acceptor] = arg[Acceptor]
        PROVE  WalkInv'
    BY <2>0, <2>2 DEF WalkInv
  <2>s. CASE UNCHANGED vars
    BY <2>2, <2>s DEF vars, mapVars, callVars, threadVars
  <2>3. ASSUME NEW t \in Threads, LockStep(t) \/ SpuriousWakeup(t) PROVE WalkInv'
    BY <2>2, <2>3 DEF LockStep, SpuriousWakeup, mapVars, callVars, threadVars
  <2>4. CASE CloseClient(Acceptor)
    <3>1. CASE CloseClient_Missing(Acceptor)
      <4>1. /\ UNCHANGED <<clients, fd, spc, todo, arg, userErased>> /\ crash' = "terminate"
            /\ spc[Acceptor] = "closing" /\ \A c \in clients : fd[c] # arg[Acceptor]
        BY <1>a, <3>1 DEF CloseClient_Missing, Crash, mapVars, callVars, threadVars
      <4> QED
        BY <2>0, <4>1 DEF WalkInv
    <3>2. ASSUME NEW c \in Channels, CloseClient_Erase(Acceptor, c) PROVE WalkInv'
      <4>1. /\ UNCHANGED <<fd, todo, arg, crash, userErased>> /\ spc[Acceptor] = "closing"
            /\ clients' = clients \ {c} /\ c \in clients /\ fd[c] = arg[Acceptor]
        BY <1>a, <3>2 DEF CloseClient_Erase, Goto
      <4>2. c \notin todo[Acceptor]
        BY <2>0, <4>1 DEF WalkInv
      <4>3. spc'[Acceptor] = "notify"
        BY <1>0, <3>2 DEF CloseClient_Erase, Goto, Types
      <4> QED
        BY <2>0, <4>1, <4>2, <4>3 DEF WalkInv
    <3>3. CASE CloseClient_Notify(Acceptor) \/ CloseClient_CloseFd(Acceptor) \/ CloseClient_Destroy(Acceptor)
      <4>1. UNCHANGED <<clients, fd, todo, crash, userErased>> /\ spc[Acceptor] \in ClosePcs
        BY <3>3 DEF CloseClient_Notify, CloseClient_CloseFd, CloseClient_Destroy, Goto, mapVars, callVars,
           ClosePcs
      <4>2. spc'[Acceptor] # "closing"
        BY <1>0, <3>3 DEF CloseClient_Notify, CloseClient_CloseFd, CloseClient_Destroy, Goto, Types
      <4> QED
        BY <2>0, <2>c, <2>s, <4>1, <4>2 DEF WalkInv
    <3> QED
      BY <2>4, <3>1, <3>2, <3>3 DEF CloseClient
  <2>5. ASSUME NEW u \in Users, CloseClient(u) PROVE WalkInv'
    <3>1. /\ spc'[Acceptor] = spc[Acceptor] /\ todo'[Acceptor] = todo[Acceptor]
          /\ arg'[Acceptor] = arg[Acceptor] /\ UNCHANGED <<fd, crash>>
      BY <1>0, <1>a, <2>5 DEF CloseClient, CloseClient_Missing, CloseClient_Erase, CloseClient_Notify,
         CloseClient_CloseFd, CloseClient_Destroy, Goto, Release, mapVars, Types
    <3>2. \/ UNCHANGED <<clients, userErased>>
          \/ \E c \in clients : clients' = clients \ {c} /\ userErased' = userErased \cup {c}
      BY <2>5 DEF CloseClient, CloseClient_Missing, CloseClient_Erase, CloseClient_Notify,
         CloseClient_CloseFd, CloseClient_Destroy, mapVars, callVars
    <3> QED
      BY <2>2, <3>1, <3>2
  <2>6. CASE Listen
    <3>1. CASE Listen_Loop
      <4>1. UNCHANGED <<clients, fd, crash, userErased>> /\ spc'[Acceptor] = "scan" /\ todo'[Acceptor] = clients
        BY <1>0, <1>2, <3>1 DEF Listen_Loop, Goto, mapVars, callVars, Types
      <4>2. \A c, d \in clients : fd[c] = fd[d] => c = d
        BY <1>0 DEF DescriptorInv, ClientInv, Open
      <4> QED
        BY <2>0, <2>c, <2>s, <4>1, <4>2 DEF WalkInv
    <3>2. ASSUME NEW c \in Channels, ThreadLoop_Gone(c) PROVE WalkInv'
      <4>1. /\ UNCHANGED <<clients, fd, spc, arg, userErased>> /\ spc[Acceptor] = "scan"
            /\ c \in todo[Acceptor] \ clients
            /\ \/ UNCHANGED todo /\ crash' = "threadLoop"
               \/ todo'[Acceptor] = todo[Acceptor] \ {c} /\ UNCHANGED crash
        BY <1>0, <3>2 DEF ThreadLoop_Gone, Crash, Visited, mapVars, callVars, threadVars, Types
      <4>2. c \in userErased
        BY <2>0, <4>1 DEF WalkInv
      <4> QED
        BY <2>0, <2>c, <2>s, <4>1, <4>2 DEF WalkInv
    <3>3. ASSUME NEW c \in Channels, ThreadLoop_Skip(c) PROVE WalkInv'
      <4>1. UNCHANGED <<clients, fd, crash, spc, arg, userErased>> /\ spc[Acceptor] = "scan"
            /\ todo'[Acceptor] = todo[Acceptor] \ {c}
        BY <1>0, <3>3 DEF ThreadLoop_Skip, Visited, mapVars, callVars, Types
      <4> QED
        BY <2>0, <2>c, <2>s, <4>1 DEF WalkInv
    <3>4. ASSUME NEW c \in Channels, ThreadLoop_Close(c) PROVE WalkInv'
      <4>1. UNCHANGED <<clients, fd, crash, userErased>> /\ spc[Acceptor] = "scan"
            /\ c \in clients /\ c \in todo[Acceptor]
        BY <3>4 DEF ThreadLoop_Close, CloseClient_Call, Goto, mapVars, callVars
      <4>2. /\ arg'[Acceptor] = fd[c] /\ todo'[Acceptor] = todo[Acceptor] \ {c}
            /\ spc'[Acceptor] = "closing"
        BY <1>0, <3>4 DEF ThreadLoop_Close, CloseClient_Call, Visited, Goto, Types
      <4> QED
        BY <2>0, <2>c, <2>s, <4>1, <4>2 DEF WalkInv
    <3>5. CASE Listen_Accept \/ Listen_Check \/ OnConnectedClient
      <4>1. UNCHANGED crash /\ spc'[Acceptor] \in {"loop", "accepted", "connecting", "exited"}
        BY <1>0, <3>5 DEF Listen_Accept, Listen_Check, OnConnectedClient, Goto, Types
      <4> QED
        BY <2>0, <2>c, <2>s, <4>1 DEF WalkInv, ClosePcs
    <3> QED
      BY <2>6, <3>1, <3>2, <3>3, <3>4, <3>5 DEF Listen
  <2>7. ASSUME NEW c \in Channels, ConnectCallback(c) PROVE WalkInv'
    BY <2>2, <2>7 DEF ConnectCallback, Crash, mapVars, callVars, threadVars
  <2>8. ASSUME NEW w \in Workers, Worker(w) PROVE WalkInv'
    <3>1. UNCHANGED <<clients, fd, userErased>> /\ crash' \in {crash, "worker"}
      BY <2>8 DEF Worker, Worker_Loop, Worker_Begin, Worker_Visit, Worker_Gone, Worker_TryLock, Worker_Leave,
         Worker_End, Crash, mapVars, callVars
    <3>2. /\ spc'[Acceptor] = spc[Acceptor] /\ todo'[Acceptor] = todo[Acceptor]
          /\ arg'[Acceptor] = arg[Acceptor]
      BY <1>0, <1>a, <2>8 DEF Worker, Worker_Loop, Worker_Begin, Worker_Visit, Worker_Gone, Worker_TryLock,
         Worker_Leave, Worker_End, Crash, Goto, Release, Visited, threadVars, Types
    <3> QED
      BY <2>2, <3>1, <3>2
  <2>9. ASSUME NEW u \in Users,
               \/ \E f \in Fds : User_Close(u, f) \/ Write_Call(u, f)
               \/ Write_Find(u) \/ Write_Queue(u)
        PROVE  WalkInv'
    <3>1. UNCHANGED <<clients, fd, userErased>> /\ crash' \in {crash, "write"}
      BY <2>9 DEF User_Close, CloseClient_Call, Write_Call, Write_Find, Write_Queue, Crash, mapVars, callVars
    <3>2. /\ spc'[Acceptor] = spc[Acceptor] /\ todo'[Acceptor] = todo[Acceptor]
          /\ arg'[Acceptor] = arg[Acceptor]
      BY <1>0, <1>a, <2>9 DEF User_Close, CloseClient_Call, Write_Call, Write_Find, Write_Queue, Crash, Goto,
         Release, threadVars, Types
    <3> QED
      BY <2>2, <3>1, <3>2
  <2>10. CASE BindAndListen_Workers
    <3>1. UNCHANGED <<clients, fd, crash, todo, arg, userErased>> /\ spc'[Acceptor] = spc[Acceptor]
      BY <1>0, <1>a, <2>10 DEF BindAndListen_Workers, mapVars, callVars
    <3> QED
      BY <2>2, <3>1
  <2>11. ~NotifyStop /\ \A o \in Owner : ~Destroy_Begin(o)
    BY DEF NotifyStop, Destroy_Begin
  <2>12. \A o \in Owner : ~Destroy(o)
    BY <1>a, <2>1, DistinctThreads DEF Destroy, Destroy_Gone, Destroy_Close, CloseClient_Call, Destroy_Join,
       Goto, Threads
  <2>13. \A t \in Threads : CloseClient(t) => t = Acceptor \/ t \in Users
    BY <2>1 DEF CloseClient, CloseClient_Missing, CloseClient_Erase, CloseClient_Notify,
       CloseClient_CloseFd, CloseClient_Destroy, Goto, ClosePcs
  <2> QED
    BY <1>2, <2>3, <2>4, <2>5, <2>6, <2>7, <2>8, <2>9, <2>10, <2>11, <2>12, <2>13,
       <2>s DEF Next, Event, Step
<1>3. ~active => crash = "no" /\ BindAndListen_Accept
  <2> SUFFICES ASSUME ~active PROVE crash = "no" /\ BindAndListen_Accept
    OBVIOUS
  <2>1. CASE \E t \in Threads : Step(t)
    <3>1. UNCHANGED active
      BY <2>1 DEF Step, LockStep, CloseClient, CloseClient_Missing, CloseClient_Erase,
         CloseClient_Notify, CloseClient_CloseFd, CloseClient_Destroy, Listen, Listen_Loop,
         ThreadLoop_Gone, ThreadLoop_Skip, ThreadLoop_Close, CloseClient_Call, Listen_Accept,
         Listen_Check, OnConnectedClient, Worker, Worker_Loop, Worker_Begin, Worker_Visit, Worker_Gone,
         Worker_TryLock, Worker_Leave, Worker_End, Write_Find, Write_Queue, Destroy, Destroy_Gone,
         Destroy_Close, Destroy_Join, Crash
    <3> QED
      BY <3>1
  <2>2. CASE Event
    BY <2>2 DEF Event, SpuriousWakeup, ConnectCallback, Crash, BindAndListen_Workers, NotifyStop,
       Destroy_Begin, User_Close, CloseClient_Call, Write_Call
  <2> QED
    BY <2>1, <2>2 DEF Next, vars
<1> QED
  BY <1>1, <1>2, <1>3 DEF BindAndListen_Accept

\* While the server is not stopped, the accept thread's walk over the map
\* without its lock meets no entry that it erased itself, and closeClient finds
\* every client it calls it for: it comes to grief only over entries that a
\* user's closeClient erased, for any number of workers, users and connections.
THEOREM AcceptThreadIsSafe == Spec => []AcceptThreadSafe
<1>1. ServerInv /\ AcceptInv => AcceptThreadSafe
  BY DEF AcceptInv, WalkInv, AcceptThreadSafe
<1>2. Spec => [](ServerInv /\ AcceptInv)
  BY InitInv, NextInv, AcceptNext, PTL DEF Spec
<1> QED
  BY <1>1, <1>2, PTL
=============================================================================
