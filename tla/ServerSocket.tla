---------------------------- MODULE ServerSocket ----------------------------
(***************************************************************************)
(* A running ServerSocket of src/ServerSocket.cpp: the accept thread, the  *)
(* read and write workers, user threads that call closeClient and write,   *)
(* the detached threads of the connect callback and the thread that runs   *)
(* the destructor, around the client map and its lock, which is the        *)
(* ExclusivePrioritySharedMutex itself.                                    *)
(*                                                                         *)
(* A Channel is one accepted connection.  What a worker does inside it is  *)
(* the module Channel; here it is entered, locked and left.  Descriptors   *)
(* are handed out again once closed.  The body of a critical section is    *)
(* one step together with the call that ends it; lock and unlock are the   *)
(* steps of the lock's own module.                                         *)
(*                                                                         *)
(* The first access to a destroyed object, and the first exception that    *)
(* nothing catches, is recorded in crash and stops the model.              *)
(***************************************************************************)
EXTENDS Integers, Sequences, FiniteSets

CONSTANTS Workers,     \* workerThreads: readLoop and writeLoop
          Users,       \* threads that call closeClient and write
          Owner,       \* {} or the one thread that destroys the server
          Acceptor,    \* connectionListenThread
          Channels,    \* connections that peers may open
          Fds,         \* descriptors of the process
          None         \* no thread, no channel, no descriptor

Threads == Workers \cup Users \cup Owner \cup {Acceptor}

ASSUME DistinctThreads ==
    /\ IsFiniteSet(Threads)
    /\ Workers \cap Users = {} /\ Owner \cap (Workers \cup Users) = {}
    /\ Acceptor \notin Workers \cup Users \cup Owner
    /\ None \notin Threads \cup Channels \cup Fds

VARIABLES active,         \* Socket::active
          started,        \* how far bindAndListen came: no, accepting, yes, failed
          clients,        \* the channels in clientDescriptors
          life,           \* of a channel object: none, alive, freed
          chanActive,     \* channels whose flag active is set
          fd, fdOwner,    \* descriptor of a channel, connection behind an open descriptor
          connecting,     \* channels whose connect callback thread has not run yet
          events,         \* what connectCallback was told about each channel
          spc,            \* where each thread is in this class
          todo,           \* channels its iterator still has to visit
          arg, cur,       \* descriptor and channel a thread works on
          userErased,     \* history: channels that a user's closeClient erased
          crash,
          sharedCount, exclusiveRequests, exclusiveWaiting, exclusiveCount, mutex, pc

L == INSTANCE ExclusivePrioritySharedMutex WITH NoThread <- None

lockVars == <<sharedCount, exclusiveRequests, exclusiveWaiting, exclusiveCount, mutex, pc>>
mapVars == <<clients, life, chanActive, fd, fdOwner>>
callVars == <<connecting, events, userErased>>
threadVars == <<spc, todo, arg, cur>>
vars == <<active, started, mapVars, callVars, threadVars, crash, lockVars>>

Init ==
    /\ active = FALSE /\ started = "no"
    /\ clients = {} /\ chanActive = {}
    /\ life = [c \in Channels |-> "none"]
    /\ fd = [c \in Channels |-> None]
    /\ fdOwner = [f \in Fds |-> None]
    /\ connecting = {}
    /\ events = [c \in Channels |-> <<>>]
    /\ spc = [t \in Threads |-> IF t \in Users \cup Owner THEN "idle" ELSE "unstarted"]
    /\ todo = [t \in Threads |-> {}]
    /\ arg = [t \in Threads |-> None]
    /\ cur = [t \in Threads |-> None]
    /\ userErased = {} /\ crash = "no"
    /\ L!Init

Goto(t, from, to) == spc[t] = from /\ spc' = [spc EXCEPT ![t] = to]
Crash(why) == crash' = why /\ UNCHANGED <<active, started, mapVars, callVars, threadVars, lockVars>>
HoldsShared(t) == pc[t] \in L!SharedPcs
HoldsExclusive(t) == pc[t] = "exclusive"
ChannelIsActive(c) == c \in chanActive /\ active
Release(t) == arg' = [arg EXCEPT ![t] = None] /\ cur' = [cur EXCEPT ![t] = None]
Visited(t, c) == todo' = [todo EXCEPT ![t] = @ \ {c}]

\* Progress inside lock_shared, unlock_shared and lock.
LockStep(t) ==
    /\ \/ L!LockShared_FastAdd(t) \/ L!LockShared_Wait(t) \/ L!LockShared_SlowAdd(t)
       \/ L!UnlockShared_Notify(t)
       \/ L!Lock_Wait(t) \/ L!Lock_Withdraw(t) \/ L!Lock_Take(t)
    /\ UNCHANGED <<active, started, mapVars, callVars, threadVars, crash>>

SpuriousWakeup(t) ==
    /\ L!SpuriousWakeup(t)
    /\ UNCHANGED <<active, started, mapVars, callVars, threadVars, crash>>

-----------------------------------------------------------------------------
(* bindAndListen, called once; a second call finds active set and throws.  *)

BindAndListen_Accept ==
    /\ started = "no" /\ ~active
    /\ \A o \in Owner : spc[o] = "idle"
    /\ active' = TRUE
    /\ \/ started' = "accepting" /\ Goto(Acceptor, "unstarted", "loop")
       \/ started' = "failed" /\ UNCHANGED spc    \* setsockopt or bind throws
    /\ UNCHANGED <<mapVars, callVars, todo, arg, cur, crash, lockVars>>

BindAndListen_Workers ==
    /\ started = "accepting"
    /\ \/ /\ started' = "yes"
          /\ spc' = [t \in Threads |-> IF t \in Workers THEN "loop" ELSE spc[t]]
       \/ started' = "failed" /\ UNCHANGED spc    \* listen throws
    /\ UNCHANGED <<active, mapVars, callVars, todo, arg, cur, crash, lockVars>>

-----------------------------------------------------------------------------
(* closeClient                                                             *)

CloseClient_Call(t, from, f) ==
    /\ Goto(t, from, "closing")
    /\ arg' = [arg EXCEPT ![t] = f]
    /\ L!Lock_Request(t)
    /\ UNCHANGED <<active, started, mapVars, callVars, cur, crash>>

\* Nothing catches the exception in the accept thread or in the destructor.
CloseClient_Missing(t) ==
    /\ spc[t] = "closing" /\ HoldsExclusive(t)
    /\ \A c \in clients : fd[c] # arg[t]
    /\ IF t \in Users
       THEN /\ Goto(t, "closing", "idle")
            /\ Release(t)
            /\ L!Unlock(t)
            /\ UNCHANGED <<active, started, mapVars, callVars, todo, crash>>
       ELSE Crash("terminate")

CloseClient_Erase_Kept(t, c) ==
    /\ Goto(t, "closing", "notify") /\ HoldsExclusive(t)
    /\ c \in clients /\ fd[c] = arg[t]
    /\ cur' = [cur EXCEPT ![t] = c]
    /\ L!Unlock(t)
    /\ UNCHANGED <<active, started, mapVars, callVars, todo, arg, crash>>

CloseClient_Erase(t, c) ==
    /\ Goto(t, "closing", "notify") /\ HoldsExclusive(t)
    /\ c \in clients /\ fd[c] = arg[t]
    /\ cur' = [cur EXCEPT ![t] = c]
    /\ clients' = clients \ {c}
    /\ userErased' = IF t \in Users THEN userErased \cup {c} ELSE userErased
    /\ L!Unlock(t)
    /\ UNCHANGED <<active, started, life, chanActive, fd, fdOwner, connecting, events, todo, arg, crash>>

CloseClient_Notify_ClosesFirst(t) ==
    /\ Goto(t, "notify", "closeFd")
    /\ events' = [events EXCEPT ![cur[t]] = Append(@, FALSE)]
    /\ fdOwner' = [fdOwner EXCEPT ![arg[t]] = None]
    /\ UNCHANGED <<active, started, clients, life, chanActive, fd, connecting, userErased, todo, arg, cur, crash, lockVars>>

CloseClient_Notify(t) ==
    /\ Goto(t, "notify", "closeFd")
    /\ events' = [events EXCEPT ![cur[t]] = Append(@, FALSE)]
    /\ UNCHANGED <<active, started, mapVars, connecting, userErased, todo, arg, cur, crash, lockVars>>

CloseClient_CloseFd_OnlyShutdown(t) ==
    /\ Goto(t, "closeFd", "destroy")
    /\ UNCHANGED <<active, started, mapVars, callVars, todo, arg, cur, crash, lockVars>>

CloseClient_CloseFd(t) ==
    /\ Goto(t, "closeFd", "destroy")
    /\ fdOwner' = [fdOwner EXCEPT ![arg[t]] = None]
    /\ UNCHANGED <<active, started, clients, life, chanActive, fd, callVars, todo, arg, cur, crash, lockVars>>

\* ~Channel waits for the workers that hold a lock of the channel.
CloseClient_Destroy(t) ==
    /\ Goto(t, "destroy", IF t = Acceptor THEN "scan" ELSE IF t \in Owner THEN "close" ELSE "idle")
    /\ \A w \in Workers : ~(spc[w] = "inside" /\ cur[w] = cur[t])
    /\ life' = [life EXCEPT ![cur[t]] = "freed"]
    /\ chanActive' = chanActive \ {cur[t]}
    /\ Release(t)
    /\ UNCHANGED <<active, started, clients, fd, fdOwner, callVars, todo, crash, lockVars>>

CloseClient(t) ==
    \/ CloseClient_Missing(t)
    \/ \E c \in Channels : CloseClient_Erase(t, c)
    \/ CloseClient_Notify(t)
    \/ CloseClient_CloseFd(t)
    \/ CloseClient_Destroy(t)

-----------------------------------------------------------------------------
(* connectionListenLoop: threadLoop, accept4, onConnectedClient.           *)

Listen_Loop ==
    /\ IF active
       THEN Goto(Acceptor, "loop", "scan") /\ todo' = [todo EXCEPT ![Acceptor] = clients]
       ELSE Goto(Acceptor, "loop", "exited") /\ UNCHANGED todo
    /\ UNCHANGED <<active, started, mapVars, callVars, arg, cur, crash, lockVars>>

\* threadLoop holds no lock: another thread may have erased the node that the
\* iterator points to, or one it has not come to, which it then passes over.
ThreadLoop_Gone(c) ==
    /\ spc[Acceptor] = "scan" /\ c \in todo[Acceptor] \ clients
    /\ \/ Crash("threadLoop")
       \/ /\ Visited(Acceptor, c)
          /\ UNCHANGED <<active, started, mapVars, callVars, spc, arg, cur, crash, lockVars>>

ThreadLoop_Skip(c) ==
    /\ spc[Acceptor] = "scan" /\ c \in todo[Acceptor] \cap clients
    /\ ChannelIsActive(c)
    /\ Visited(Acceptor, c)
    /\ UNCHANGED <<active, started, mapVars, callVars, spc, arg, cur, crash, lockVars>>

ThreadLoop_Close_NoAdvance(c) ==
    /\ c \in todo[Acceptor] \cap clients
    /\ ~ChannelIsActive(c)
    /\ CloseClient_Call(Acceptor, "scan", fd[c])
    /\ UNCHANGED todo

ThreadLoop_Close_Skips(c) ==
    /\ spc[Acceptor] = "scan" /\ c \in todo[Acceptor] \cap clients
    /\ Visited(Acceptor, c)
    /\ UNCHANGED <<active, started, mapVars, callVars, spc, arg, cur, crash, lockVars>>

ThreadLoop_Close(c) ==
    /\ c \in todo[Acceptor] \cap clients
    /\ ~ChannelIsActive(c)
    /\ Visited(Acceptor, c)
    /\ CloseClient_Call(Acceptor, "scan", fd[c])

Listen_Accept ==
    /\ todo[Acceptor] = {}
    /\ \/ /\ Goto(Acceptor, "scan", "loop")    \* EWOULDBLOCK or another error
          /\ UNCHANGED <<fd, fdOwner, cur>>
       \/ /\ Goto(Acceptor, "scan", "accepted")
          /\ \E c \in Channels, f \in Fds :
               /\ fd[c] = None /\ fdOwner[f] = None
               /\ fd' = [fd EXCEPT ![c] = f]
               /\ fdOwner' = [fdOwner EXCEPT ![f] = c]
               /\ cur' = [cur EXCEPT ![Acceptor] = c]
    /\ UNCHANGED <<active, started, clients, life, chanActive, callVars, todo, arg, crash, lockVars>>

Listen_Check ==
    /\ IF active
       THEN Goto(Acceptor, "accepted", "connecting") /\ L!Lock_Request(Acceptor)
       ELSE Goto(Acceptor, "accepted", "exited") /\ UNCHANGED lockVars
    /\ UNCHANGED <<active, started, mapVars, callVars, todo, arg, cur, crash>>

\* emplace keeps an entry that has the same descriptor.
OnConnectedClient ==
    LET c == cur[Acceptor]
        same == {d \in clients : fd[d] = fd[c]}
    IN  /\ Goto(Acceptor, "connecting", "loop") /\ HoldsExclusive(Acceptor)
        /\ clients' = IF same = {} THEN clients \cup {c} ELSE clients
        /\ life' = [life EXCEPT ![c] = IF same = {} THEN "alive" ELSE "freed"]
        /\ chanActive' = IF same = {} THEN chanActive \cup {c} ELSE chanActive
        /\ connecting' = connecting \cup (IF same = {} THEN {c} ELSE same)
        /\ Release(Acceptor)
        /\ L!Unlock(Acceptor)
        /\ UNCHANGED <<active, started, fd, fdOwner, events, userErased, todo, crash>>

\* The detached thread that was given a raw pointer to the channel.
ConnectCallback(c) ==
    /\ c \in connecting
    /\ IF life[c] = "freed"
       THEN Crash("connectCallback")
       ELSE /\ connecting' = connecting \ {c}
            /\ events' = [events EXCEPT ![c] = Append(@, TRUE)]
            /\ UNCHANGED <<active, started, mapVars, userErased, threadVars, crash, lockVars>>

Listen ==
    \/ Listen_Loop
    \/ \E c \in Channels : ThreadLoop_Gone(c) \/ ThreadLoop_Skip(c) \/ ThreadLoop_Close(c)
    \/ Listen_Accept
    \/ Listen_Check
    \/ OnConnectedClient

-----------------------------------------------------------------------------
(* readLoop and writeLoop                                                  *)

Worker_Loop_Forever(w) ==
    /\ Goto(w, "loop", "locking") /\ L!LockShared_Load(w)
    /\ UNCHANGED <<active, started, mapVars, callVars, todo, arg, cur, crash>>


Worker_Loop(w) ==
    /\ IF active
       THEN Goto(w, "loop", "locking") /\ L!LockShared_Load(w)
       ELSE Goto(w, "loop", "exited") /\ UNCHANGED lockVars
    /\ UNCHANGED <<active, started, mapVars, callVars, todo, arg, cur, crash>>

Worker_Begin(w) ==
    /\ Goto(w, "locking", "visit") /\ HoldsShared(w)
    /\ todo' = [todo EXCEPT ![w] = clients]
    /\ UNCHANGED <<active, started, mapVars, callVars, arg, cur, crash, lockVars>>

Worker_Visit(w, c) ==
    /\ spc[w] = "visit" /\ c \in todo[w] \cap clients
    /\ Visited(w, c)
    /\ cur' = [cur EXCEPT ![w] = IF ChannelIsActive(c) THEN c ELSE None]
    /\ spc' = [spc EXCEPT ![w] = IF ChannelIsActive(c) THEN "enter" ELSE "visit"]
    /\ UNCHANGED <<active, started, mapVars, callVars, arg, crash, lockVars>>

\* A writer that got past the lock has erased the node, as in threadLoop.
Worker_Gone(w, c) ==
    /\ spc[w] = "visit" /\ c \in todo[w] \ clients
    /\ \/ Crash("worker")
       \/ /\ Visited(w, c)
          /\ UNCHANGED <<active, started, mapVars, callVars, spc, arg, cur, crash, lockVars>>

\* try_lock, after the channel's own check of active; it may fail.
Worker_TryLock(w) ==
    /\ spc[w] = "enter"
    /\ IF life[cur[w]] = "freed"
       THEN Crash("worker")
       ELSE /\ \/ Goto(w, "enter", "inside") /\ UNCHANGED <<arg, cur>>
               \/ Goto(w, "enter", "visit") /\ Release(w)
            /\ UNCHANGED <<active, started, mapVars, callVars, todo, crash, lockVars>>

\* The end of the stream and errors call queueShutdown.
Worker_Leave(w) ==
    /\ Goto(w, "inside", "visit")
    /\ \/ UNCHANGED chanActive
       \/ chanActive' = chanActive \ {cur[w]}
    /\ Release(w)
    /\ UNCHANGED <<active, started, clients, life, fd, fdOwner, callVars, todo, crash, lockVars>>

Worker_End(w) ==
    /\ Goto(w, "visit", "loop") /\ todo[w] = {}
    /\ L!UnlockShared_Sub(w)
    /\ UNCHANGED <<active, started, mapVars, callVars, todo, arg, cur, crash>>

\* A thread that left unlock_shared early still has to notify.
Worker(w) ==
    \/ pc[w] = "idle" /\ Worker_Loop(w)
    \/ Worker_Begin(w)
    \/ \E c \in Channels : Worker_Visit(w, c) \/ Worker_Gone(w, c)
    \/ Worker_TryLock(w)
    \/ Worker_Leave(w)
    \/ Worker_End(w)

-----------------------------------------------------------------------------
(* Users: closeClient, write and notifyStop.                               *)

User_Close(u, f) == pc[u] = "idle" /\ CloseClient_Call(u, "idle", f) /\ UNCHANGED todo

Write_Call(u, f) ==
    /\ Goto(u, "idle", "writing") /\ pc[u] = "idle"
    /\ arg' = [arg EXCEPT ![u] = f]
    /\ L!LockShared_Load(u)
    /\ UNCHANGED <<active, started, mapVars, callVars, todo, cur, crash>>

\* find; an unknown descriptor throws and releases the lock.
Write_Find(u) ==
    /\ spc[u] = "writing" /\ HoldsShared(u)
    /\ \/ \E c \in clients :
             /\ fd[c] = arg[u]
             /\ Goto(u, "writing", "queueWrite")
             /\ cur' = [cur EXCEPT ![u] = c]
             /\ UNCHANGED <<arg, lockVars>>
       \/ /\ \A c \in clients : fd[c] # arg[u]
          /\ Goto(u, "writing", "idle")
          /\ Release(u)
          /\ L!UnlockShared_Sub(u)
    /\ UNCHANGED <<active, started, mapVars, callVars, todo, crash>>

Write_Queue(u) ==
    /\ spc[u] = "queueWrite"
    /\ IF life[cur[u]] = "freed"
       THEN Crash("write")
       ELSE /\ Goto(u, "queueWrite", "idle")
            /\ Release(u)
            /\ L!UnlockShared_Sub(u)
            /\ UNCHANGED <<active, started, mapVars, callVars, todo, crash>>

NotifyStop ==
    /\ Owner # {} /\ active
    /\ active' = FALSE
    /\ UNCHANGED <<started, mapVars, callVars, threadVars, crash, lockVars>>

-----------------------------------------------------------------------------
(* ~ServerSocket                                                           *)

Destroy_Begin(o) ==
    /\ started # "accepting"
    /\ Goto(o, "idle", "close")
    /\ active' = FALSE
    /\ todo' = [todo EXCEPT ![o] = clients]
    /\ UNCHANGED <<started, mapVars, callVars, arg, cur, crash, lockVars>>

\* The loop over the map holds no lock either.
Destroy_Gone(o, c) ==
    /\ spc[o] = "close" /\ c \in todo[o] \ clients
    /\ \/ Crash("destructor")
       \/ /\ Visited(o, c)
          /\ UNCHANGED <<active, started, mapVars, callVars, spc, arg, cur, crash, lockVars>>

Destroy_Close(o, c) ==
    /\ c \in todo[o] \cap clients
    /\ Visited(o, c)
    /\ CloseClient_Call(o, "close", fd[c])

Destroy_Join(o) ==
    /\ Goto(o, "close", "done") /\ todo[o] = {}
    /\ \A t \in Workers \cup {Acceptor} : spc[t] \in {"exited", "unstarted"}
    /\ life' = [c \in Channels |-> IF c \in clients THEN "freed" ELSE life[c]]
    /\ clients' = {} /\ chanActive' = chanActive \ clients
    /\ UNCHANGED <<active, started, fd, fdOwner, callVars, todo, arg, cur, crash, lockVars>>

Destroy(o) ==
    \/ \E c \in Channels : Destroy_Gone(o, c) \/ Destroy_Close(o, c)
    \/ Destroy_Join(o)

-----------------------------------------------------------------------------
\* What thread t does next of its own accord.
Step(t) ==
    /\ crash = "no"
    /\ \/ LockStep(t)
       \/ CloseClient(t)
       \/ t = Acceptor /\ Listen
       \/ t \in Workers /\ Worker(t)
       \/ t \in Users /\ (Write_Find(t) \/ Write_Queue(t))
       \/ t \in Owner /\ Destroy(t)

\* What users, peers and the platform may do or leave.
Event ==
    /\ crash = "no"
    /\ \/ \E t \in Threads : SpuriousWakeup(t)
       \/ \E u \in Users, f \in Fds : User_Close(u, f) \/ Write_Call(u, f)
       \/ \E c \in Channels : ConnectCallback(c)
       \/ BindAndListen_Accept \/ BindAndListen_Workers
       \/ NotifyStop
       \/ \E o \in Owner : Destroy_Begin(o)

Next == Event \/ \E t \in Threads : Step(t)

Spec == Init /\ [][Next]_vars

\* Every thread is scheduled and every callback returns.
FairSpec == Spec /\ \A t \in Threads : WF_vars(Step(t))

-----------------------------------------------------------------------------
\* Every variable has its type.
TypeOK ==
    /\ active \in BOOLEAN /\ started \in {"no", "accepting", "yes", "failed"}
    /\ clients \subseteq Channels /\ chanActive \subseteq Channels /\ connecting \subseteq Channels
    /\ life \in [Channels -> {"none", "alive", "freed"}]
    /\ fd \in [Channels -> Fds \cup {None}]
    /\ fdOwner \in [Fds -> Channels \cup {None}]
    /\ events \in [Channels -> Seq(BOOLEAN)] /\ userErased \subseteq Channels
    /\ todo \in [Threads -> SUBSET Channels]
    /\ arg \in [Threads -> Fds \cup {None}]
    /\ cur \in [Threads -> Channels \cup {None}]
    /\ L!TypeOK

Closing(t, c) == spc[t] \in {"notify", "closeFd", "destroy"} /\ cur[t] = c

\* Every channel in the client map is a live object whose descriptor is open
\* and is its own, although descriptors are closed outside the lock and reused
\* by accept4; so emplace never meets an old entry and closeClient(fd) finds
\* the connection that fd stands for.
MapMatchesDescriptors ==
    \A c \in clients : life[c] = "alive" /\ fd[c] # None /\ fdOwner[fd[c]] = c

\* closeClient closes the descriptor of the channel it took out of the map,
\* never one that was closed before or belongs to a newer connection.
ClosesOwnDescriptor ==
    \A t \in Threads : spc[t] = "closeFd" => fdOwner[arg[t]] = cur[t]

\* However many threads race to close a client, the disconnect callback runs
\* at most once for it, and no two of them destroy the same channel.
DisconnectedOnce ==
    \A c \in Channels :
        /\ Cardinality({i \in DOMAIN events[c] : ~events[c][i]}) <= 1
        /\ Cardinality({t \in Threads : Closing(t, c)}) <= 1

\* A connection is dropped without being closed only because the server was
\* stopped meanwhile.
NoLeakWhileRunning ==
    active => \A f \in Fds : fdOwner[f] # None =>
        \/ fdOwner[f] \in clients
        \/ \E t \in Threads : cur[t] = fdOwner[f] /\ spc[t] \in {"accepted", "connecting", "notify", "closeFd"}

\* While the server is active, the accept thread's unlocked walk over the map
\* meets no entry that it erased itself, and closeClient finds every client it
\* calls it for: it can only come to grief over an entry that a user's
\* closeClient erased.
AcceptThreadSafe ==
    active => /\ crash = "threadLoop" => todo[Acceptor] \cap userErased # {}
              /\ crash = "terminate" => \E c \in userErased : fd[c] = arg[Acceptor]

\* "increment before destroying in closeClient" is meant to keep the walk of
\* threadLoop off erased entries, also when a user "disconnects the client".
WalkMeetsNoErasedEntry == crash # "threadLoop"

Parked == \E t \in Threads : pc[t] = "exclusiveCv"

\* A channel that went inactive leaves the map of a running server, unless a
\* thread parks in lock().
InactiveRemovedUnlessParked ==
    \A c \in Channels :
        c \in clients \ chanActive ~> c \notin clients \/ ~active \/ Parked \/ crash # "no"


\* The destructor gets past its joins, unless a thread parks in lock().
DestroyedUnlessParked ==
    \A o \in Owner : spc[o] = "close" ~> spc[o] = "done" \/ Parked \/ crash # "no"

\* closeClient erases the entry "to avoid threads from reading it", and
\* ~Channel "will wait for everything to close": no worker touches a channel
\* that is gone.
WorkersSeeLiveChannels == crash # "worker"

=============================================================================
