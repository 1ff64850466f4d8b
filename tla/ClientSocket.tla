---------------------------- MODULE ClientSocket ----------------------------
(***************************************************************************)
(* ClientSocket (src/ClientSocket.cpp) with its connectCallback: connect,  *)
(* close and the destructor, called by user threads, and the detached      *)
(* threads that report a connection.                                       *)
(*                                                                         *)
(* The socket has one descriptor from its constructor on.  Once closed,    *)
(* the kernel may give its number to another part of the process.  The     *)
(* first use of an object that is gone, or of a channel that was never     *)
(* made, is a crash: nothing moves after it.  What the channel does is in  *)
(* module Channel; here it is made and destroyed.  Calls that change       *)
(* nothing are left out: a connect that fails to set TCP_NODELAY, one that *)
(* answers EWOULDBLOCK and is tried again, isActive.  A connect on a number *)
(* that is somebody else's by now is taken to fail.                        *)
(***************************************************************************)
EXTENDS EventCallback

CONSTANTS
    Users,       \* threads of the program
    Notifiers    \* detached threads that connect can start

ASSUME ClientAssumption ==
    Threads = Users \cup Notifiers /\ Users \cap Notifiers = {}

VARIABLES
    active,
    socketDescriptor, \* TRUE unless it is -1
    number,           \* who has the number of the descriptor: socket, other, nobody
    channel,          \* there is a channel
    deleter,          \* the thread in the destructor
    alive,            \* the object exists
    crashed,
    cpc,              \* where a thread is in connect, close or the notification
    ref,              \* the channel a thread passes to the callbacks exists
    failed,           \* history: a connect failed
    overlapped,       \* history: two threads were in close at once
    foreignClosed     \* history: somebody else's descriptor was closed

clientVars == <<active, socketDescriptor, number, channel, deleter, alive, crashed, cpc, ref,
                failed, overlapped, foreignClosed>>
history == <<failed, overlapped, foreignClosed>>
vars == <<eventVars, clientVars>>

Init ==
    /\ EventInit
    /\ active = FALSE /\ socketDescriptor = TRUE /\ number = "socket" /\ channel = FALSE
    /\ deleter = None /\ alive = TRUE /\ crashed = FALSE
    /\ cpc = [t \in Threads |-> "idle"]
    /\ ref = [t \in Threads |-> FALSE]
    /\ failed = FALSE /\ overlapped = FALSE /\ foreignClosed = FALSE

Go(t, from, to) == cpc[t] = from /\ cpc' = [cpc EXCEPT ![t] = to]

Idle(t) == epc[t] = "idle" /\ cpc[t] = "idle"
Closing(t) == cpc[t] \in {"closeFd", "reset", "callback", "disconnected"}

\* The program begins no call on a socket it is deleting or has deleted.
MayCall(t) == t \in Users /\ Idle(t) /\ deleter = None

\* ::close(socketDescriptor)
CloseDescriptor ==
    /\ number' = IF socketDescriptor THEN "nobody" ELSE number
    /\ foreignClosed' = (foreignClosed \/ (socketDescriptor /\ number = "other"))

\* Another part of the process opens a descriptor.
OtherOpens ==
    /\ number = "nobody" /\ number' = "other"
    /\ UNCHANGED <<active, socketDescriptor, channel, deleter, alive, crashed, cpc, ref,
                   history, eventVars>>

-----------------------------------------------------------------------------
(* connect                                                                  *)

Connect(t) ==
    /\ MayCall(t)
    /\ Go(t, "idle", "connect")
    /\ UNCHANGED <<active, socketDescriptor, number, channel, deleter, alive, crashed, ref,
                   history, eventVars>>

\* Any other error closes the descriptor, keeps its number, and throws.
\* EISCONN is one, and so is the EINPROGRESS of a non-blocking socket.
Connect_Fail(t) ==
    /\ Go(t, "connect", "idle")
    /\ CloseDescriptor
    /\ failed' = TRUE
    /\ UNCHANGED <<active, socketDescriptor, channel, deleter, alive, crashed, ref, overlapped,
                   eventVars>>

Connect_Done(t) ==
    /\ socketDescriptor /\ number = "socket" /\ ~channel
    /\ active' = TRUE
    /\ channel' = TRUE
    /\ IF callbacks = {}
       THEN Go(t, "connect", "idle")
       ELSE \E n \in Notifiers :
              /\ cpc[n] = "idle" /\ cpc[t] = "connect"
              /\ cpc' = [cpc EXCEPT ![t] = "idle", ![n] = "notify"]
    /\ UNCHANGED <<socketDescriptor, number, deleter, alive, crashed, ref, history, eventVars>>

\* The detached thread: connectCallback.invoke(*channel, true)
Notify(t) ==
    /\ Go(t, "notify", "notified")
    /\ ref' = [ref EXCEPT ![t] = channel]
    /\ Invoke_Empty(t)
    /\ UNCHANGED <<active, socketDescriptor, number, channel, deleter, alive, crashed, history>>

Notify_End(t) ==
    /\ epc[t] = "idle"
    /\ Go(t, "notified", "idle")
    /\ ref' = [ref EXCEPT ![t] = FALSE]
    /\ UNCHANGED <<active, socketDescriptor, number, channel, deleter, alive, crashed, history,
                   eventVars>>

-----------------------------------------------------------------------------
(* close, called by the program or by the destructor                        *)

\* The descriptor is tested at once.
Close_Test(t) ==
    /\ MayCall(t)
    /\ Go(t, "idle", IF socketDescriptor THEN "closeFd" ELSE "callback")
    /\ overlapped' = (overlapped \/ \E s \in Threads : Closing(s))
    /\ UNCHANGED <<active, socketDescriptor, number, channel, alive, crashed, ref, failed,
                   foreignClosed, eventVars>>

Close(t) == Close_Test(t) /\ UNCHANGED deleter
Destroy(t) == Close_Test(t) /\ deleter' = t

Close_Fd(t) ==
    /\ Go(t, "closeFd", "reset")
    /\ CloseDescriptor
    /\ UNCHANGED <<active, socketDescriptor, channel, deleter, alive, crashed, ref, failed,
                   overlapped, eventVars>>

\* The descriptor is kept.
Close_Reset_Keeps(t) ==
    /\ Go(t, "reset", "callback")
    /\ UNCHANGED <<active, socketDescriptor, number, channel, deleter, alive, crashed, ref, history,
                   eventVars>>

Close_Reset(t) ==
    /\ Go(t, "reset", "callback")
    /\ socketDescriptor' = FALSE
    /\ UNCHANGED <<active, number, channel, deleter, alive, crashed, ref, history, eventVars>>

\* empty(), and once more in invoke(channelRef, false)
Close_NoCallback(t) ==
    /\ callbacks = {}
    /\ Go(t, "callback", "disconnected")
    /\ UNCHANGED <<active, socketDescriptor, number, channel, deleter, alive, crashed, ref,
                   history, eventVars>>

Close_Callback(t) ==
    /\ callbacks # {}
    /\ Go(t, "callback", "disconnected")
    /\ ref' = [ref EXCEPT ![t] = channel]
    /\ Invoke_Empty(t)
    /\ UNCHANGED <<active, socketDescriptor, number, channel, deleter, alive, crashed, history>>

\* The end of close, and for the destructor of the members: the channel and
\* the callbacks go.
Close_End(t) ==
    /\ epc[t] = "idle"
    /\ Go(t, "disconnected", "idle")
    /\ ref' = [ref EXCEPT ![t] = FALSE]
    /\ alive' = (deleter # t)
    /\ UNCHANGED <<active, socketDescriptor, number, channel, deleter, crashed, history, eventVars>>

-----------------------------------------------------------------------------
(* The rest of the interface.                                               *)

\* Queues a message; without a channel it crashes.
Write(t) ==
    /\ MayCall(t) /\ ~channel
    /\ crashed' = TRUE
    /\ UNCHANGED <<active, socketDescriptor, number, channel, deleter, alive, cpc, ref, history,
                   eventVars>>

\* A callback is given a reference to no channel.
UseNoChannel(t) ==
    /\ epc[t] = "running" /\ ~ref[t]
    /\ crashed' = TRUE
    /\ UNCHANGED <<active, socketDescriptor, number, channel, deleter, alive, cpc, ref, history,
                   eventVars>>

UseDeadSocket(t) ==
    /\ ~alive /\ ~Idle(t)
    /\ crashed' = TRUE
    /\ UNCHANGED <<active, socketDescriptor, number, channel, deleter, alive, cpc, ref, history,
                   eventVars>>

Client(t) ==
    \/ Connect(t) \/ Connect_Fail(t) \/ Connect_Done(t) \/ Notify(t) \/ Notify_End(t)
    \/ Close(t) \/ Destroy(t) \/ Close_Fd(t) \/ Close_Reset(t)
    \/ Close_NoCallback(t) \/ Close_Callback(t) \/ Close_End(t)
    \/ Write(t) \/ UseNoChannel(t)

\* The program adds and removes callbacks, and so do the callbacks.
Event(t) ==
    \/ Invoking(t) \/ Changing(t)
    \/ (MayCall(t) \/ epc[t] = "running") /\ Change_Begin(t)

Next ==
    /\ ~crashed /\ ~terminated
    /\ \/ OtherOpens
       \/ alive /\ \E t \in Threads : Client(t) \/ (Event(t) /\ UNCHANGED clientVars)
       \/ \E t \in Threads : UseDeadSocket(t)

Spec == Init /\ [][Next]_vars

-----------------------------------------------------------------------------
\* Every variable has its type.
TypeOK ==
    /\ EventTypeOK
    /\ {active, socketDescriptor, channel, alive, crashed} \subseteq BOOLEAN
    /\ number \in {"socket", "other", "nobody"}
    /\ ref \in [Threads -> BOOLEAN]
    /\ deleter \in Users \cup {None}

\* close closes the socket's own descriptor and nothing else, however often it
\* is called and although the destructor calls it again, as long as no connect
\* has failed (it leaves the closed number behind) and close is not entered by
\* two threads at once.
ClosesOwnDescriptorOnly == foreignClosed => failed \/ overlapped
=============================================================================
