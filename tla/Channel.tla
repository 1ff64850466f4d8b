------------------------------- MODULE Channel -------------------------------
(***************************************************************************)
(* One Channel of src/Socket.cpp: the connection to one peer.  Read        *)
(* workers call readData, write workers call handleWriteQueue, any thread  *)
(* calls queueWrite, and the owner destroys the channel.                   *)
(*                                                                         *)
(* A byte from the peer is its position in the peer's stream, so a byte    *)
(* lost, repeated or out of order shows.  A byte to the peer is a message  *)
(* and a position in it.  The write queue keeps the order of each producer *)
(* and promises nothing about the order of two producers.                  *)
(*                                                                         *)
(* Each access to the flag active, each lock and each system call is a     *)
(* step.  isActive() reads two flags that only ever go from true to false, *)
(* so it is one step.  Calls in progress may overlap the destructor; none  *)
(* begins after it, and nothing moves once the object is gone.             *)
(***************************************************************************)
EXTENDS Integers, Sequences, FiniteSetsExt, StreamQueue

CONSTANTS ReadWorkers, WriteWorkers, Producers,
          Nobody,        \* readLock and writeLock when they are free
          BufferSize,    \* bytes one recv may return
          PeerBytes,     \* bytes the peer sends at most
          Lengths,       \* lengths of the messages handed to queueWrite
          MaxMessages,   \* messages handed over at most
          MaxBatch,      \* messageReserve
          SizeWidth      \* bits of size_t

ASSUME NobodyOutside == Nobody \notin ReadWorkers \cup WriteWorkers
ASSUME BoundsAreNat ==
    /\ {BufferSize, MaxBatch, SizeWidth} \subseteq Nat \ {0}
    /\ {PeerBytes, MaxMessages} \cup Lengths \subseteq Nat
ASSUME LengthsAreSizes == \A len \in Lengths : \A n \in 0..len : n % 2^SizeWidth = n

VARIABLES active, socketActive,   \* Channel::active, Socket::active
          life,                   \* alive, waiting (in ~Channel), gone
          readLock, writeLock,
          rpc, got,               \* a read worker's step and what recv gave it
          peerSent, peerOpen,     \* the peer: bytes sent, stream not ended
          received,               \* bytes taken out of the kernel
          incoming, consumed,     \* incomingQueue, bytes the listener dequeued
          wpc, batch,             \* a write worker's step and the messages it holds
          left, sent,             \* bytes.size() and sent_bytes of sendBytes
          issued, pending, queue, \* per producer: calls, call under way, writeQueue
          wire,                   \* bytes the kernel took for the peer
          partial,                \* history: some send did not take everything
          wrapped                 \* history: the loop index of some dequeueAsVec wrapped

flags == <<active, socketActive, life>>
peerVars == <<peerSent, peerOpen>>
heard == <<consumed, wrapped>>
readVars == <<rpc, got, readLock, received, incoming, heard>>
sendVars == <<wpc, batch, left, sent, writeLock, wire, partial>>
queueVars == <<issued, pending, queue>>
vars == <<flags, peerVars, readVars, sendVars, queueVars>>
notRead == <<peerVars, sendVars, queueVars>>
notSend == <<peerVars, readVars, issued, pending>>

IsActive == active /\ socketActive

Init ==
    /\ active = TRUE /\ socketActive = TRUE /\ life = "alive"
    /\ readLock = Nobody /\ writeLock = Nobody
    /\ rpc = [r \in ReadWorkers |-> "out"]
    /\ got = [r \in ReadWorkers |-> [kind |-> "again", bytes |-> <<>>]]
    /\ peerSent = 0 /\ peerOpen = TRUE /\ received = 0
    /\ incoming = <<>> /\ consumed = <<>> /\ wrapped = FALSE
    /\ wpc = [w \in WriteWorkers |-> "out"]
    /\ batch = [w \in WriteWorkers |-> <<>>]
    /\ left = [w \in WriteWorkers |-> 0]
    /\ sent = [w \in WriteWorkers |-> 0]
    /\ issued = [p \in Producers |-> 0]
    /\ pending = [p \in Producers |-> <<>>]
    /\ queue = [p \in Producers |-> <<>>]
    /\ wire = <<>> /\ partial = FALSE

-----------------------------------------------------------------------------
(* The peer and the owning socket.                                         *)

PeerSend ==
    /\ peerOpen /\ peerSent < PeerBytes
    /\ peerSent' = peerSent + 1
    /\ UNCHANGED <<flags, peerOpen, readVars, sendVars, queueVars>>

PeerClose ==
    /\ peerOpen
    /\ peerOpen' = FALSE
    /\ UNCHANGED <<flags, peerSent, readVars, sendVars, queueVars>>

\* Socket::notifyStop
NotifyStop ==
    /\ socketActive
    /\ socketActive' = FALSE
    /\ UNCHANGED <<active, life, peerVars, readVars, sendVars, queueVars>>

-----------------------------------------------------------------------------
(* readData                                                                *)

ReadGoto(r, from, to) == rpc[r] = from /\ rpc' = [rpc EXCEPT ![r] = to]

ReadData_Enter(r) ==
    /\ life = "alive" /\ active
    /\ ReadGoto(r, "out", "tryLock")
    /\ UNCHANGED <<flags, got, readLock, received, incoming, heard, notRead>>

ReadData_TryLock_Ignored(r) ==
    /\ life # "gone"
    /\ ReadGoto(r, "tryLock", "recv")
    /\ UNCHANGED readLock
    /\ UNCHANGED <<flags, got, received, incoming, heard, notRead>>

ReadData_TryLock(r) ==
    /\ life # "gone"
    /\ IF readLock = Nobody
       THEN ReadGoto(r, "tryLock", "recv") /\ readLock' = r
       ELSE ReadGoto(r, "tryLock", "out") /\ UNCHANGED readLock
    /\ UNCHANGED <<flags, got, received, incoming, heard, notRead>>

Recv_WholeBuffer ==
    {[kind |-> "data", bytes |-> [i \in 1..BufferSize |-> received + i]]}

\* What recv may answer.  An error other than EWOULDBLOCK may come at any time.
Recv ==
    LET Result(kind, n) == [kind |-> kind, bytes |-> [i \in 1..n |-> received + i]]
        available == peerSent - received
    IN  {Result("data", n) : n \in 1..Min({BufferSize, available})}
        \cup (IF available > 0 THEN {} ELSE {Result(IF peerOpen THEN "again" ELSE "end", 0)})
        \cup {Result("failed", 0)}

ReadData_Recv(r) ==
    /\ life # "gone"
    /\ ReadGoto(r, "recv", "check")
    /\ \E result \in Recv :
         /\ got' = [got EXCEPT ![r] = result]
         /\ received' = received + Len(result.bytes)
    /\ UNCHANGED <<flags, readLock, incoming, heard, notRead>>

ReadData_Check_Prepends(r) ==
    /\ life # "gone"
    /\ IsActive /\ got[r].kind = "data"
    /\ ReadGoto(r, "check", "listen")
    /\ incoming' = got[r].bytes \o incoming
    /\ UNCHANGED <<readLock, flags, got, received, heard, notRead>>

\* Data read by a worker that then finds the channel inactive is dropped.
ReadData_Check(r) ==
    /\ life # "gone"
    /\ IF IsActive /\ got[r].kind = "data"
       THEN /\ ReadGoto(r, "check", "listen")
            /\ incoming' = EnqueueMove(incoming, got[r].bytes)
            /\ UNCHANGED <<readLock, active>>
       ELSE /\ ReadGoto(r, "check", "out")
            /\ readLock' = Nobody
            /\ active' = (active /\ ~(IsActive /\ got[r].kind \in {"end", "failed"}))
            /\ UNCHANGED incoming
    /\ UNCHANGED <<socketActive, life, got, received, heard, notRead>>

\* The listeners dequeue as much of incomingQueue as they like.
ReadData_Listen(r) ==
    /\ life # "gone"
    /\ ReadGoto(r, "listen", "out")
    /\ \E maxCount \in 0..Len(incoming) :
         \/ /\ consumed' = consumed \o Dequeued(incoming, maxCount)
            /\ incoming' = DequeueRest(incoming, maxCount)
            /\ UNCHANGED wrapped
         \/ /\ consumed' = consumed \o VecDequeued(incoming, maxCount)
            /\ incoming' = VecRest(incoming, maxCount)
            /\ wrapped' = (wrapped \/ Wraps(incoming, maxCount))
    /\ readLock' = Nobody
    /\ UNCHANGED <<flags, got, received, notRead>>

-----------------------------------------------------------------------------
(* queueWrite                                                              *)

Message(p, n, len) == [from |-> p, no |-> n, len |-> len]

QueueWrite_Check(p) ==
    /\ life = "alive" /\ active
    /\ pending[p] = <<>> /\ SumFunction(issued) < MaxMessages
    /\ \E len \in Lengths \ {0} :
         pending' = [pending EXCEPT ![p] = <<Message(p, issued[p] + 1, len)>>]
    /\ issued' = [issued EXCEPT ![p] = @ + 1]
    /\ UNCHANGED <<flags, peerVars, readVars, sendVars, queue>>

QueueWrite_Enqueue(p) ==
    /\ life # "gone"
    /\ pending[p] # <<>>
    /\ queue' = [queue EXCEPT ![p] = @ \o pending[p]]
    /\ pending' = [pending EXCEPT ![p] = <<>>]
    /\ UNCHANGED <<flags, peerVars, readVars, sendVars, issued>>

-----------------------------------------------------------------------------
(* handleWriteQueue                                                        *)

WriteGoto(w, from, to) == wpc[w] = from /\ wpc' = [wpc EXCEPT ![w] = to]

QueueEmpty == \A p \in Producers : queue[p] = <<>>

HandleWrite_Enter(w) ==
    /\ life = "alive" /\ active
    /\ WriteGoto(w, "out", "size")
    /\ UNCHANGED <<flags, batch, left, sent, writeLock, wire, partial, queue, notSend>>

HandleWrite_Size_OffByOne(w) ==
    /\ life # "gone"
    /\ WriteGoto(w, "size", IF \A p \in Producers : Len(queue[p]) <= 1 THEN "out" ELSE "tryLock")
    /\ UNCHANGED <<flags, batch, left, sent, writeLock, wire, partial, queue, notSend>>

HandleWrite_Size(w) ==
    /\ life # "gone"
    /\ WriteGoto(w, "size", IF QueueEmpty THEN "out" ELSE "tryLock")
    /\ UNCHANGED <<flags, batch, left, sent, writeLock, wire, partial, queue, notSend>>

HandleWrite_TryLock_Ignored(w) ==
    /\ life # "gone"
    /\ WriteGoto(w, "tryLock", "dequeue")
    /\ UNCHANGED <<flags, batch, left, sent, writeLock, wire, partial, queue, notSend>>

HandleWrite_TryLock(w) ==
    /\ life # "gone"
    /\ IF writeLock = Nobody
       THEN WriteGoto(w, "tryLock", "dequeue") /\ writeLock' = w
       ELSE WriteGoto(w, "tryLock", "out") /\ UNCHANGED writeLock
    /\ UNCHANGED <<flags, batch, left, sent, wire, partial, queue, notSend>>

\* wait_dequeue_bulk_timed fills messages[] one message at a time, from any
\* producer, oldest first.
HandleWrite_Take(w) ==
    /\ life # "gone"
    /\ wpc[w] = "dequeue" /\ Len(batch[w]) < MaxBatch
    /\ \E p \in Producers :
         /\ queue[p] # <<>>
         /\ batch' = [batch EXCEPT ![w] = Append(@, Head(queue[p]))]
         /\ queue' = [queue EXCEPT ![p] = Tail(@)]
    /\ UNCHANGED <<flags, wpc, left, sent, writeLock, wire, partial, notSend>>

Continue_KeepsLock(w, from, messages) ==
    /\ WriteGoto(w, from, IF messages = <<>> THEN "out" ELSE "enter")
    /\ batch' = [batch EXCEPT ![w] = messages]
    /\ UNCHANGED writeLock

\* Leaves handleWriteQueue, or goes on to the next message of the batch.
Continue(w, from, messages) ==
    /\ WriteGoto(w, from, IF messages = <<>> THEN "out" ELSE "enter")
    /\ batch' = [batch EXCEPT ![w] = messages]
    /\ writeLock' = IF messages = <<>> THEN Nobody ELSE writeLock

HandleWrite_Dequeued_SkipsLast(w) ==
    /\ life # "gone"
    /\ batch[w] # <<>>
    /\ Continue(w, "dequeue", SubSeq(batch[w], 1, Len(batch[w]) - 1))
    /\ UNCHANGED <<flags, left, sent, wire, partial, queue, notSend>>

\* The wait gives up with nothing only when nothing is there: an element counts
\* as queued from its signal on.
HandleWrite_Dequeued(w) ==
    /\ life # "gone"
    /\ batch[w] # <<>> \/ QueueEmpty
    /\ Continue(w, "dequeue", batch[w])
    /\ UNCHANGED <<flags, left, sent, wire, partial, queue, notSend>>

-----------------------------------------------------------------------------
(* sendBytes                                                               *)

\* A long compared with a size_t is converted to size_t.
Unsigned(n) == n % 2^SizeWidth

SendBytes_Enter(w) ==
    /\ life # "gone"
    /\ IF IsActive
       THEN /\ WriteGoto(w, "enter", "test")
            /\ left' = [left EXCEPT ![w] = Head(batch[w]).len]
            /\ sent' = [sent EXCEPT ![w] = 0]
            /\ UNCHANGED <<batch, writeLock>>
       ELSE Continue(w, "enter", Tail(batch[w])) /\ UNCHANGED <<left, sent>>
    /\ UNCHANGED <<flags, wire, partial, queue, notSend>>

SendBytes_Test(w) ==
    /\ life # "gone"
    /\ IF Unsigned(sent[w]) < left[w] /\ IsActive
       THEN WriteGoto(w, "test", "send") /\ UNCHANGED <<batch, writeLock>>
       ELSE Continue(w, "test", Tail(batch[w]))
    /\ UNCHANGED <<flags, left, sent, wire, partial, queue, notSend>>

SendBytes_Accepted_NoAdvance(w, n) ==
    /\ wire' = wire \o [i \in 1..n |-> [msg |-> Head(batch[w]), byte |-> i]]
    /\ sent' = [sent EXCEPT ![w] = n]
    /\ partial' = (partial \/ n < left[w])
    /\ UNCHANGED left

\* The kernel takes the next n bytes.
SendBytes_Accepted(w, n) ==
    LET m == Head(batch[w])
        done == m.len - left[w]
    IN  /\ wire' = wire \o [i \in 1..n |-> [msg |-> m, byte |-> done + i]]
        /\ sent' = [sent EXCEPT ![w] = n]
        /\ left' = [left EXCEPT ![w] = IF n < @ THEN @ - n ELSE @]
        /\ partial' = (partial \/ n < left[w])

SendBytes_Send(w) ==
    /\ life # "gone"
    /\ WriteGoto(w, "send", "test")
    /\ \/ \E n \in 1..left[w] : SendBytes_Accepted(w, n)
       \/ /\ sent' = [sent EXCEPT ![w] = -1]    \* EWOULDBLOCK
          /\ partial' = TRUE
          /\ UNCHANGED <<left, wire>>
    /\ UNCHANGED <<flags, batch, writeLock, queue, notSend>>

\* Any other error shuts the channel down; the exception abandons the batch.
SendBytes_Fail(w) ==
    /\ life # "gone"
    /\ wpc[w] = "send"
    /\ active' = FALSE
    /\ Continue(w, "send", <<>>)
    /\ UNCHANGED <<socketActive, life, left, sent, wire, partial, queue, notSend>>

-----------------------------------------------------------------------------
(* ~Channel: queueShutdown, then awaitShutdown.                            *)

Destroy_Begin ==
    /\ life = "alive"
    /\ life' = "waiting" /\ active' = FALSE
    /\ UNCHANGED <<socketActive, sendVars, queue, notSend>>

Destroy_Finish_NoWait ==
    /\ life = "waiting"
    /\ readLock = Nobody
    /\ life' = "gone"
    /\ UNCHANGED <<active, socketActive, sendVars, queue, notSend>>

Destroy_Finish ==
    /\ life = "waiting"
    /\ readLock = Nobody /\ writeLock = Nobody
    /\ life' = "gone"
    /\ UNCHANGED <<active, socketActive, sendVars, queue, notSend>>

-----------------------------------------------------------------------------
ReadData(r) ==
    \/ ReadData_Enter(r)
    \/ ReadData_TryLock(r)
    \/ ReadData_Recv(r)
    \/ ReadData_Check(r)
    \/ ReadData_Listen(r)

HandleWriteQueue(w) ==
    \/ HandleWrite_Enter(w)
    \/ HandleWrite_Size(w)
    \/ HandleWrite_TryLock(w)
    \/ HandleWrite_Take(w)
    \/ HandleWrite_Dequeued(w)
    \/ SendBytes_Enter(w)
    \/ SendBytes_Test(w)
    \/ SendBytes_Send(w)
    \/ SendBytes_Fail(w)

Next ==
    \/ PeerSend \/ PeerClose \/ NotifyStop
    \/ \E r \in ReadWorkers : ReadData(r)
    \/ \E w \in WriteWorkers : HandleWriteQueue(w)
    \/ \E p \in Producers : QueueWrite_Check(p) \/ QueueWrite_Enqueue(p)
    \/ Destroy_Begin \/ Destroy_Finish

Spec == Init /\ [][Next]_vars

\* A call goes on until it returns: neither try_lock nor MSG_DONTWAIT blocks, the
\* wait for messages is timed, and listeners return.  Whether a worker calls
\* again is up to the loops of ServerSocket, which may wait for the lock of the
\* client map for ever.  Peer, producers and owner do as they please.
FairSpec ==
    /\ Spec
    /\ \A r \in ReadWorkers : WF_vars(rpc[r] # "out" /\ ReadData(r))
    /\ \A w \in WriteWorkers : WF_vars(wpc[w] # "out" /\ HandleWriteQueue(w))
    /\ WF_vars(Destroy_Finish)

-----------------------------------------------------------------------------
Messages == [from : Producers, no : Nat, len : Lengths \ {0}]
ReadPcs == {"out", "tryLock", "recv", "check", "listen"}
WritePcs == {"out", "size", "tryLock", "dequeue", "enter", "test", "send"}

FlagTypeOK ==
    /\ active \in BOOLEAN /\ socketActive \in BOOLEAN
    /\ life \in {"alive", "waiting", "gone"}

ReadTypeOK ==
    /\ readLock \in ReadWorkers \cup {Nobody}
    /\ rpc \in [ReadWorkers -> ReadPcs]
    /\ got \in [ReadWorkers -> [kind : {"data", "again", "end", "failed"}, bytes : Seq(Nat)]]
    /\ peerOpen \in BOOLEAN /\ peerSent \in 0..PeerBytes /\ received \in 0..peerSent
    /\ incoming \in Seq(Nat) /\ consumed \in Seq(Nat) /\ wrapped \in BOOLEAN

WriteTypeOK ==
    /\ writeLock \in WriteWorkers \cup {Nobody}
    /\ wpc \in [WriteWorkers -> WritePcs]
    /\ batch \in [WriteWorkers -> Seq(Messages)]
    /\ left \in [WriteWorkers -> Nat] /\ sent \in [WriteWorkers -> Int]
    /\ wire \in Seq([msg : Messages, byte : Nat]) /\ partial \in BOOLEAN
    /\ issued \in [Producers -> Nat]
    /\ pending \in [Producers -> Seq(Messages)]
    /\ queue \in [Producers -> Seq(Messages)]

\* Every variable has its type.
TypeOK == FlagTypeOK /\ ReadTypeOK /\ WriteTypeOK

\* The listener sees the peer's bytes in the order sent, none twice and none
\* skipped: what dequeueAsVec leaves of "the actual number of elements to
\* dequeue".  It does not hold when the uint8_t index of that loop wraps.
StreamInOrder ==
    /\ \A i \in DOMAIN consumed : consumed[i] = i
    /\ \A i \in DOMAIN incoming : incoming[i] = Len(consumed) + i

\* However the read workers interleave and however long the queue grows, the
\* stream is in order as long as no listener had the index of dequeueAsVec wrap
\* (readLock is held from recv until the listener has returned).
InOrderUnlessWrapped == ~wrapped => StreamInOrder

\* The channel shuts itself down for the end of the stream only after every
\* byte the peer sent has been handed to the listener or queued for it, unless
\* a wrapped index lost some.
EndLosesNothing ==
    [][\A r \in ReadWorkers :
          active /\ ~active' /\ rpc[r] = "check" /\ rpc'[r] = "out" /\ got[r].kind = "end" /\ ~wrapped
             => Len(consumed) + Len(incoming) = peerSent]_vars

\* ~Channel does not finish while a worker is inside recv, a listener or send
\* ("Wait for these to unlock").
DestructorWaits ==
    life = "gone" => /\ \A r \in ReadWorkers : rpc[r] \in {"out", "tryLock"}
                     /\ \A w \in WriteWorkers : wpc[w] \in {"out", "size", "tryLock"}

\* The messages are never interleaved on the wire: every byte starts a message
\* or follows the byte before it (writeLock is held for the whole batch).
MessagesContiguous ==
    \A i \in DOMAIN wire :
        \/ wire[i].byte = 1
        \/ i > 1 /\ wire[i - 1] = [wire[i] EXCEPT !.byte = @ - 1]

\* No message of a producer reaches the wire twice or before an earlier one of
\* the same producer.
ProducerOrder ==
    \A i, j \in DOMAIN wire :
        i < j /\ wire[i].msg.from = wire[j].msg.from
          => \/ wire[i].msg.no < wire[j].msg.no
             \/ wire[i].msg = wire[j].msg /\ wire[i].byte < wire[j].byte

\* Where message no of producer p is while it is still to be sent.
Waiting(p, no) ==
    \E s \in {pending[p], queue[p]} \cup Range(batch) :
        \E i \in DOMAIN s : s[i].from = p /\ s[i].no = no

Complete(m) == \E i \in DOMAIN wire : wire[i] = [msg |-> m, byte |-> m.len]

AllAccountedFor ==
    \A p \in Producers : \A no \in 1..issued[p] :
        Waiting(p, no) \/ \E len \in Lengths : Complete(Message(p, no, len))

\* As long as the channel is active and every send took all it was given,
\* every message handed to queueWrite is waiting its turn or is on the wire to
\* its last byte.
NoMessageLost == IsActive /\ ~partial => AllAccountedFor

\* "Queue up remaining data": also after a short send or EWOULDBLOCK no part of
\* a message is dropped while the channel is active.  The loop of sendBytes
\* does not keep this.
RemainingDataIsKept == IsActive => AllAccountedFor

\* If some worker keeps calling handleWriteQueue, a message does not stay in the
\* queue, although workers leave at once when they find the queue empty or the
\* lock taken.  That workers do keep calling is ServedUnlessParked of the module
\* ServerSocket.
QueueDrains ==
    (\E w \in WriteWorkers : []<><<HandleWrite_Enter(w)>>_vars)
       => \A p \in Producers : queue[p] # <<>> ~> queue[p] = <<>>

\* The destructor gets both locks in the end.
DestructorReturns == life = "waiting" ~> life = "gone"

=============================================================================
