---------------------- MODULE BlockingConcurrentQueue ----------------------
(***************************************************************************)
(* moodycamel::BlockingConcurrentQueue with consumer tokens, as writeQueue *)
(* and logQueue use it: enqueue puts an element in the sub-queue of the    *)
(* thread and signals the semaphore; wait_dequeue_bulk_timed takes permits *)
(* and then goes round the producers until it has as many elements.        *)
(*                                                                         *)
(* A sub-queue is the number of its elements (Producer shows what it       *)
(* hands out) and its dequeue_bulk is one step.  The list of producers     *)
(* only grows, at its tail; a position in the sequence is a pointer.       *)
(***************************************************************************)
EXTENDS LightweightSemaphore, Sequences, Sums

CONSTANTS
    MaxItems,   \* bound: elements enqueued, by all producers
    Quota       \* EXPLICIT_CONSUMER_CONSUMPTION_QUOTA_BEFORE_ROTATE

ASSUME QueueAssumption == MaxItems \in Nat /\ Quota \in Nat \ {0}

VARIABLES
    producerList,   \* the producers, producerListTail last
    producerCount,
    size,           \* elements in the sub-queue of each producer
    enqueued,       \* elements each producer has enqueued
    ppc,            \* where a producer is
    globalExplicitConsumerOffset,
    token,          \* the consumer tokens
    qpc,            \* where a consumer is in try_dequeue_bulk
    need, tail, ptr \* its max, its snapshot of the list's tail, its producer

prodVars  == <<producerList, producerCount, enqueued, ppc>>
scanVars  == <<size, globalExplicitConsumerOffset, token, qpc, need, tail, ptr>>
queueVars == <<semaVars, prodVars, scanVars>>

NoProducer == 0

QInit ==
    /\ Init
    /\ producerList = <<>> /\ producerCount = 0
    /\ size = [p \in Producers |-> 0]
    /\ enqueued = [p \in Producers |-> 0]
    /\ ppc = [p \in Producers |-> "new"]
    /\ globalExplicitConsumerOffset = 0
    /\ token \in [Consumers -> [initialOffset : 0 .. Cardinality(Consumers) - 1,
                     lastKnownGlobalOffset : {-1}, itemsConsumedFromCurrent : {0},
                     currentProducer : {NoProducer}, desiredProducer : {NoProducer}]]
    /\ \A c, d \in Consumers :
         token[c].initialOffset = token[d].initialOffset => c = d
    /\ qpc = [c \in Consumers |-> "idle"]
    /\ need = [c \in Consumers |-> 0]
    /\ tail = [c \in Consumers |-> 0]
    /\ ptr = [c \in Consumers |-> NoProducer]

-----------------------------------------------------------------------------
(* A thread's first enqueue adds its producer: it is counted, then linked.  *)

AddProducer_Count(p) ==
    /\ ppc[p] = "new"
    /\ producerCount' = producerCount + 1
    /\ ppc' = [ppc EXCEPT ![p] = "link"]
    /\ UNCHANGED <<semaVars, scanVars, producerList, enqueued>>

AddProducer_Link(p) ==
    /\ ppc[p] = "link"
    /\ producerList' = Append(producerList, p)
    /\ ppc' = [ppc EXCEPT ![p] = "idle"]
    /\ UNCHANGED <<semaVars, scanVars, producerCount, enqueued>>

\* signal() follows also when there was no memory for the element.
Enqueue_Inner_Unchecked(p) ==
    /\ ppc[p] = "idle" /\ at[p] = "out" /\ Total(enqueued) < MaxItems
    /\ size' \in {size, [size EXCEPT ![p] = @ + 1]}
    /\ enqueued' = [enqueued EXCEPT ![p] = @ + 1]
    /\ ppc' = [ppc EXCEPT ![p] = "signal"]
    /\ UNCHANGED <<semaVars, producerList, producerCount, globalExplicitConsumerOffset, token,
                   qpc, need, tail, ptr>>

\* The element is enqueued and signal() follows.  An enqueue that fails for
\* want of memory changes nothing here.
Enqueue_Inner(p) ==
    /\ ppc[p] = "idle" /\ at[p] = "out" /\ Total(enqueued) < MaxItems
    /\ size' = [size EXCEPT ![p] = @ + 1]
    /\ enqueued' = [enqueued EXCEPT ![p] = @ + 1]
    /\ ppc' = [ppc EXCEPT ![p] = "signal"]
    /\ UNCHANGED <<semaVars, producerList, producerCount, globalExplicitConsumerOffset, token,
                   qpc, need, tail, ptr>>

Enqueue_Signal(p) ==
    /\ ppc[p] = "signal"
    /\ Signal(p)
    /\ ppc' = [ppc EXCEPT ![p] = "idle"]
    /\ UNCHANGED <<scanVars, producerList, producerCount, enqueued>>

Enqueue_Post(p) == Post(p) /\ UNCHANGED <<prodVars, scanVars>>

-----------------------------------------------------------------------------
(* wait_dequeue_bulk_timed                                                  *)

Wait_Start(c) ==
    /\ qpc[c] = "idle"
    /\ WaitMany(c, MaxBatch)
    /\ UNCHANGED <<prodVars, scanVars>>

Wait_Step(c) == WaitStep(c) /\ UNCHANGED <<prodVars, scanVars>>

\* The permits say how many elements to collect.
Wait_Result(c) ==
    /\ at[c] = "done" /\ qpc[c] = "idle"
    /\ IF got[c] = 0
       THEN Return(c) /\ UNCHANGED <<qpc, need>>
       ELSE /\ need' = [need EXCEPT ![c] = got[c]]
            /\ qpc' = [qpc EXCEPT ![c] = "token"]
            /\ UNCHANGED semaVars
    /\ UNCHANGED <<prodVars, size, globalExplicitConsumerOffset, token, tail, ptr>>

-----------------------------------------------------------------------------
(* try_dequeue_bulk(token, ...)                                             *)

ScanStep(c, from, to) == qpc[c] = from /\ qpc' = [qpc EXCEPT ![c] = to]

\* next_prod(), from the last producer round to the snapshot of the tail.
NextProd(k, times, end) == ((k - 1 - times) % end) + 1

Scan_Token(c) ==
    /\ IF \/ token[c].desiredProducer = NoProducer
          \/ token[c].lastKnownGlobalOffset # globalExplicitConsumerOffset
       THEN ScanStep(c, "token", "rotate") /\ tail' = [tail EXCEPT ![c] = Len(producerList)]
       ELSE ScanStep(c, "token", "current") /\ UNCHANGED tail
    /\ UNCHANGED <<semaVars, prodVars, size, globalExplicitConsumerOffset, token, need, ptr>>

\* update_current_producer_after_rotation
Desired(t, end, count, offset) ==
    LET first == IF t.desiredProducer = NoProducer
                 THEN NextProd(end, count - 1 - (t.initialOffset % count), end)
                 ELSE t.desiredProducer
    IN  NextProd(first, (offset - t.lastKnownGlobalOffset) % count, end)

Scan_Rotate(c) ==
    /\ IF tail[c] = 0 /\ token[c].desiredProducer = NoProducer
       THEN ScanStep(c, "rotate", "token") /\ UNCHANGED token
       ELSE LET prod == Desired(token[c], tail[c], producerCount, globalExplicitConsumerOffset)
            IN  /\ ScanStep(c, "rotate", "current")
                /\ token' = [token EXCEPT ![c] =
                      [@ EXCEPT !.lastKnownGlobalOffset = globalExplicitConsumerOffset,
                                !.itemsConsumedFromCurrent = 0,
                                !.currentProducer = prod, !.desiredProducer = prod]]
    /\ UNCHANGED <<semaVars, prodVars, size, globalExplicitConsumerOffset, need, tail, ptr>>

\* dequeue_bulk on the sub-queue at position k.
Dequeued(c, k) == IF size[producerList[k]] < need[c] THEN size[producerList[k]] ELSE need[c]
TakeFrom(c, k) ==
    /\ size' = [size EXCEPT ![producerList[k]] = @ - Dequeued(c, k)]
    /\ need' = [need EXCEPT ![c] = @ - Dequeued(c, k)]

\* The producer of the token.  The quota only counts when it gave everything.
Scan_Current(c) ==
    LET k == token[c].currentProducer
        n == Dequeued(c, k)
        full == n = need[c]
    IN  /\ ScanStep(c, "current", IF full THEN "full" ELSE "next")
        /\ TakeFrom(c, k)
        /\ token' = [token EXCEPT ![c].itemsConsumedFromCurrent = @ + n]
        /\ globalExplicitConsumerOffset' = globalExplicitConsumerOffset +
             (IF full /\ token[c].itemsConsumedFromCurrent + n >= Quota THEN 1 ELSE 0)
        /\ tail' = [tail EXCEPT ![c] = IF full THEN 0 ELSE Len(producerList)]
        /\ ptr' = [ptr EXCEPT ![c] = IF full THEN NoProducer
                                     ELSE NextProd(k, 1, Len(producerList))]
        /\ UNCHANGED <<semaVars, prodVars>>

\* Each of the others, until all is found or the walk is back at the
\* current producer, which is the last one that gave something.
Scan_Next(c) ==
    LET k == ptr[c]
        n == Dequeued(c, k)
    IN  /\ qpc[c] = "next" /\ k # token[c].currentProducer
        /\ TakeFrom(c, k)
        /\ token' = IF n = 0 THEN token
                    ELSE [token EXCEPT ![c].currentProducer = k,
                                       ![c].itemsConsumedFromCurrent = n]
        /\ qpc' = [qpc EXCEPT ![c] = IF n = need[c] THEN "full" ELSE "next"]
        /\ ptr' = [ptr EXCEPT ![c] = IF n = need[c] THEN NoProducer ELSE NextProd(k, 1, tail[c])]
        /\ tail' = [tail EXCEPT ![c] = IF n = need[c] THEN 0 ELSE @]
        /\ UNCHANGED <<semaVars, prodVars, globalExplicitConsumerOffset>>

\* A round without enough: try_dequeue_bulk returns and is called again.
Scan_Again(c) ==
    /\ ptr[c] = token[c].currentProducer
    /\ ScanStep(c, "next", "token")
    /\ tail' = [tail EXCEPT ![c] = 0]
    /\ ptr' = [ptr EXCEPT ![c] = NoProducer]
    /\ UNCHANGED <<semaVars, prodVars, size, globalExplicitConsumerOffset, token, need>>

Scan_Done(c) ==
    /\ ScanStep(c, "full", "idle")
    /\ Return(c)
    /\ UNCHANGED <<prodVars, size, globalExplicitConsumerOffset, token, need, tail, ptr>>

-----------------------------------------------------------------------------
Enqueue(p) ==
    \/ AddProducer_Count(p) \/ AddProducer_Link(p) \/ Enqueue_Inner(p) \/ Enqueue_Signal(p)
    \/ Enqueue_Post(p)

Scan(c) ==
    \/ Scan_Token(c) \/ Scan_Rotate(c) \/ Scan_Current(c) \/ Scan_Next(c) \/ Scan_Again(c)
    \/ Scan_Done(c)

WaitDequeueBulkTimed(c) == Wait_Start(c) \/ Wait_Step(c) \/ Wait_Result(c) \/ Scan(c)

QNext ==
    \/ \E p \in Producers : Enqueue(p)
    \/ \E c \in Consumers : WaitDequeueBulkTimed(c)

QSpec == QInit /\ [][QNext]_queueVars

\* A thread that is inside enqueue goes on, and the consumers, worker and
\* logger threads, come back for ever.
QFairSpec ==
    /\ QSpec
    /\ \A p \in Producers : WF_queueVars(Enqueue_Signal(p) \/ Enqueue_Post(p))
    /\ \A c \in Consumers : WF_queueVars(WaitDequeueBulkTimed(c))

-----------------------------------------------------------------------------
\* The types of the queue and of the semaphore in it.
TypeOK ==
    /\ SemaTypeOK
    /\ Len(producerList) <= producerCount
    /\ size \in [Producers -> 0 .. MaxItems]
    /\ enqueued \in [Producers -> 0 .. MaxItems]
    /\ ppc \in [Producers -> {"new", "link", "idle", "signal"}]
    /\ qpc \in [Consumers -> {"idle", "token", "rotate", "current", "next", "full"}]
    /\ need \in [Consumers -> 0 .. MaxBatch]
    /\ \A c \in Consumers :
         /\ {token[c].currentProducer, token[c].desiredProducer, ptr[c], tail[c]}
              \subseteq 0 .. Len(producerList)
         /\ qpc[c] = "current" => token[c].currentProducer # NoProducer
         /\ qpc[c] = "next" => ptr[c] # NoProducer

\* The permits a consumer has and not yet an element for; the producers that
\* have enqueued an element and not signalled it.
Redeemable(c) == IF qpc[c] = "idle" THEN got[c] ELSE need[c]
Signalling == {p \in Producers : ppc[p] = "signal"}

\* A permit stands for an element: the permits, those a consumer still has
\* to redeem, and the signals not yet made are exactly the elements in the
\* sub-queues.  Otherwise "while (count != max)" spins on an empty queue, or
\* an element stays behind that no permit announces.  The threads that sleep
\* on the semaphore are accounted for as well.
PermitsMatchElements ==
    /\ Total(size) = Permits + Total([c \in Consumers |-> Redeemable(c)]) + Cardinality(Signalling)
    /\ SleepersAccounted

\* Elements do not stay behind, whatever producer they are with and however
\* timeouts, signals and rotations fall.
EverythingIsDequeued == \A p \in Producers : size[p] > 0 ~> size[p] = 0

=============================================================================
