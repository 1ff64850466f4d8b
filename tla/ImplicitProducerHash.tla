------------------------ MODULE ImplicitProducerHash ------------------------
(***************************************************************************)
(* How a thread that enqueues without a token finds its sub-queue:         *)
(* get_or_add_implicit_producer looks its id up in a chain of hash tables, *)
(* the newest first, and adds a producer, recycled or new, when it is not  *)
(* there; the thread's exit gives the producer back.  A table is doubled   *)
(* when half full, by one thread at a time.                                *)
(*                                                                         *)
(* Every access to a key is a step.  A value is read only by the thread    *)
(* that wrote it and is stored with its key.  A thread that has exited may *)
(* be followed by one with the same id (the address of a thread_local).    *)
(***************************************************************************)
EXTENDS Integers, Sequences, FiniteSets

CONSTANTS
    Ids,         \* thread ids
    Hash,        \* hash_thread_id
    InitialSize, \* INITIAL_IMPLICIT_PRODUCER_HASH_SIZE
    MaxTables,   \* bound: hash tables the heap can give
    MaxProducers,\* bound: producers the heap can give
    MaxExits,    \* bound: thread exits
    Empty,       \* invalid_thread_id
    Reusable     \* invalid_thread_id2

\* m is a power of two: no odd number divides it but 1.
PowerOfTwo(m) == \A d \in 1 .. m : m % d = 0 /\ d % 2 = 1 => d = 1

ASSUME HashAssumption ==
    /\ Hash \in [Ids -> Nat]
    /\ InitialSize \in Nat \ {0} /\ PowerOfTwo(InitialSize)
    /\ {MaxTables, MaxProducers, MaxExits} \subseteq Nat
    /\ {Empty, Reusable} \cap Ids = {} /\ Empty # Reusable

None == 0
Producers == 1 .. MaxProducers

VARIABLES
    tables,                    \* the hash tables, implicitProducerHash last
    implicitProducerHashCount,
    resizeInProgress,          \* implicitProducerHashResizeInProgress
    producerList,              \* the number of producers made, newest last
    inactive,                  \* producers that can be recycled
    notifierMutex,             \* ThreadExitNotifier::mutex
    holds,                     \* the producer of a thread
    exits,                     \* how many threads have exited
    hpc, main, tab, idx, newCount, prod

tableVars == <<tables, implicitProducerHashCount, resizeInProgress>>
prodVars  == <<producerList, inactive>>
hashLocals    == <<main, tab, idx, newCount, prod>>
hashVars == <<tableVars, prodVars, notifierMutex, holds, exits, hpc, hashLocals>>

NewTable(capacity) == [i \in 0 .. capacity - 1 |-> [key |-> Empty, value |-> None]]
Capacity(k) == Cardinality(DOMAIN tables[k])

HashInit ==
    /\ tables = <<NewTable(InitialSize)>>
    /\ implicitProducerHashCount = 0
    /\ resizeInProgress = FALSE
    /\ producerList = 0 /\ inactive = {}
    /\ notifierMutex = None
    /\ holds = [t \in Ids |-> None]
    /\ exits = 0
    /\ hpc = [t \in Ids |-> "idle"]
    /\ main = [t \in Ids |-> 0]
    /\ tab = [t \in Ids |-> 0]
    /\ idx = [t \in Ids |-> 0]
    /\ newCount = [t \in Ids |-> 0]
    /\ prod = [t \in Ids |-> None]

Move(t, from, to) == hpc[t] = from /\ hpc' = [hpc EXCEPT ![t] = to]
With(var, t, value) == [var EXCEPT ![t] = value]

\* The slot a thread looks at in table k, and the next one.
Slot(t, k) == idx[t] % Capacity(k)
KeyAt(t, k) == tables[k][Slot(t, k)].key
Advance(t, k) == idx' = With(idx, t, Slot(t, k) + 1)
Claim(t, k) == tables' = [tables EXCEPT ![k][Slot(t, k)] = [key |-> t, value |-> prod[t]]]

\* The end of get_or_add_implicit_producer, with a producer or without.
Finish(t, from, p) ==
    /\ Move(t, from, "idle")
    /\ holds' = With(holds, t, p)
    /\ main' = With(main, t, 0) /\ tab' = With(tab, t, 0) /\ idx' = With(idx, t, 0)
    /\ newCount' = With(newCount, t, 0) /\ prod' = With(prod, t, None)

-----------------------------------------------------------------------------
(* The search, table by table.                                              *)

Lookup(t) ==
    /\ Move(t, "idle", "probe")
    /\ main' = With(main, t, Len(tables))
    /\ tab' = With(tab, t, Len(tables))
    /\ idx' = With(idx, t, Hash[t])
    /\ UNCHANGED <<tableVars, prodVars, notifierMutex, holds, newCount, prod>>

Probe_Found(t) ==
    /\ hpc[t] = "probe" /\ KeyAt(t, tab[t]) = t
    /\ LET value == tables[tab[t]][Slot(t, tab[t])].value IN
       IF tab[t] = main[t]
       THEN Finish(t, "probe", value)
       ELSE /\ Move(t, "probe", "copy")
            /\ prod' = With(prod, t, value)
            /\ idx' = With(idx, t, Hash[t])
            /\ UNCHANGED <<holds, main, tab, newCount>>
    /\ UNCHANGED <<tableVars, prodVars, notifierMutex>>

\* Only the newest table is searched.
Probe_Empty_Newest(t) ==
    /\ hpc[t] = "probe" /\ KeyAt(t, tab[t]) = Empty
    /\ Move(t, "probe", "count")
    /\ tab' = With(tab, t, 0)
    /\ idx' = With(idx, t, Hash[t])
    /\ UNCHANGED <<tableVars, prodVars, notifierMutex, holds, main, newCount, prod>>

\* An empty slot ends the search of a table.
Probe_Empty(t) ==
    /\ hpc[t] = "probe" /\ KeyAt(t, tab[t]) = Empty
    /\ Move(t, "probe", IF tab[t] = 1 THEN "count" ELSE "probe")
    /\ tab' = With(tab, t, tab[t] - 1)
    /\ idx' = With(idx, t, Hash[t])
    /\ UNCHANGED <<tableVars, prodVars, notifierMutex, holds, main, newCount, prod>>

Probe_Other(t) ==
    /\ hpc[t] = "probe" /\ KeyAt(t, tab[t]) \notin {t, Empty}
    /\ Advance(t, tab[t])
    /\ UNCHANGED <<tableVars, prodVars, notifierMutex, holds, hpc, main, tab, newCount, prod>>

\* Found in an older table: put it in the newest one that was seen, too.
Copy(t) ==
    /\ hpc[t] = "copy"
    /\ IF KeyAt(t, main[t]) \in {Empty, Reusable}
       THEN Claim(t, main[t]) /\ Finish(t, "copy", prod[t])
       ELSE Advance(t, main[t]) /\ UNCHANGED <<tables, hpc, holds, main, tab, newCount, prod>>
    /\ UNCHANGED <<implicitProducerHashCount, resizeInProgress, prodVars, notifierMutex>>

-----------------------------------------------------------------------------
(* The insertion.                                                           *)

Count(t) ==
    /\ Move(t, "count", "full")
    /\ implicitProducerHashCount' = implicitProducerHashCount + 1
    /\ newCount' = With(newCount, t, implicitProducerHashCount + 1)
    /\ UNCHANGED <<tables, resizeInProgress, prodVars, notifierMutex, holds, main, tab, idx, prod>>

HalfFull(n, k) == n >= Capacity(k) \div 2
ThreeQuartersFull(n, k) == n >= (Capacity(k) \div 2) + (Capacity(k) \div 4)

\* The thread that sets the flag resizes, others go on.
Resize_Lock(t) ==
    /\ hpc[t] = "full" /\ HalfFull(newCount[t], main[t]) /\ ~resizeInProgress
    /\ resizeInProgress' = TRUE
    /\ Move(t, "full", "resize")
    /\ main' = With(main, t, Len(tables))
    /\ UNCHANGED <<tables, implicitProducerHashCount, prodVars, notifierMutex, holds, tab, idx,
                   newCount, prod>>

Resize_Skip(t) ==
    /\ hpc[t] = "full" /\ (HalfFull(newCount[t], main[t]) => resizeInProgress)
    /\ Move(t, "full", "room")
    /\ UNCHANGED <<tableVars, prodVars, notifierMutex, holds, hashLocals>>

\* The capacity is doubled until less than half of it is counted.
Grown(n, capacity) ==
    LET fits == {m \in 2 .. 4 * (n + 1) : PowerOfTwo(m) /\ n < (capacity * m) \div 2}
    IN  capacity * (CHOOSE m \in fits : \A other \in fits : m <= other)

Resize(t) ==
    /\ hpc[t] = "resize" /\ resizeInProgress' = FALSE
    /\ \/ /\ Move(t, "resize", "room")
          /\ HalfFull(newCount[t], main[t]) /\ Len(tables) < MaxTables
          /\ tables' = Append(tables, NewTable(Grown(newCount[t], Capacity(main[t]))))
          /\ main' = With(main, t, Len(tables) + 1)
          /\ UNCHANGED <<implicitProducerHashCount, holds, tab, idx, newCount, prod>>
       \/ /\ Move(t, "resize", "room")
          /\ ~HalfFull(newCount[t], main[t])
          /\ UNCHANGED <<tables, implicitProducerHashCount, holds, hashLocals>>
       \/ \* no memory: the enqueue fails
          /\ HalfFull(newCount[t], main[t])
          /\ Finish(t, "resize", None)
          /\ implicitProducerHashCount' = implicitProducerHashCount - 1
          /\ UNCHANGED tables
    /\ UNCHANGED <<prodVars, notifierMutex>>

\* A table that is three quarters full waits for the next one.
Room(t) ==
    /\ hpc[t] = "room"
    /\ IF ThreeQuartersFull(newCount[t], main[t])
       THEN Move(t, "room", "full") /\ main' = With(main, t, Len(tables)) /\ UNCHANGED tab
       ELSE Move(t, "room", "recycle") /\ tab' = With(tab, t, producerList) /\ UNCHANGED main
    /\ UNCHANGED <<tableVars, prodVars, notifierMutex, holds, idx, newCount, prod>>

\* The CAS on "inactive" is a plain store.
Recycle_Store(t) ==
    /\ hpc[t] = "recycle" /\ tab[t] # 0
    /\ \E taken \in BOOLEAN :
         /\ taken <=> (tab[t] \in inactive \/ \E s \in Ids : hpc[s] = "subscribe" /\ prod[s] = tab[t])
         /\ inactive' = inactive \ (IF taken THEN {tab[t]} ELSE {})
         /\ prod' = IF taken THEN With(prod, t, tab[t]) ELSE prod
         /\ Move(t, "recycle", IF taken THEN "subscribe" ELSE "recycle")
    /\ tab' = With(tab, t, tab[t] - 1)
    /\ UNCHANGED <<tableVars, producerList, notifierMutex, holds, main, idx, newCount>>

\* recycle_or_create_producer walks the list from its newest producer.
Recycle(t) ==
    /\ hpc[t] = "recycle" /\ tab[t] # 0
    /\ IF tab[t] \in inactive
       THEN /\ inactive' = inactive \ {tab[t]}
            /\ prod' = With(prod, t, tab[t])
            /\ Move(t, "recycle", "subscribe")
       ELSE UNCHANGED <<inactive, prod, hpc>>
    /\ tab' = With(tab, t, tab[t] - 1)
    /\ UNCHANGED <<tableVars, producerList, notifierMutex, holds, main, idx, newCount>>

Create(t) ==
    /\ hpc[t] = "recycle" /\ tab[t] = 0
    /\ \/ /\ producerList < MaxProducers
          /\ Move(t, "recycle", "subscribe")
          /\ producerList' = producerList + 1
          /\ prod' = With(prod, t, producerList + 1)
          /\ UNCHANGED <<implicitProducerHashCount, holds, main, tab, idx, newCount>>
       \/ \* no memory
          /\ Finish(t, "recycle", None)
          /\ implicitProducerHashCount' = implicitProducerHashCount - 1
          /\ UNCHANGED producerList
    /\ UNCHANGED <<tables, resizeInProgress, inactive, notifierMutex>>

\* ThreadExitNotifier::subscribe
Subscribe(t) ==
    /\ notifierMutex = None
    /\ Move(t, "subscribe", "insert")
    /\ UNCHANGED <<tableVars, prodVars, notifierMutex, holds, hashLocals>>

\* The first slot that is reusable, and counted already, or empty.
Insert(t) ==
    /\ hpc[t] = "insert"
    /\ IF KeyAt(t, main[t]) \in {Empty, Reusable}
       THEN /\ Claim(t, main[t])
            /\ implicitProducerHashCount' = implicitProducerHashCount -
                  (IF KeyAt(t, main[t]) = Reusable THEN 1 ELSE 0)
            /\ Finish(t, "insert", prod[t])
       ELSE /\ Advance(t, main[t])
            /\ UNCHANGED <<tables, implicitProducerHashCount, hpc, holds, main, tab, newCount, prod>>
    /\ UNCHANGED <<resizeInProgress, prodVars, notifierMutex>>

GetOrAddImplicitProducer(t) ==
    /\ \/ Lookup(t) \/ Probe_Found(t) \/ Probe_Empty(t) \/ Probe_Other(t) \/ Copy(t) \/ Count(t)
       \/ Resize_Lock(t) \/ Resize_Skip(t) \/ Resize(t) \/ Room(t) \/ Recycle(t) \/ Create(t)
       \/ Subscribe(t) \/ Insert(t)
    /\ UNCHANGED exits

-----------------------------------------------------------------------------
(* ~ThreadExitNotifier calls implicit_producer_thread_exited, which takes   *)
(* the id out of every table and then retires the producer.                 *)

Exit(t) ==
    /\ holds[t] # None /\ notifierMutex = None /\ exits < MaxExits
    /\ exits' = exits + 1
    /\ notifierMutex' = t
    /\ Move(t, "idle", "exit")
    /\ tab' = With(tab, t, Len(tables))
    /\ idx' = With(idx, t, Hash[t])
    /\ UNCHANGED <<tableVars, prodVars, holds, main, newCount, prod>>

Exit_Probe(t) ==
    /\ hpc[t] = "exit"
    /\ IF KeyAt(t, tab[t]) \in {t, Empty}
       THEN /\ tables' = [tables EXCEPT ![tab[t]][Slot(t, tab[t])].key =
                             IF @ = t THEN Reusable ELSE @]
            /\ Move(t, "exit", IF tab[t] = 1 THEN "retire" ELSE "exit")
            /\ tab' = With(tab, t, tab[t] - 1)
            /\ idx' = With(idx, t, Hash[t])
       ELSE Advance(t, tab[t]) /\ UNCHANGED <<tables, hpc, tab>>
    /\ UNCHANGED <<implicitProducerHashCount, resizeInProgress, prodVars, notifierMutex, holds,
                   main, newCount, prod>>

Exit_Retire(t) ==
    /\ Move(t, "retire", "idle")
    /\ inactive' = inactive \cup {holds[t]}
    /\ holds' = With(holds, t, None)
    /\ idx' = With(idx, t, 0)
    /\ notifierMutex' = None
    /\ UNCHANGED <<tableVars, producerList, main, tab, newCount, prod>>

ThreadExit(t) == Exit(t) \/ (UNCHANGED exits /\ (Exit_Probe(t) \/ Exit_Retire(t)))

HashNext == \E t \in Ids : GetOrAddImplicitProducer(t) \/ ThreadExit(t)

HashSpec == HashInit /\ [][HashNext]_hashVars

-----------------------------------------------------------------------------
\* The types of the tables and the producers.
HashTypeOK ==
    /\ \A k \in 1 .. Len(tables) : \A i \in DOMAIN tables[k] :
         tables[k][i] \in [key : Ids \cup {Empty, Reusable}, value : Producers \cup {None}]
    /\ implicitProducerHashCount \in 0 .. InitialSize * 2^MaxTables
    /\ producerList \in 0 .. MaxProducers
    /\ inactive \subseteq 1 .. producerList
    /\ holds \in [Ids -> Producers \cup {None}]
    /\ prod \in [Ids -> Producers \cup {None}]

Using(t) == {holds[t], prod[t]} \ {None}

\* A sub-queue has one producer thread: no two threads that are alive have the
\* same one, a recycled one included, and one in use is not marked inactive.
\* enqueue relies on it.
OneThreadPerProducer ==
    /\ \A s, t \in Ids : s # t => Using(s) \cap Using(t) = {}
    /\ \A t \in Ids : Using(t) \cap inactive = {}

\* A thread that has a producer finds it again, in whatever table its key is:
\* it does not get a second one, in which its elements would overtake the
\* earlier ones.  An id leaves nothing behind: the key of a thread is only in a
\* table while the thread has the producer beside it.
FindsItsProducer ==
    /\ \A t \in Ids :
        /\ hpc[t] \in {"count", "full", "resize", "room", "recycle", "subscribe", "insert"} =>
             holds[t] = None
        /\ hpc[t] = "copy" => prod[t] = holds[t]
    /\ \A k \in 1 .. Len(tables) : \A i \in DOMAIN tables[k] :
        LET e == tables[k][i] IN
        e.key \in Ids => holds[e.key] = e.value \/ hpc[e.key] \in {"exit", "retire"}

\* There is "guaranteed to be room in the current hash table" because each slot
\* in use is "already counted as a used slot": the one count covers the slots of
\* the newest table.
CountCoversSlots ==
    LET newest == tables[Len(tables)]
    IN  Cardinality({i \in DOMAIN newest : newest[i].key # Empty}) <= implicitProducerHashCount

=============================================================================
