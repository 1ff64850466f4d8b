------------------------------ MODULE Producer ------------------------------
(***************************************************************************)
(* One sub-queue of moodycamel::ConcurrentQueue: the ExplicitProducer      *)
(* behind a producer token (the logger's) or the ImplicitProducer of a     *)
(* thread (writeQueue).  One thread enqueues, any number of consumers      *)
(* dequeue.  The elements lie in blocks of BlockSize; a block index leads  *)
(* from an element's number to its block.                                  *)
(*                                                                         *)
(* An element is its own number.  index_t has 64 bits and starts at 0, so  *)
(* no index wraps; Leeway stands for 2^63, and the differences that        *)
(* circular_less_than compares are taken modulo 2 * Leeway.  The free list *)
(* is a set here (FreeList models it), and the atomics are sequentially    *)
(* consistent.  The move of a LogTask is noexcept, so the path of the      *)
(* explicit producer for a throwing constructor is compiled out.           *)
(***************************************************************************)
EXTENDS Integers, Sequences, FiniteSets, SequencesExt, FiniteSetsExt, Sums

CONSTANTS
    Consumers,   \* threads that dequeue
    BlockSize,   \* BLOCK_SIZE
    IndexSize,   \* EXPLICIT_ and IMPLICIT_INITIAL_INDEX_SIZE
    PoolSize,    \* initialBlockPoolSize
    MaxBlocks,   \* bound: blocks the heap can give, the pool included
    MaxItems,    \* bound: elements enqueued
    MaxBatch,    \* the largest "max" of a dequeue_bulk
    Leeway,      \* 2^63 in the code; no thread sleeps through so many elements
    MaxOvercommit \* bound, by isExplicit: no consumer starts above it

ASSUME ProducerAssumption ==
    /\ IsFiniteSet(Consumers)
    /\ BlockSize \in Nat \ {0, 1}
    /\ IndexSize \in Nat \ {0, 1}
    /\ {PoolSize, MaxItems, MaxBatch} \subseteq Nat /\ MaxOvercommit \in [BOOLEAN -> Nat]
    /\ Leeway \in Nat \ {0}
    /\ MaxBlocks \in Nat /\ PoolSize <= MaxBlocks

Blocks  == 1 .. MaxBlocks
NoBlock == 0                    \* nullptr
NoBase  == -1                   \* INVALID_BLOCK_BASE, no index of a block
Gone    == -1                   \* a slot that holds no element
Offsets == 0 .. BlockSize - 1

VARIABLES
    isExplicit,        \* which of the two producers this is
    tailIndex, headIndex, dequeueOptimisticCount, dequeueOvercommit,
    ring,              \* explicit: the circular list, tailBlock last
                       \* implicit: tailBlock alone
    elements, emptyFlags, elementsCompletelyDequeued, \* the blocks
    home,              \* who has a block: "pool", "list", "heap" or "used"
    entries,           \* the BlockIndexEntry objects
    headers,           \* the BlockIndexHeader objects, the current one last
    pr_blockIndexSlotsUsed, pr_blockIndexFront,
    ppc,               \* where the producer's thread is
    cpc, loc,          \* where a consumer is, and its local variables
    alive              \* the destructor has not run

prodVars == <<tailIndex, ring, pr_blockIndexSlotsUsed, pr_blockIndexFront, ppc, headers>>
consVars == <<headIndex, dequeueOptimisticCount, dequeueOvercommit, cpc, loc>>
blockVars == <<elements, emptyFlags, elementsCompletelyDequeued, home>>
vars == <<isExplicit, prodVars, consVars, blockVars, entries, alive>>

NoLocals == [max |-> 0, tail |-> 0, over |-> 0, want |-> 0, mine |-> 0, n |-> 0,
             idx |-> 0, last |-> 0, hdr |-> 0, cur |-> 0, slot |-> 0, blk |-> NoBlock]

CircularLessThan(a, b) == (a - b) % (2 * Leeway) > Leeway
BlockBase(i) == i - (i % BlockSize)
Header  == headers[Len(headers)]
SizeOf(h) == Cardinality(DOMAIN h.slot)
NoEntry == [base |-> NoBase, block |-> NoBlock]

\* The constructors: an index of IndexSize entries, no block yet.
Init ==
    /\ isExplicit \in BOOLEAN
    /\ tailIndex = 0 /\ headIndex = 0
    /\ dequeueOptimisticCount = 0 /\ dequeueOvercommit = 0
    /\ ring = <<>>
    /\ elements = [b \in Blocks |-> [o \in Offsets |-> Gone]]
    /\ emptyFlags = [b \in Blocks |-> {}]
    /\ elementsCompletelyDequeued = [b \in Blocks |-> 0]
    /\ home = [b \in Blocks |-> IF b <= PoolSize THEN "pool" ELSE "heap"]
    /\ entries = [i \in 1 .. IndexSize |-> NoEntry]
    /\ headers = << [cur |-> IF isExplicit THEN -1 ELSE IndexSize - 1,
                      slot |-> [i \in 0 .. IndexSize - 1 |-> i + 1]] >>
    /\ pr_blockIndexSlotsUsed = 0 /\ pr_blockIndexFront = 0
    /\ ppc = "idle"
    /\ cpc = [c \in Consumers |-> "idle"]
    /\ loc = [c \in Consumers |-> NoLocals]
    /\ alive = TRUE

-----------------------------------------------------------------------------
(* Blocks.  requisition_block takes from the initial pool, else from the    *)
(* free list, else from the heap, which may be exhausted.  Given back, a    *)
(* block of the pool goes to the free list and another one to the heap.     *)

At(place) == {b \in Blocks : home[b] = place}
RequisitionBlock ==
    CASE At("pool") # {} -> {Min(At("pool"))}
      [] At("pool") = {} /\ At("list") # {} -> At("list")
      [] OTHER -> At("heap")
OutOfMemory == At("pool") = {} /\ At("list") = {}
AddBlockToFreeList(b) == IF b > PoolSize THEN "heap" ELSE "list"

-----------------------------------------------------------------------------
(* enqueue, by the producer's thread.  Its private steps up to the next     *)
(* store another thread can see are one action.                             *)

CanEnqueue == alive /\ ppc = "idle" /\ tailIndex < MaxItems
AtBoundary == tailIndex % BlockSize = 0
HasLeeway  == CircularLessThan(headIndex, tailIndex + BlockSize)
Construct(b) == [elements EXCEPT ![b][tailIndex % BlockSize] = tailIndex]

Enqueue_InBlock ==
    /\ CanEnqueue /\ ~AtBoundary
    /\ elements' = Construct(Last(ring))
    /\ ppc' = "tail"
    /\ UNCHANGED <<isExplicit, tailIndex, ring, pr_blockIndexSlotsUsed, pr_blockIndexFront,
                   headers, consVars, emptyFlags, elementsCompletelyDequeued, home, entries, alive>>

Enqueue_Tail ==
    /\ ppc = "tail"
    /\ tailIndex' = tailIndex + 1
    /\ ppc' = "idle"
    /\ UNCHANGED <<isExplicit, ring, pr_blockIndexSlotsUsed, pr_blockIndexFront, headers,
                   consVars, blockVars, entries, alive>>

(* The explicit producer reuses the block ahead of it when all its flags    *)
(* are set, else it inserts a new block, in a larger index if this one is   *)
(* full.                                                                    *)

IsEmptyExplicit(b) == emptyFlags[b] = Offsets
Reusable == ring # <<>> /\ IsEmptyExplicit(Head(ring))

Enqueue_Reuse ==
    /\ CanEnqueue /\ AtBoundary /\ isExplicit /\ Reusable
    /\ ring' = Append(Tail(ring), Head(ring))
    /\ emptyFlags' = [emptyFlags EXCEPT ![Head(ring)] = {}]
    /\ ppc' = "entry"
    /\ UNCHANGED <<isExplicit, tailIndex, pr_blockIndexSlotsUsed, pr_blockIndexFront, headers,
                   consVars, elements, elementsCompletelyDequeued, home, entries, alive>>

\* new_block_index: twice the size, the entries in use copied to its start.
OldestSlot(i) == (pr_blockIndexFront - pr_blockIndexSlotsUsed + i) % SizeOf(Header)
\* The copy begins at the first slot instead of the oldest entry.
GrownEntries_Unrotated ==
    entries \o [i \in 1 .. 2 * SizeOf(Header) |->
        IF i <= pr_blockIndexSlotsUsed THEN entries[Header.slot[i - 1]] ELSE NoEntry]

GrownEntries ==
    entries \o [i \in 1 .. 2 * SizeOf(Header) |->
        IF i <= pr_blockIndexSlotsUsed THEN entries[Header.slot[OldestSlot(i - 1)]] ELSE NoEntry]
GrownHeader ==
    [cur  |-> pr_blockIndexSlotsUsed - 1,
     slot |-> [i \in 0 .. 2 * SizeOf(Header) - 1 |-> Len(entries) + i + 1]]

Enqueue_NewBlock ==
    /\ CanEnqueue /\ AtBoundary /\ isExplicit /\ ~Reusable /\ HasLeeway
    /\ IF pr_blockIndexSlotsUsed = SizeOf(Header)
       THEN /\ entries' = GrownEntries
            /\ headers' = Append(headers, GrownHeader)
            /\ pr_blockIndexFront' = pr_blockIndexSlotsUsed
       ELSE UNCHANGED <<entries, headers, pr_blockIndexFront>>
    /\ \/ \E b \in RequisitionBlock :
            /\ home' = [home EXCEPT ![b] = "used"]
            /\ emptyFlags' = [emptyFlags EXCEPT ![b] = {}]
            /\ ring' = Append(ring, b)
            /\ pr_blockIndexSlotsUsed' = pr_blockIndexSlotsUsed + 1
            /\ ppc' = "entry"
       \/ /\ OutOfMemory
          /\ UNCHANGED <<home, emptyFlags, ring, pr_blockIndexSlotsUsed, ppc>>
    /\ UNCHANGED <<isExplicit, tailIndex, consVars, elements, elementsCompletelyDequeued, alive>>

Enqueue_Entry ==
    /\ ppc = "entry"
    /\ entries' = [entries EXCEPT ![Header.slot[pr_blockIndexFront]] =
                       [base |-> tailIndex, block |-> Last(ring)]]
    /\ ppc' = "front"
    /\ UNCHANGED <<isExplicit, tailIndex, ring, pr_blockIndexSlotsUsed, pr_blockIndexFront,
                   headers, consVars, blockVars, alive>>

Enqueue_Front ==
    /\ ppc = "front"
    /\ headers' = [headers EXCEPT ![Len(headers)].cur = pr_blockIndexFront]
    /\ pr_blockIndexFront' = (pr_blockIndexFront + 1) % SizeOf(Header)
    /\ elements' = Construct(Last(ring))
    /\ ppc' = "tail"
    /\ UNCHANGED <<isExplicit, tailIndex, ring, pr_blockIndexSlotsUsed, consVars, emptyFlags,
                   elementsCompletelyDequeued, home, entries, alive>>

(* The implicit producer takes the next slot of the index, which is free    *)
(* when its block was given back.  The entries of a smaller index are part  *)
(* of the larger one.                                                       *)

FreeSlot(h) == LET e == entries[h.slot[(h.cur + 1) % SizeOf(h)]]
               IN  e.base = NoBase \/ e.block = NoBlock
SharedHeader ==
    LET n == SizeOf(Header)
    IN  [cur  |-> n - 1,
         slot |-> [i \in 0 .. 2 * n - 1 |->
                     IF i < n THEN Header.slot[(Header.cur + 1 + i) % n]
                              ELSE Len(entries) + i - n + 1]]

InsertInto(h) == [h EXCEPT !.cur = (h.cur + 1) % SizeOf(h)]
KeyOf(h, all) == [all EXCEPT ![h.slot[(h.cur + 1) % SizeOf(h)]].base = tailIndex]

Enqueue_Insert ==
    /\ CanEnqueue /\ AtBoundary /\ ~isExplicit /\ HasLeeway
    /\ IF FreeSlot(Header)
       THEN /\ entries' = KeyOf(Header, entries)
            /\ headers' = [headers EXCEPT ![Len(headers)] = InsertInto(Header)]
       ELSE /\ entries' = KeyOf(SharedHeader,
                                entries \o [i \in 1 .. SizeOf(Header) |-> NoEntry])
            /\ headers' = Append(headers, InsertInto(SharedHeader))
    /\ ppc' = "block"
    /\ UNCHANGED <<isExplicit, tailIndex, ring, pr_blockIndexSlotsUsed, pr_blockIndexFront,
                   consVars, blockVars, alive>>

\* Without the reset of the block's counter.
Enqueue_Take_NoReset ==
    /\ ppc = "block"
    /\ \E b \in RequisitionBlock :
         /\ home' = [home EXCEPT ![b] = "used"]
         /\ elements' = Construct(b)
         /\ entries' = [entries EXCEPT ![Header.slot[Header.cur]].block = b]
         /\ ring' = <<b>>
    /\ ppc' = "tail"
    /\ UNCHANGED <<isExplicit, tailIndex, pr_blockIndexSlotsUsed, pr_blockIndexFront, headers,
                   consVars, emptyFlags, elementsCompletelyDequeued, alive>>

Enqueue_Take ==
    /\ ppc = "block"
    /\ \E b \in RequisitionBlock :
         /\ home' = [home EXCEPT ![b] = "used"]
         /\ elementsCompletelyDequeued' = [elementsCompletelyDequeued EXCEPT ![b] = 0]
         /\ elements' = Construct(b)
         /\ entries' = [entries EXCEPT ![Header.slot[Header.cur]].block = b]
         /\ ring' = <<b>>
    /\ ppc' = "tail"
    /\ UNCHANGED <<isExplicit, tailIndex, pr_blockIndexSlotsUsed, pr_blockIndexFront, headers,
                   consVars, emptyFlags, alive>>

RewindBlockIndexTail == [headers EXCEPT ![Len(headers)].cur = (@ - 1) % SizeOf(Header)]

\* No block, or the copy of the element threw: the slot is given back, and
\* so is the block.
Enqueue_Undo ==
    /\ ppc = "block"
    /\ headers' = RewindBlockIndexTail
    /\ entries' = [entries EXCEPT ![Header.slot[Header.cur]].block = NoBlock]
    /\ \/ OutOfMemory /\ UNCHANGED home
       \/ \E b \in RequisitionBlock : home' = [home EXCEPT ![b] = AddBlockToFreeList(b)]
    /\ ppc' = "idle"
    /\ UNCHANGED <<isExplicit, tailIndex, ring, pr_blockIndexSlotsUsed, pr_blockIndexFront,
                   consVars, elements, emptyFlags, elementsCompletelyDequeued, alive>>

-----------------------------------------------------------------------------
(* dequeue_bulk, by consumer c; dequeue is the case max = 1.                *)

ConsumerStep(c, from, to, l) ==
    /\ alive /\ cpc[c] = from
    /\ cpc' = [cpc EXCEPT ![c] = to]
    /\ loc' = [loc EXCEPT ![c] = l]
    /\ UNCHANGED <<isExplicit, prodVars, alive>>

Dequeue_Tail(c) ==
    /\ dequeueOvercommit <= MaxOvercommit[isExplicit]
    /\ \E m \in 1 .. MaxBatch :
         ConsumerStep(c, "idle", "over", [NoLocals EXCEPT !.max = m, !.tail = tailIndex])
    /\ UNCHANGED <<headIndex, dequeueOptimisticCount, dequeueOvercommit, blockVars, entries>>

Dequeue_Over(c) ==
    /\ ConsumerStep(c, "over", "count", [loc[c] EXCEPT !.over = dequeueOvercommit])
    /\ UNCHANGED <<headIndex, dequeueOptimisticCount, dequeueOvercommit, blockVars, entries>>

\* Are there elements nobody has claimed?  If not, return 0.
Dequeue_Count(c) ==
    LET desired == loc[c].tail - (dequeueOptimisticCount - loc[c].over) IN
    /\ IF CircularLessThan(0, desired)
       THEN ConsumerStep(c, "count", "claim",
                [loc[c] EXCEPT !.want = Min({desired, loc[c].max}), !.max = 0, !.tail = 0])
       ELSE ConsumerStep(c, "count", "idle", NoLocals)
    /\ UNCHANGED <<headIndex, dequeueOptimisticCount, dequeueOvercommit, blockVars, entries>>

Dequeue_Claim(c) ==
    /\ ConsumerStep(c, "claim", "recheck", [loc[c] EXCEPT !.mine = dequeueOptimisticCount])
    /\ dequeueOptimisticCount' = dequeueOptimisticCount + loc[c].want
    /\ UNCHANGED <<headIndex, dequeueOvercommit, blockVars, entries>>

\* No second look at the tail: what was claimed is taken to exist.
Dequeue_Recheck_Trusts(c) ==
    /\ ConsumerStep(c, "recheck", "head",
                    [loc[c] EXCEPT !.n = loc[c].want, !.mine = 0, !.over = 0])
    /\ UNCHANGED <<headIndex, dequeueOptimisticCount, dequeueOvercommit, blockVars, entries>>

\* How many of the claimed elements exist.
Dequeue_Recheck(c) ==
    LET actual == tailIndex - (loc[c].mine - loc[c].over)
        n == IF CircularLessThan(0, actual) THEN Min({loc[c].want, actual}) ELSE 0
    IN  /\ ConsumerStep(c, "recheck", IF n < loc[c].want THEN "give" ELSE "head",
                        [loc[c] EXCEPT !.n = n, !.mine = 0, !.over = 0])
        /\ UNCHANGED <<headIndex, dequeueOptimisticCount, dequeueOvercommit, blockVars, entries>>

\* The claim on the others is returned.
Dequeue_Give(c) ==
    /\ ConsumerStep(c, "give", IF loc[c].n = 0 THEN "idle" ELSE "head",
                    IF loc[c].n = 0 THEN NoLocals ELSE [loc[c] EXCEPT !.want = loc[c].n])
    /\ dequeueOvercommit' = dequeueOvercommit + (loc[c].want - loc[c].n)
    /\ UNCHANGED <<headIndex, dequeueOptimisticCount, blockVars, entries>>

Dequeue_Head(c) ==
    /\ ConsumerStep(c, "head", "index",
           [NoLocals EXCEPT !.idx = headIndex, !.last = headIndex + loc[c].n])
    /\ headIndex' = headIndex + loc[c].n
    /\ UNCHANGED <<dequeueOptimisticCount, dequeueOvercommit, blockVars, entries>>

Dequeue_Index(c) ==
    /\ ConsumerStep(c, "index", "cur", [loc[c] EXCEPT !.hdr = Len(headers)])
    /\ UNCHANGED <<headIndex, dequeueOptimisticCount, dequeueOvercommit, blockVars, entries>>

Dequeue_Cur(c) ==
    /\ ConsumerStep(c, "cur", "slot", [loc[c] EXCEPT !.cur = headers[loc[c].hdr].cur])
    /\ UNCHANGED <<headIndex, dequeueOptimisticCount, dequeueOvercommit, blockVars, entries>>

\* The slot of the first element's block, counted from the current slot.
Dequeue_Slot(c) ==
    LET h == headers[loc[c].hdr]
        offset == (BlockBase(loc[c].idx) - entries[h.slot[loc[c].cur]].base) \div BlockSize
    IN  /\ ConsumerStep(c, "slot", "read",
               [loc[c] EXCEPT !.slot = (loc[c].cur + offset) % SizeOf(h), !.cur = 0])
        /\ UNCHANGED <<headIndex, dequeueOptimisticCount, dequeueOvercommit, blockVars, entries>>

EntryOf(c)  == headers[loc[c].hdr].slot[loc[c].slot]
EndIndex(c) == Min({loc[c].last, BlockBase(loc[c].idx) + BlockSize})
InBlock(c)  == loc[c].idx .. EndIndex(c) - 1
SlotsOf(c)  == {i % BlockSize : i \in InBlock(c)}

\* Move the elements of one block out and destroy them.
Dequeue_Read(c) ==
    LET b == entries[EntryOf(c)].block IN
    /\ ConsumerStep(c, "read", "empty", [loc[c] EXCEPT !.blk = b])
    /\ elements' = [elements EXCEPT ![b] = [o \in Offsets |-> IF o \in SlotsOf(c) THEN Gone ELSE elements[b][o]]]
    /\ UNCHANGED <<headIndex, dequeueOptimisticCount, dequeueOvercommit, emptyFlags,
                   elementsCompletelyDequeued, home, entries>>

NextBlockOr(c, from) ==
    IF EndIndex(c) = loc[c].last
    THEN ConsumerStep(c, from, "idle", NoLocals)
    ELSE ConsumerStep(c, from, "read",
             [loc[c] EXCEPT !.idx = EndIndex(c), !.slot = (@ + 1) % SizeOf(headers[loc[c].hdr]),
                            !.blk = NoBlock])

\* set_many_empty
Dequeue_Empty_Explicit(c) ==
    /\ isExplicit
    /\ NextBlockOr(c, "empty")
    /\ emptyFlags' = [emptyFlags EXCEPT ![loc[c].blk] = @ \cup SlotsOf(c)]
    /\ UNCHANGED <<headIndex, dequeueOptimisticCount, dequeueOvercommit, elements,
                   elementsCompletelyDequeued, home, entries>>

Dequeue_Empty_Implicit(c) ==
    LET b == loc[c].blk
        total == elementsCompletelyDequeued[b] + Cardinality(SlotsOf(c))
    IN  /\ ~isExplicit /\ cpc[c] = "empty"
        /\ IF total = BlockSize THEN ConsumerStep(c, "empty", "null", loc[c])
                                ELSE NextBlockOr(c, "empty")
        /\ elementsCompletelyDequeued' = [elementsCompletelyDequeued EXCEPT ![b] = total]
        /\ UNCHANGED <<headIndex, dequeueOptimisticCount, dequeueOvercommit, elements,
                       emptyFlags, home, entries>>

Dequeue_Null(c) ==
    /\ ConsumerStep(c, "null", "free", loc[c])
    /\ entries' = [entries EXCEPT ![EntryOf(c)].block = NoBlock]
    /\ UNCHANGED <<headIndex, dequeueOptimisticCount, dequeueOvercommit, blockVars>>

Dequeue_Free(c) ==
    /\ NextBlockOr(c, "free")
    /\ home' = [home EXCEPT ![loc[c].blk] = AddBlockToFreeList(loc[c].blk)]
    /\ UNCHANGED <<headIndex, dequeueOptimisticCount, dequeueOvercommit, elements, emptyFlags,
                   elementsCompletelyDequeued, entries>>

-----------------------------------------------------------------------------
(* The destructors run when nobody uses the queue.                          *)

Quiescent == ppc = "idle" /\ \A c \in Consumers : cpc[c] = "idle"

\* Explicit: every block of the ring that is not empty, from the head index
\* if the head lies inside it, up to the tail index in the tail block.
HalfDequeued(b) ==
    /\ headIndex % BlockSize # 0
    /\ \E i \in 0 .. pr_blockIndexSlotsUsed - 1 :
         LET e == entries[Header.slot[OldestSlot(i)]]
         IN  e.block = b /\ e.base = BlockBase(headIndex)
LastValid == IF AtBoundary THEN BlockSize ELSE tailIndex % BlockSize
\* The first block is destructed from its start, wherever the head is.
DestructedExplicit_Whole ==
    UNION {{b} \X {o \in Offsets : b = Last(ring) => o < LastValid} :
             b \in {r \in ToSet(ring) : ~IsEmptyExplicit(r)}}

DestructedExplicit ==
    UNION {{b} \X {o \in Offsets :
                      /\ HalfDequeued(b) => o >= headIndex % BlockSize
                      /\ b = Last(ring) => o < LastValid} :
             b \in {r \in ToSet(ring) : ~IsEmptyExplicit(r)}}

\* Implicit: the elements from head to tail, each block found in the index.
BlockAt(i) ==
    LET offset == (BlockBase(i) - entries[Header.slot[Header.cur]].base) \div BlockSize
    IN  entries[Header.slot[(Header.cur + offset) % SizeOf(Header)]].block
DestructedImplicit == {<<BlockAt(i), i % BlockSize>> : i \in headIndex .. tailIndex - 1}

\* A block is given back when the loop goes on to the next one, and tailBlock
\* at the end.
BlockEnds == {i \in headIndex .. tailIndex - 2 : (i + 1) % BlockSize = 0}
TailFreed == IF ring # <<>> /\ (headIndex # tailIndex \/ ~AtBoundary) THEN ToSet(ring) ELSE {}
FreedImplicit == {BlockAt(i) : i \in BlockEnds} \cup TailFreed

Destructed == IF isExplicit THEN DestructedExplicit ELSE DestructedImplicit
Freed      == IF isExplicit THEN ToSet(ring) ELSE FreedImplicit

Destroy ==
    /\ alive /\ Quiescent
    /\ alive' = FALSE
    /\ elements' = [b \in Blocks |-> [o \in Offsets |->
                       IF <<b, o>> \in Destructed THEN Gone ELSE elements[b][o]]]
    /\ home' = [b \in Blocks |-> IF b \in Freed THEN AddBlockToFreeList(b) ELSE home[b]]
    /\ ring' = <<>>
    /\ UNCHANGED <<isExplicit, tailIndex, pr_blockIndexSlotsUsed, pr_blockIndexFront, ppc,
                   headers, consVars, emptyFlags, elementsCompletelyDequeued, entries>>

-----------------------------------------------------------------------------
Enqueue ==
    \/ Enqueue_InBlock \/ Enqueue_Reuse \/ Enqueue_NewBlock \/ Enqueue_Entry \/ Enqueue_Front
    \/ Enqueue_Insert \/ Enqueue_Take \/ Enqueue_Undo \/ Enqueue_Tail

ClaimElements(c) ==
    \/ Dequeue_Tail(c) \/ Dequeue_Over(c) \/ Dequeue_Count(c) \/ Dequeue_Claim(c)
    \/ Dequeue_Recheck(c) \/ Dequeue_Give(c) \/ Dequeue_Head(c)

GetBlockIndexIndexForIndex(c) == Dequeue_Index(c) \/ Dequeue_Cur(c) \/ Dequeue_Slot(c)

TakeElements(c) ==
    \/ Dequeue_Read(c) \/ Dequeue_Empty_Explicit(c) \/ Dequeue_Empty_Implicit(c)
    \/ Dequeue_Null(c) \/ Dequeue_Free(c)

Dequeue(c) == ClaimElements(c) \/ GetBlockIndexIndexForIndex(c) \/ TakeElements(c)

Next == Enqueue \/ (\E c \in Consumers : Dequeue(c)) \/ Destroy

Spec == Init /\ [][Next]_vars

-----------------------------------------------------------------------------
Locals == [max : 0 .. MaxBatch, tail : 0 .. MaxItems, over : Nat, want : 0 .. MaxBatch,
           mine : Nat, n : 0 .. MaxBatch, idx : 0 .. MaxItems, last : 0 .. MaxItems,
           hdr : 0 .. Len(headers), cur : Nat, slot : Nat, blk : Blocks \cup {NoBlock}]

\* The types of the counters, the blocks and the block index.
TypeOK ==
    /\ isExplicit \in BOOLEAN /\ alive \in BOOLEAN
    /\ {tailIndex, headIndex} \subseteq 0 .. MaxItems
    /\ {dequeueOptimisticCount, dequeueOvercommit} \subseteq Nat
    /\ IsInjective(ring) /\ ToSet(ring) \subseteq Blocks
    /\ elements \in [Blocks -> [Offsets -> 0 .. MaxItems \cup {Gone}]]
    /\ emptyFlags \in [Blocks -> SUBSET Offsets]
    /\ elementsCompletelyDequeued \in [Blocks -> 0 .. BlockSize]
    /\ home \in [Blocks -> {"pool", "list", "heap", "used"}]
    /\ \A e \in ToSet(entries) :
         e \in [base : 0 .. MaxItems \cup {NoBase}, block : Blocks \cup {NoBlock}]
    /\ \A h \in ToSet(headers) :
         h.cur \in DOMAIN h.slot \cup {-1} /\ \A i \in DOMAIN h.slot : h.slot[i] \in DOMAIN entries
    /\ pr_blockIndexSlotsUsed \in 0 .. SizeOf(Header)
    /\ pr_blockIndexFront \in 0 .. SizeOf(Header)
    /\ ppc \in {"idle", "entry", "front", "block", "tail"}
    /\ loc \in [Consumers -> Locals]

\* The consumers that have claimed elements and not yet moved the head, what
\* each of them claimed, and what of it is known to exist.
Claimers == {c \in Consumers : cpc[c] \in {"recheck", "give", "head"}}
Claimed  == [c \in Consumers |-> IF c \in Claimers THEN loc[c].want ELSE 0]
Found    == [c \in Consumers |-> IF c \in Claimers THEN loc[c].n ELSE 0]

\* What "this will never exceed tail" in dequeue promises: the claims that
\* turned out to exist fit between head and tail, so the head never
\* overtakes the tail, and the optimistic count less the overcommit is the
\* head and the open claims, so no element is forgotten.
HeadNeverPassesTail ==
    /\ headIndex + Total(Found) <= tailIndex
    /\ dequeueOptimisticCount - dequeueOvercommit = headIndex + Total(Claimed)

\* The block index leads a consumer to its own element, also when it read an
\* index or a slot that has been replaced since: the entry is of its block,
\* the block is not given back and each slot holds the element it dequeues
\* (the asserts of get_block_index_index_for_index).
FindsItsElement ==
    \A c \in Consumers : cpc[c] = "read" =>
        LET e == entries[EntryOf(c)]
        IN  /\ e.base = BlockBase(loc[c].idx)
            /\ e.block # NoBlock /\ home[e.block] = "used"
            /\ \A i \in InBlock(c) : elements[e.block][i % BlockSize] = i

\* The asserts of set_many_empty: no slot is reported empty twice between two
\* uses of its block, and the block is still in use.
EmptiedOnce ==
    \A c \in Consumers : cpc[c] = "empty" =>
        /\ home[loc[c].blk] = "used"
        /\ isExplicit => emptyFlags[loc[c].blk] \cap SlotsOf(c) = {}
        /\ ~isExplicit => elementsCompletelyDequeued[loc[c].blk] + Cardinality(SlotsOf(c))
                            <= BlockSize

\* No element is destroyed twice and no block given back twice.
NothingTwice ==
    /\ isExplicit => IsInjective(ring)
    /\ ~isExplicit =>
        /\ \A i, j \in headIndex .. tailIndex - 1 :
             BlockAt(i) = BlockAt(j) /\ i % BlockSize = j % BlockSize => i = j
        /\ \A i, j \in BlockEnds : BlockAt(i) = BlockAt(j) => i = j
        /\ \A i \in BlockEnds : BlockAt(i) \notin TailFreed

\* The destructors destroy every element that is left, none that is not
\* there and none twice, and give back every block of the sub-queue once.
DestructorExact ==
    alive /\ Quiescent =>
        /\ NothingTwice
        /\ Destructed = UNION {{b} \X {o \in Offsets : elements[b][o] # Gone} : b \in Blocks}
        /\ Freed = At("used")

=============================================================================
