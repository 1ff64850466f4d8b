------------------------------ MODULE FreeList ------------------------------
(***************************************************************************)
(* moodycamel::ConcurrentQueue::FreeList: the lock-free stack of blocks    *)
(* that all producers and consumers of a queue share.  A node's word is a  *)
(* reference count and the bit SHOULD_BE_ON_FREELIST.  Every access to an  *)
(* atomic is a step.  Nodes are never freed while the list lives: blocks   *)
(* from the heap do not come here.                                         *)
(***************************************************************************)
EXTENDS Integers, FiniteSets

CONSTANTS Threads, Nodes, Nil

ASSUME FreeListAssumption == Nil \notin Nodes /\ IsFiniteSet(Threads)

VARIABLES
    freeListHead,
    freeListNext,   \* freeListNext of each node
    freeListRefs,   \* [refs, should] of each node
    owned,          \* blocks in use, by thread
    pc,
    node,           \* the node a thread is adding
    expected,       \* its "head" there
    head, seen, next, \* its locals in try_get
    inGet           \* add_knowing_refcount_is_zero was called by try_get

locals == <<pc, node, expected, head, seen, next, inGet>>
vars == <<freeListHead, freeListNext, freeListRefs, owned, locals>>

Zero == [refs |-> 0, should |-> FALSE]

\* Every block is in use; some were taken from the pool by each thread.
Init ==
    /\ freeListHead = Nil
    /\ freeListNext = [n \in Nodes |-> Nil]
    /\ freeListRefs = [n \in Nodes |-> Zero]
    /\ owned \in [Threads -> SUBSET Nodes]
    /\ \A n \in Nodes : \E t \in Threads : n \in owned[t]
    /\ \A s, t \in Threads : s # t => owned[s] \cap owned[t] = {}
    /\ pc = [t \in Threads |-> "idle"]
    /\ node = [t \in Threads |-> Nil]
    /\ expected = [t \in Threads |-> Nil]
    /\ head = [t \in Threads |-> Nil]
    /\ seen = [t \in Threads |-> Zero]
    /\ next = [t \in Threads |-> Nil]
    /\ inGet = [t \in Threads |-> FALSE]

Go(t, from, to) == pc[t] = from /\ pc' = [pc EXCEPT ![t] = to]
Set(var, t, value) == [var EXCEPT ![t] = value]

-----------------------------------------------------------------------------
(* add(node)                                                                *)

Add(t, n) ==
    /\ n \in owned[t]
    /\ Go(t, "idle", IF freeListRefs[n] = Zero THEN "load" ELSE "idle")
    /\ freeListRefs' = [freeListRefs EXCEPT ![n].should = TRUE]
    /\ owned' = [owned EXCEPT ![t] = @ \ {n}]
    /\ node' = IF freeListRefs[n] = Zero THEN Set(node, t, n) ELSE node
    /\ UNCHANGED <<freeListHead, freeListNext, expected, head, seen, next, inGet>>

(* add_knowing_refcount_is_zero(node): only this thread changes next until  *)
(* the count is 1 again.                                                    *)

Zero_Load(t) ==
    /\ Go(t, "load", "link")
    /\ expected' = Set(expected, t, freeListHead)
    /\ UNCHANGED <<freeListHead, freeListNext, freeListRefs, owned, node, head, seen, next, inGet>>

Zero_Link(t) ==
    /\ Go(t, "link", "ref")
    /\ freeListNext' = [freeListNext EXCEPT ![node[t]] = expected[t]]
    /\ UNCHANGED <<freeListHead, freeListRefs, owned, node, expected, head, seen, next, inGet>>

Zero_Ref(t) ==
    /\ Go(t, "ref", "push")
    /\ freeListRefs' = [freeListRefs EXCEPT ![node[t]] = [refs |-> 1, should |-> FALSE]]
    /\ UNCHANGED <<freeListHead, freeListNext, owned, node, expected, head, seen, next, inGet>>

\* Back to the caller: add is done, try_get goes on with the head it has.
Leave(t, from) ==
    /\ Go(t, from, IF inGet[t] THEN "check" ELSE "idle")
    /\ node' = Set(node, t, Nil)
    /\ inGet' = Set(inGet, t, FALSE)

Zero_Push(t) ==
    \/ /\ freeListHead = expected[t]
       /\ Leave(t, "push")
       /\ freeListHead' = node[t]
       /\ expected' = Set(expected, t, Nil)
       /\ UNCHANGED <<freeListNext, freeListRefs, owned, head, seen, next>>
    \/ /\ freeListHead # expected[t]
       /\ Go(t, "push", "back")
       /\ expected' = Set(expected, t, freeListHead)
       /\ UNCHANGED <<freeListHead, freeListNext, freeListRefs, owned, node, head, seen, next,
                      inGet>>

\* Trying again at once, without giving the count back.
Zero_Back_Keeps(t) ==
    /\ Go(t, "back", "link")
    /\ UNCHANGED <<freeListHead, freeListNext, freeListRefs, owned, node, expected, head, seen,
                   next, inGet>>

\* The CAS failed: give the count back.  Whoever brings it to zero adds the node.
Zero_Back(t) ==
    /\ pc[t] = "back"
    /\ freeListRefs' = [freeListRefs EXCEPT ![node[t]] = [refs |-> @.refs - 1, should |-> TRUE]]
    /\ IF freeListRefs[node[t]] = [refs |-> 1, should |-> FALSE]
       THEN pc' = Set(pc, t, "link") /\ UNCHANGED <<node, expected, inGet>>
       ELSE Leave(t, "back") /\ expected' = Set(expected, t, Nil)
    /\ UNCHANGED <<freeListHead, freeListNext, owned, head, seen, next>>

-----------------------------------------------------------------------------
(* try_get()                                                                *)

Get_Start(t) ==
    /\ Go(t, "idle", "check")
    /\ head' = Set(head, t, freeListHead)
    /\ UNCHANGED <<freeListHead, freeListNext, freeListRefs, owned, node, expected, seen, next,
                   inGet>>

Get_Empty(t) ==
    /\ head[t] = Nil
    /\ Go(t, "check", "idle")
    /\ UNCHANGED <<freeListHead, freeListNext, freeListRefs, owned, node, expected, head, seen,
                   next, inGet>>

\* Load the count of the head; one that is zero is on its way off the list.
Get_Refs(t) ==
    /\ pc[t] = "check" /\ head[t] # Nil
    /\ LET gone == freeListRefs[head[t]].refs = 0 IN
       /\ pc' = Set(pc, t, IF gone THEN "reload" ELSE "inc")
       /\ seen' = IF gone THEN seen ELSE Set(seen, t, freeListRefs[head[t]])
    /\ UNCHANGED <<freeListHead, freeListNext, freeListRefs, owned, node, expected, head, next,
                   inGet>>

Get_Reload(t) ==
    /\ Go(t, "reload", "check")
    /\ head' = Set(head, t, freeListHead)
    /\ UNCHANGED <<freeListHead, freeListNext, freeListRefs, owned, node, expected, seen, next,
                   inGet>>

Get_Inc(t) ==
    /\ pc[t] = "inc"
    /\ LET same == freeListRefs[head[t]] = seen[t] IN
       /\ pc' = Set(pc, t, IF same THEN "next" ELSE "reload")
       /\ freeListRefs' = IF same THEN [freeListRefs EXCEPT ![head[t]].refs = @ + 1]
                          ELSE freeListRefs
       /\ seen' = Set(seen, t, Zero)
    /\ UNCHANGED <<freeListHead, freeListNext, owned, node, expected, head, next, inGet>>

Get_Next(t) ==
    /\ Go(t, "next", "pop")
    /\ next' = Set(next, t, freeListNext[head[t]])
    /\ UNCHANGED <<freeListHead, freeListNext, freeListRefs, owned, node, expected, head, seen,
                   inGet>>

\* Take the head off, or keep it as prevHead with the new head.
Get_Pop(t) ==
    /\ next' = Set(next, t, Nil)
    /\ \/ /\ freeListHead = head[t]
          /\ Go(t, "pop", "got")
          /\ freeListHead' = next[t]
          /\ UNCHANGED <<node, head>>
       \/ /\ freeListHead # head[t]
          /\ Go(t, "pop", "missed")
          /\ node' = Set(node, t, head[t])
          /\ head' = Set(head, t, freeListHead)
          /\ UNCHANGED freeListHead
    /\ UNCHANGED <<freeListNext, freeListRefs, owned, expected, seen, inGet>>

\* Its own reference and the list's.
Get_Got(t) ==
    /\ Go(t, "got", "idle")
    /\ freeListRefs' = [freeListRefs EXCEPT ![head[t]].refs = @ - 2]
    /\ owned' = [owned EXCEPT ![t] = @ \cup {head[t]}]
    /\ head' = Set(head, t, Nil)
    /\ UNCHANGED <<freeListHead, freeListNext, node, expected, seen, next, inGet>>

\* The node is left to whoever wanted it on the list.
Get_Missed_Leaves(t) ==
    /\ Go(t, "missed", "check")
    /\ freeListRefs' = [freeListRefs EXCEPT ![node[t]].refs = @ - 1]
    /\ node' = Set(node, t, Nil)
    /\ UNCHANGED <<freeListHead, freeListNext, owned, expected, head, seen, next, inGet>>

\* The last reference to a node that should be on the list: add it.
Get_Missed(t) ==
    LET last == freeListRefs[node[t]] = [refs |-> 1, should |-> TRUE] IN
    /\ pc[t] = "missed"
    /\ pc' = Set(pc, t, IF last THEN "load" ELSE "check")
    /\ freeListRefs' = [freeListRefs EXCEPT ![node[t]].refs = @ - 1]
    /\ node' = IF last THEN node ELSE Set(node, t, Nil)
    /\ inGet' = Set(inGet, t, last)
    /\ UNCHANGED <<freeListHead, freeListNext, owned, expected, head, seen, next>>

-----------------------------------------------------------------------------
TryGet(t) ==
    \/ Get_Start(t) \/ Get_Empty(t) \/ Get_Refs(t) \/ Get_Reload(t) \/ Get_Inc(t)
    \/ Get_Next(t) \/ Get_Pop(t) \/ Get_Got(t) \/ Get_Missed(t)

AddKnowingRefcountIsZero(t) ==
    \/ Zero_Load(t) \/ Zero_Link(t) \/ Zero_Ref(t) \/ Zero_Push(t) \/ Zero_Back(t)

Next ==
    \E t \in Threads :
        TryGet(t) \/ AddKnowingRefcountIsZero(t) \/ \E n \in Nodes : Add(t, n)

Spec == Init /\ [][Next]_vars

-----------------------------------------------------------------------------
\* A set of nodes that following the links from first does not leave.
Closed(first, links, S) ==
    /\ first \in S \cup {Nil}
    /\ \A n \in S : links[n] \in S \cup {Nil}

\* The nodes that the links lead to from first: the least closed set.
Reach(first, links) == {n \in Nodes : \A S \in SUBSET Nodes : Closed(first, links, S) => n \in S}

OnList == Reach(freeListHead, freeListNext)

\* Every part of the list has a node whose link leaves it.
NoCircle(links, S) == \A C \in SUBSET S : C # {} => \E n \in C : links[n] \notin C

Holders(n) == {t \in Threads : \/ head[t] = n /\ pc[t] \in {"next", "pop", "got"}
                               \/ node[t] = n /\ pc[t] = "missed"}

\* The types; the count of a node stays between 0 and the list's reference
\* with one for each thread.
TypeOK ==
    /\ freeListHead \in Nodes \cup {Nil}
    /\ freeListNext \in [Nodes -> Nodes \cup {Nil}]
    /\ freeListRefs \in [Nodes -> [refs : 0 .. Cardinality(Threads) + 1, should : BOOLEAN]]
    /\ owned \in [Threads -> SUBSET Nodes]
    /\ node \in [Threads -> Nodes \cup {Nil}]
    /\ head \in [Threads -> Nodes \cup {Nil}]
    /\ next \in [Threads -> Nodes \cup {Nil}]

\* A block has one owner: no two threads have it, none has one that is still
\* on the list, and the list does not run in a circle (the ABA problem the
\* counts are there to prevent).  The assert of try_get is part of it: nobody
\* wants a node on the list that has just been taken off it.
OneOwner ==
    /\ \A s, t \in Threads : s # t => owned[s] \cap owned[t] = {}
    /\ \A t \in Threads : owned[t] \cap OnList = {}
    /\ NoCircle(freeListNext, OnList)
    /\ \A t \in Threads : pc[t] = "got" => ~freeListRefs[head[t]].should

\* The list has a reference to the node, also while the node is being pushed
\* or has just been taken.
ListHolds(n) ==
    \/ n \in OnList
    \/ \E t \in Threads : \/ node[t] = n /\ pc[t] \in {"push", "back"}
                          \/ head[t] = n /\ pc[t] = "got"

\* A node's count is the threads that hold a reference and the list's own, and
\* a node someone wanted on the list is not forgotten: it is there, or a thread
\* that will put it there still holds it.
ReferencesExact ==
    \A n \in Nodes :
        /\ freeListRefs[n].refs = Cardinality(Holders(n)) + (IF ListHolds(n) THEN 1 ELSE 0)
        /\ \/ n \in OnList
           \/ \E t \in Threads : n \in owned[t] \cup {node[t]}
           \/ \E t \in Threads : n = head[t] /\ pc[t] \in {"next", "pop", "got"}

=============================================================================
