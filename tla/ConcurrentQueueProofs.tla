----------------------- MODULE ConcurrentQueueProofs -----------------------
(***************************************************************************)
(* Proofs about two parts of the concurrent queue: FreeList, for any       *)
(* finite number of threads and any blocks, and ImplicitProducerHash, for  *)
(* any thread ids, any hash and any bounds.                                *)
(***************************************************************************)
EXTENDS FreeList, ImplicitProducerHash, FiniteSetTheorems, WellFoundedInduction, TLAPS

Pcs == {"idle", "load", "link", "ref", "push", "back", "check", "reload", "inc", "next", "pop", "got", "missed"}
Words == [refs : Nat, should : BOOLEAN]
Links == Nodes \cup {Nil}

Types ==
    /\ freeListHead \in Links /\ freeListNext \in [Nodes -> Links]
    /\ freeListRefs \in [Nodes -> Words] /\ owned \in [Threads -> SUBSET Nodes]
    /\ pc \in [Threads -> Pcs]
    /\ node \in [Threads -> Links] /\ expected \in [Threads -> Links]
    /\ head \in [Threads -> Links] /\ next \in [Threads -> Links]
    /\ seen \in [Threads -> Words] /\ inGet \in [Threads -> BOOLEAN]

\* What a thread has to do with a node: it is putting it on the list and the
\* count is zero, or the count has the list's reference already; it has just
\* taken it off; it has a reference.
Adds(t, n) == node[t] = n /\ pc[t] \in {"load", "link", "ref"}
Pushes(t, n) == node[t] = n /\ pc[t] \in {"push", "back"}
Takes(t, n) == head[t] = n /\ pc[t] = "got"
Holds(t, n) == \/ head[t] = n /\ pc[t] \in {"next", "pop", "got"}
               \/ node[t] = n /\ pc[t] = "missed"

\* The node is in the hands of t.
Claims(t, n) == n \in owned[t] \/ Adds(t, n) \/ Pushes(t, n) \/ Takes(t, n)

\* What a thread knows.  The link of a node does not change while a thread has
\* a reference to it, or pushes it.
ThreadInv(t) ==
    /\ pc[t] \in {"load", "link", "ref", "push", "back", "missed"} => node[t] \in Nodes
    /\ pc[t] \in {"inc", "next", "pop", "got"} => head[t] \in Nodes
    /\ pc[t] = "inc" => seen[t].refs > 0
    /\ pc[t] = "pop" => next[t] = freeListNext[head[t]]
    /\ pc[t] \in {"ref", "push"} => freeListNext[node[t]] = expected[t]

\* A node is in one place, and its word says which: on the list, in the hands
\* of one thread, or, when it should be on the list, left to those who still
\* have references.
NodeInv(n) ==
    /\ \A s, t \in Threads : Claims(s, n) /\ Claims(t, n) => s = t
    /\ \A t \in Threads : n \in owned[t] => ~Adds(t, n) /\ ~Pushes(t, n) /\ ~Takes(t, n)
    /\ n \in OnList => (\A t \in Threads : ~Claims(t, n)) /\ ~freeListRefs[n].should
    /\ \A t \in Threads : Adds(t, n) => freeListRefs[n].should /\ Holders(n) = {}
    /\ \A t \in Threads : n \in owned[t] \/ Pushes(t, n) \/ Takes(t, n) => ~freeListRefs[n].should
    /\ n \notin OnList /\ (\A t \in Threads : ~Claims(t, n)) => freeListRefs[n].should /\ Holders(n) # {}
    /\ freeListRefs[n].refs = Cardinality(Holders(n)) + (IF ListHolds(n) THEN 1 ELSE 0)

\* The links lead from the head to each node of the list once.
Chain(first, links) ==
    /\ \A m \in Reach(first, links) : links[m] = first => first = Nil
    /\ \A m1, m2 \in Reach(first, links) : links[m1] = links[m2] /\ links[m1] # Nil => m1 = m2
    /\ NoCircle(links, Reach(first, links))

FreeListInv ==
    /\ Types
    /\ \A t \in Threads : ThreadInv(t)
    /\ \A n \in Nodes : NodeInv(n)
    /\ Chain(freeListHead, freeListNext)

-----------------------------------------------------------------------------
(* Lists.                                                                  *)

\* The nodes the links lead to are the least closed set.
LEMMA ReachIsLeast ==
    ASSUME NEW first \in Links, NEW links \in [Nodes -> Links]
    PROVE  /\ Reach(first, links) \in SUBSET Nodes
           /\ Closed(first, links, Reach(first, links))
           /\ \A S \in SUBSET Nodes : Closed(first, links, S) => Reach(first, links) \subseteq S
           /\ first # Nil => first \in Reach(first, links)
<1> DEFINE R == Reach(first, links)
<1>1. R \in SUBSET Nodes /\ \A S \in SUBSET Nodes : Closed(first, links, S) => R \subseteq S
  BY DEF Reach
<1>2. first \in R \cup {Nil}
  BY DEF Reach, Closed, Links
<1>3. ASSUME NEW n \in R PROVE links[n] \in R \cup {Nil}
  <2>1. \A S \in SUBSET Nodes : Closed(first, links, S) => links[n] \in S \cup {Nil}
    BY <1>3 DEF Reach, Closed
  <2>2. links[n] \in Links
    BY <1>1, <1>3
  <2> QED
    BY <2>1, <2>2 DEF Reach, Links
<1> QED
  BY <1>1, <1>2, <1>3 DEF Closed

\* Two lists with the same nodes and links.
LEMMA SameChain ==
    ASSUME NEW first \in Links, NEW links \in [Nodes -> Links], NEW new \in [Nodes -> Links],
           \A n \in Reach(first, links) : new[n] = links[n]
    PROVE  /\ Reach(first, new) = Reach(first, links)
           /\ Chain(first, links) => Chain(first, new)
<1> DEFINE R == Reach(first, links)
           Q == Reach(first, new)
<1>1. R \in SUBSET Nodes /\ Closed(first, links, R)
      /\ \A S \in SUBSET Nodes : Closed(first, links, S) => R \subseteq S
  BY ReachIsLeast
<1>2. Q \in SUBSET Nodes /\ Closed(first, new, Q)
      /\ \A S \in SUBSET Nodes : Closed(first, new, S) => Q \subseteq S
  BY ReachIsLeast
<1>3. \A n \in R : new[n] = links[n]
  OBVIOUS
<1> HIDE DEF R, Q
<1>4. Q \subseteq R
  <2>1. Closed(first, new, R)
    BY <1>1, <1>3 DEF Closed
  <2> QED
    BY <1>1, <1>2, <2>1
<1>5. R \subseteq Q
  <2>1. Closed(first, links, Q)
    BY <1>2, <1>3, <1>4 DEF Closed
  <2> QED
    BY <1>1, <1>2, <2>1
<1>6. Q = R
  BY <1>4, <1>5
<1>7. ASSUME \A m \in R : links[m] = first => first = Nil,
             \A m1, m2 \in R : links[m1] = links[m2] /\ links[m1] # Nil => m1 = m2,
             NoCircle(links, R)
      PROVE  /\ \A m \in R : new[m] = first => first = Nil
             /\ \A m1, m2 \in R : new[m1] = new[m2] /\ new[m1] # Nil => m1 = m2
             /\ NoCircle(new, R)
  BY <1>3, <1>7 DEF NoCircle
<1> QED
  BY <1>6, <1>7 DEF Chain, R, Q

\* A node is put in front of a list it is not on.
LEMMA PushChain ==
    ASSUME NEW first \in Links, NEW links \in [Nodes -> Links], NEW n \in Nodes,
           n \notin Reach(first, links), links[n] = first
    PROVE  /\ Reach(n, links) = Reach(first, links) \cup {n}
           /\ Chain(first, links) => Chain(n, links)
<1>0. n \in Links /\ n # Nil
  BY FreeListAssumption DEF Links
<1> DEFINE R == Reach(first, links)
           Q == Reach(n, links)
<1>1. R \in SUBSET Nodes /\ Closed(first, links, R) /\ n \notin R
      /\ \A S \in SUBSET Nodes : Closed(first, links, S) => R \subseteq S
  BY ReachIsLeast
<1>2. Q \in SUBSET Nodes /\ Closed(n, links, Q) /\ n \in Q
      /\ \A S \in SUBSET Nodes : Closed(n, links, S) => Q \subseteq S
  BY <1>0, ReachIsLeast
<1> HIDE DEF R, Q
<1>3. Q \subseteq R \cup {n}
  <2>1. Closed(n, links, R \cup {n})
    BY <1>1 DEF Closed
  <2>2. R \cup {n} \in SUBSET Nodes
    BY <1>1
  <2> QED
    BY <1>2, <2>1, <2>2
<1>4. R \cup {n} \subseteq Q
  <2>1. Closed(first, links, Q)
    BY <1>2 DEF Closed
  <2> QED
    BY <1>1, <1>2, <2>1
<1>5. Q = R \cup {n}
  BY <1>3, <1>4
<1>6. first # n
  BY <1>0, <1>1 DEF Closed
<1>7. ASSUME \A m \in R : links[m] = first => first = Nil,
             \A m1, m2 \in R : links[m1] = links[m2] /\ links[m1] # Nil => m1 = m2,
             NoCircle(links, R)
      PROVE  /\ \A m \in Q : links[m] # n
             /\ \A m1, m2 \in Q : links[m1] = links[m2] /\ links[m1] # Nil => m1 = m2
             /\ NoCircle(links, Q)
  <2>1. \A m \in Q : links[m] # n
    BY <1>0, <1>1, <1>5, <1>6 DEF Closed
  <2>2. \A m1, m2 \in Q : links[m1] = links[m2] /\ links[m1] # Nil => m1 = m2
    BY <1>5, <1>7
  <2>3. ASSUME NEW C \in SUBSET Q, C # {} PROVE \E m \in C : links[m] \notin C
    <3>1. CASE C = {n}
      BY <1>6, <3>1
    <3>2. CASE C # {n}
      <4>1. C \ {n} \in SUBSET R /\ C \ {n} # {}
        BY <1>5, <2>3, <3>2
      <4>2. PICK m \in C \ {n} : links[m] \notin C \ {n}
        BY <1>7, <4>1 DEF NoCircle
      <4> QED
        BY <2>1, <4>2
    <3> QED
      BY <3>1, <3>2
  <2> QED
    BY <2>1, <2>2, <2>3 DEF NoCircle
<1> QED
  BY <1>0, <1>5, <1>7 DEF Chain, R, Q

\* The first node is taken off a list.
LEMMA PopChain ==
    ASSUME NEW first \in Nodes, NEW links \in [Nodes -> Links], Chain(first, links)
    PROVE  /\ Reach(links[first], links) = Reach(first, links) \ {first}
           /\ Chain(links[first], links)
<1>0. first \in Links /\ first # Nil /\ links[first] \in Links
  BY FreeListAssumption DEF Links
<1> DEFINE R == Reach(first, links)
           second == links[first]
           Q == Reach(second, links)
<1>1. R \in SUBSET Nodes /\ Closed(first, links, R) /\ first \in R
      /\ \A S \in SUBSET Nodes : Closed(first, links, S) => R \subseteq S
  BY <1>0, ReachIsLeast
<1>2. Q \in SUBSET Nodes /\ Closed(second, links, Q)
      /\ \A S \in SUBSET Nodes : Closed(second, links, S) => Q \subseteq S
  BY <1>0, ReachIsLeast
<1>3. /\ \A m \in R : links[m] # first
      /\ \A m1, m2 \in R : links[m1] = links[m2] /\ links[m1] # Nil => m1 = m2
      /\ NoCircle(links, R)
  BY <1>0 DEF Chain
<1>s. second = links[first]
  OBVIOUS
<1> HIDE DEF R, Q, second
<1>4. Q \subseteq R \ {first}
  <2>1. Closed(second, links, R \ {first})
    BY <1>1, <1>3, <1>s DEF Closed
  <2>2. R \ {first} \in SUBSET Nodes
    BY <1>1
  <2> QED
    BY <1>2, <2>1, <2>2
<1>5. R \subseteq Q \cup {first}
  <2>1. Closed(first, links, Q \cup {first})
    BY <1>2, <1>s DEF Closed
  <2>2. Q \cup {first} \in SUBSET Nodes
    BY <1>2
  <2> QED
    BY <1>1, <2>1, <2>2
<1>6. Q = R \ {first}
  BY <1>4, <1>5
<1>7. /\ \A m \in Q : links[m] = second => second = Nil
      /\ \A m1, m2 \in Q : links[m1] = links[m2] /\ links[m1] # Nil => m1 = m2
      /\ NoCircle(links, Q)
  <2>1. \A m \in Q : links[m] = second => second = Nil
    BY <1>1, <1>3, <1>6, <1>s
  <2>2. NoCircle(links, Q)
    BY <1>3, <1>6 DEF NoCircle
  <2> QED
    BY <1>3, <1>6, <2>1, <2>2
<1> QED
  BY <1>6, <1>7 DEF Chain, R, Q, second

-----------------------------------------------------------------------------
(* Nodes.                                                                  *)

\* Holders in the terms of the invariant.
LEMMA HoldersAre ==
    /\ \A n : Holders(n) = {t \in Threads : Holds(t, n)}
    /\ \A n : IsFiniteSet(Holders(n)) /\ Cardinality(Holders(n)) \in Nat
    /\ \A n : Cardinality(Holders(n)) = 0 <=> Holders(n) = {}
    /\ \A n : ListHolds(n) <=> n \in OnList \/ \E t \in Threads : Pushes(t, n) \/ Takes(t, n)
<1>1. \A n : Holders(n) = {t \in Threads : Holds(t, n)}
  BY DEF Holders, Holds
<1>2. \A n : IsFiniteSet(Holders(n))
  BY <1>1, FS_Subset, FreeListAssumption
<1>3. \A n : Cardinality(Holders(n)) \in Nat /\ (Cardinality(Holders(n)) = 0 <=> Holders(n) = {})
  BY <1>2, FS_CardinalityType, FS_EmptySet
<1>4. \A n : ListHolds(n) <=> n \in OnList \/ \E t \in Threads : Pushes(t, n) \/ Takes(t, n)
  BY DEF ListHolds, Pushes, Takes
<1> QED
  BY <1>1, <1>2, <1>3, <1>4

\* A node's word is its count and its bit.
LEMMA WordIs ==
    ASSUME NEW word \in Words, NEW n
    PROVE  /\ word.refs \in Nat /\ word.should \in BOOLEAN
           /\ word = [refs |-> n, should |-> TRUE] <=> word.refs = n /\ word.should
           /\ word = [refs |-> n, should |-> FALSE] <=> word.refs = n /\ ~word.should
<1>1. word.refs \in Nat /\ word.should \in BOOLEAN /\ word = [refs |-> word.refs, should |-> word.should]
  BY DEF Words
<1>2. CASE word.should = TRUE
  BY <1>1, <1>2
<1>3. CASE word.should = FALSE
  BY <1>1, <1>3
<1> QED
  BY <1>1, <1>2, <1>3

\* A node whose place does not change.
LEMMA SamePlace ==
    ASSUME NEW n \in Nodes, NodeInv(n), freeListRefs'[n] = freeListRefs[n],
           \A s \in Threads : /\ n \in owned'[s] <=> n \in owned[s]
                              /\ Adds(s, n)' <=> Adds(s, n)
                              /\ Pushes(s, n)' <=> Pushes(s, n)
                              /\ Takes(s, n)' <=> Takes(s, n)
                              /\ Holds(s, n)' <=> Holds(s, n),
           n \in OnList' <=> n \in OnList
    PROVE  NodeInv(n)'
<1>1. \A s \in Threads : Claims(s, n)' <=> Claims(s, n)
  BY DEF Claims
<1>2. Holders(n)' = Holders(n)
  BY DEF Holders, Holds
<1>3. ListHolds(n)' <=> ListHolds(n)
  BY DEF ListHolds, Pushes, Takes
<1> QED
  BY <1>1, <1>2, <1>3 DEF NodeInv

\* The same after a step.
LEMMA HoldersAreNext ==
    ASSUME NEW n
    PROVE  /\ Holders(n)' = {t \in Threads : Holds(t, n)'}
           /\ IsFiniteSet(Holders(n)') /\ Cardinality(Holders(n)') \in Nat
           /\ Cardinality(Holders(n)') = 0 <=> Holders(n)' = {}
           /\ ListHolds(n)' <=> n \in OnList' \/ \E t \in Threads : Pushes(t, n)' \/ Takes(t, n)'
<1>1. Holders(n)' = {t \in Threads : Holds(t, n)'}
  BY DEF Holders, Holds
<1>2. IsFiniteSet(Holders(n)')
  BY <1>1, FS_Subset, FreeListAssumption
<1>3. Cardinality(Holders(n)') \in Nat /\ (Cardinality(Holders(n)') = 0 <=> Holders(n)' = {})
  BY <1>2, FS_CardinalityType, FS_EmptySet
<1>4. ListHolds(n)' <=> n \in OnList' \/ \E t \in Threads : Pushes(t, n)' \/ Takes(t, n)'
  BY DEF ListHolds, Pushes, Takes
<1> QED
  BY <1>1, <1>2, <1>3, <1>4

\* t takes or drops a reference.
LEMMA HoldersChange ==
    ASSUME NEW n, NEW t \in Threads, \A s \in Threads : s # t => (Holds(s, n)' <=> Holds(s, n))
    PROVE  /\ Holds(t, n) /\ ~Holds(t, n)' => Cardinality(Holders(n)') = Cardinality(Holders(n)) - 1
           /\ ~Holds(t, n) /\ Holds(t, n)' => Cardinality(Holders(n)') = Cardinality(Holders(n)) + 1
           /\ (Holds(t, n)' <=> Holds(t, n)) => Holders(n)' = Holders(n)
<1> DEFINE A == Holders(n)
           B == Holders(n)'
<1>1. A = {s \in Threads : Holds(s, n)} /\ B = {s \in Threads : Holds(s, n)'} /\ IsFiniteSet(A)
  BY HoldersAre, HoldersAreNext
<1> HIDE DEF A, B
<1>2. ASSUME Holds(t, n), ~Holds(t, n)' PROVE Cardinality(B) = Cardinality(A) - 1
  <2>1. B = A \ {t} /\ t \in A
    BY <1>1, <1>2
  <2> QED
    BY <1>1, <2>1, FS_RemoveElement
<1>3. ASSUME ~Holds(t, n), Holds(t, n)' PROVE Cardinality(B) = Cardinality(A) + 1
  <2>1. B = A \cup {t} /\ t \notin A
    BY <1>1, <1>3
  <2> QED
    BY <1>1, <2>1, FS_AddElement
<1>4. ASSUME Holds(t, n)' <=> Holds(t, n) PROVE B = A
  BY <1>1, <1>4
<1> QED
  BY <1>2, <1>3, <1>4 DEF A, B

\* A node that no thread but t has in hand after the step.
LEMMA NewPlace ==
    ASSUME NEW n \in Nodes, NEW t \in Threads,
           \A s \in Threads : s # t => ~Claims(s, n)',
           n \in owned'[t] => ~Adds(t, n)' /\ ~Pushes(t, n)' /\ ~Takes(t, n)',
           n \in OnList' => ~Claims(t, n)' /\ ~freeListRefs'[n].should,
           Adds(t, n)' => freeListRefs'[n].should /\ Holders(n)' = {},
           n \in owned'[t] \/ Pushes(t, n)' \/ Takes(t, n)' => ~freeListRefs'[n].should,
           n \notin OnList' /\ ~Claims(t, n)' => freeListRefs'[n].should /\ Holders(n)' # {},
           freeListRefs'[n].refs = Cardinality(Holders(n)') +
               (IF n \in OnList' \/ Pushes(t, n)' \/ Takes(t, n)' THEN 1 ELSE 0)
    PROVE  NodeInv(n)'
<1>1. \A s \in Threads : s # t => n \notin owned'[s] /\ ~Adds(s, n)' /\ ~Pushes(s, n)' /\ ~Takes(s, n)'
  BY DEF Claims
<1>2. ListHolds(n)' <=> n \in OnList' \/ Pushes(t, n)' \/ Takes(t, n)'
  BY <1>1, HoldersAreNext
<1>3. /\ \A s \in Threads : Adds(s, n)' => s = t
      /\ \A s \in Threads : n \in owned'[s] \/ Pushes(s, n)' \/ Takes(s, n)' => s = t
      /\ \A s \in Threads : Claims(s, n)' => s = t
  BY <1>1
<1>4. \A s1, s2 \in Threads : Claims(s1, n)' /\ Claims(s2, n)' => s1 = s2
  BY <1>3
<1>5. n \in OnList' => (\A s \in Threads : ~Claims(s, n)') /\ ~freeListRefs'[n].should
  BY <1>3
<1>6. \A s \in Threads : n \in owned'[s] => ~Adds(s, n)' /\ ~Pushes(s, n)' /\ ~Takes(s, n)'
  BY <1>3
<1>7. \A s \in Threads : Adds(s, n)' => freeListRefs'[n].should /\ Holders(n)' = {}
  BY <1>3
<1>8. \A s \in Threads : n \in owned'[s] \/ Pushes(s, n)' \/ Takes(s, n)' => ~freeListRefs'[n].should
  BY <1>3
<1>9. n \notin OnList' /\ (\A s \in Threads : ~Claims(s, n)') => freeListRefs'[n].should /\ Holders(n)' # {}
  OBVIOUS
<1>10. freeListRefs'[n].refs = Cardinality(Holders(n)') + (IF ListHolds(n)' THEN 1 ELSE 0)
  BY <1>2
<1> QED
  BY <1>4, <1>5, <1>6, <1>7, <1>8, <1>9, <1>10 DEF NodeInv

-----------------------------------------------------------------------------
(* Steps.                                                                  *)

\* Only t moves.
Still(t) ==
    \A s \in Threads : s # t =>
        /\ pc'[s] = pc[s] /\ node'[s] = node[s] /\ expected'[s] = expected[s] /\ head'[s] = head[s]
        /\ seen'[s] = seen[s] /\ next'[s] = next[s] /\ owned'[s] = owned[s]

\* The others keep what they have.
LEMMA OthersKeep ==
    ASSUME NEW t \in Threads, Still(t)
    PROVE  \A s \in Threads : s # t =>
             \A n : /\ Adds(s, n)' <=> Adds(s, n)
                    /\ Pushes(s, n)' <=> Pushes(s, n)
                    /\ Takes(s, n)' <=> Takes(s, n)
                    /\ Holds(s, n)' <=> Holds(s, n)
                    /\ n \in owned'[s] <=> n \in owned[s]
                    /\ Claims(s, n)' <=> Claims(s, n)
BY DEF Still, Adds, Pushes, Takes, Holds, Claims

\* The others know what they knew as long as no link changes.
LEMMA OthersKnow ==
    ASSUME NEW t \in Threads, Still(t), freeListNext' = freeListNext,
           \A s \in Threads : ThreadInv(s)
    PROVE  \A s \in Threads : s # t => ThreadInv(s)'
BY DEF Still, ThreadInv

\* Steps that leave every node in its place.
LEMMA QuietStep ==
    ASSUME FreeListInv, Types', NEW t \in Threads, Still(t), ThreadInv(t)',
           UNCHANGED <<freeListHead, freeListNext, freeListRefs, owned>>,
           \A n \in Nodes : /\ Adds(t, n)' <=> Adds(t, n)
                            /\ Pushes(t, n)' <=> Pushes(t, n)
                            /\ Takes(t, n)' <=> Takes(t, n)
                            /\ Holds(t, n)' <=> Holds(t, n)
    PROVE  FreeListInv'
<1>1. OnList' = OnList /\ Chain(freeListHead, freeListNext)'
  BY DEF OnList, FreeListInv, Chain, NoCircle, Reach, Closed
<1>2. \A s \in Threads : ThreadInv(s)'
  BY OthersKnow DEF FreeListInv
<1>3. ASSUME NEW n \in Nodes PROVE NodeInv(n)'
  <2>1. \A s \in Threads : /\ n \in owned'[s] <=> n \in owned[s]
                           /\ Adds(s, n)' <=> Adds(s, n)
                           /\ Pushes(s, n)' <=> Pushes(s, n)
                           /\ Takes(s, n)' <=> Takes(s, n)
                           /\ Holds(s, n)' <=> Holds(s, n)
    BY OthersKeep
  <2> QED
    BY <1>1, <2>1, SamePlace DEF FreeListInv
<1> QED
  BY <1>1, <1>2, <1>3 DEF FreeListInv

\* try_get begins, or gives up on a head.
LEMMA StartStep ==
    ASSUME FreeListInv, NEW t \in Threads, Get_Start(t) \/ Get_Empty(t) \/ Get_Refs(t) \/ Get_Reload(t)
    PROVE  FreeListInv'
<1>0. Types /\ ThreadInv(t)
  BY DEF FreeListInv
<1>1. Types'
  BY <1>0 DEF Get_Start, Get_Empty, Get_Refs, Get_Reload, Go, Set, Types, Pcs, Links
<1>2. Still(t) /\ UNCHANGED <<freeListHead, freeListNext, freeListRefs, owned>>
  BY <1>0 DEF Get_Start, Get_Empty, Get_Refs, Get_Reload, Go, Set, Types, Still
<1>3. pc[t] \in {"idle", "check", "reload"} /\ pc'[t] \in {"idle", "check", "reload", "inc"}
  BY <1>0 DEF Get_Start, Get_Empty, Get_Refs, Get_Reload, Go, Set, Types
<1>4. ThreadInv(t)'
  <2>1. pc'[t] = "inc" => head'[t] \in Nodes /\ seen'[t].refs > 0
    <3> SUFFICES ASSUME pc'[t] = "inc" PROVE head'[t] \in Nodes /\ seen'[t].refs > 0
      OBVIOUS
    <3>1. /\ head[t] # Nil /\ head'[t] = head[t] /\ seen'[t] = freeListRefs[head[t]]
          /\ freeListRefs[head[t]].refs # 0
      BY <1>0 DEF Get_Start, Get_Empty, Get_Refs, Get_Reload, Go, Set, Types
    <3>2. head[t] \in Nodes
      BY <1>0, <3>1 DEF Types, Links
    <3>3. freeListRefs[head[t]].refs \in Nat
      BY <1>0, <3>2 DEF Types, Words
    <3> QED
      BY <3>1, <3>2, <3>3
  <2> QED
    BY <1>3, <2>1 DEF ThreadInv
<1>5. \A n \in Nodes : /\ Adds(t, n)' <=> Adds(t, n)
                       /\ Pushes(t, n)' <=> Pushes(t, n)
                       /\ Takes(t, n)' <=> Takes(t, n)
                       /\ Holds(t, n)' <=> Holds(t, n)
  BY <1>3 DEF Adds, Pushes, Takes, Holds
<1> QED
  BY <1>1, <1>2, <1>4, <1>5, QuietStep

\* A thread reads the head or the link of a node it holds, or finds that the
\* head has changed.
LEMMA ReadStep ==
    ASSUME FreeListInv, NEW t \in Threads,
           \/ Zero_Load(t) \/ Get_Next(t)
           \/ Zero_Push(t) /\ freeListHead # expected[t]
           \/ Get_Pop(t) /\ freeListHead # head[t]
    PROVE  FreeListInv'
<1>0. Types /\ ThreadInv(t)
  BY DEF FreeListInv
<1>1. Types'
  BY <1>0 DEF Zero_Load, Get_Next, Zero_Push, Get_Pop, Go, Set, Types, Pcs, Links, ThreadInv
<1>2. Still(t) /\ UNCHANGED <<freeListHead, freeListNext, freeListRefs, owned>>
  BY <1>0 DEF Zero_Load, Get_Next, Zero_Push, Get_Pop, Go, Set, Types, Still
<1>3. \/ pc[t] = "load" /\ pc'[t] = "link" /\ node'[t] = node[t]
      \/ pc[t] = "next" /\ pc'[t] = "pop" /\ head'[t] = head[t] /\ next'[t] = freeListNext[head[t]]
      \/ pc[t] = "push" /\ pc'[t] = "back" /\ node'[t] = node[t]
      \/ pc[t] = "pop" /\ pc'[t] = "missed" /\ node'[t] = head[t]
  BY <1>0 DEF Zero_Load, Get_Next, Zero_Push, Get_Pop, Go, Set, Types
<1>4. ThreadInv(t)'
  BY <1>0, <1>2, <1>3 DEF ThreadInv
<1>5. \A n \in Nodes : /\ Adds(t, n)' <=> Adds(t, n)
                       /\ Pushes(t, n)' <=> Pushes(t, n)
                       /\ Takes(t, n)' <=> Takes(t, n)
                       /\ Holds(t, n)' <=> Holds(t, n)
  BY <1>3 DEF Adds, Pushes, Takes, Holds
<1> QED
  BY <1>1, <1>2, <1>4, <1>5, QuietStep

\* The link of a node that is not on the list changes; nobody else looks at it.
LEMMA LinkStep ==
    ASSUME FreeListInv, NEW t \in Threads, Zero_Link(t)
    PROVE  FreeListInv'
<1>0. Types /\ ThreadInv(t)
  BY DEF FreeListInv
<1>1. Types'
  BY <1>0 DEF Zero_Link, Go, Types, Pcs, ThreadInv
<1>2. Still(t) /\ UNCHANGED <<freeListHead, freeListRefs, owned, head>>
  BY <1>0 DEF Zero_Link, Go, Types, Still
<1>3. /\ pc[t] = "link" /\ pc'[t] = "ref" /\ node'[t] = node[t] /\ expected'[t] = expected[t]
      /\ freeListNext' = [freeListNext EXCEPT ![node[t]] = expected[t]] /\ node[t] \in Nodes
  BY <1>0 DEF Zero_Link, Go, Types, ThreadInv
<1>4. PICK n \in Nodes : n = node[t]
  BY <1>3
<1>5. freeListNext'[n] = expected[t] /\ \A m \in Nodes : m # n => freeListNext'[m] = freeListNext[m]
  BY <1>0, <1>3, <1>4 DEF Types
<1>6. NodeInv(n) /\ Adds(t, n)
  BY <1>3, <1>4 DEF FreeListInv, Adds
<1>7. n \notin OnList /\ Holders(n) = {} /\ \A s \in Threads : s # t => ~Adds(s, n) /\ ~Pushes(s, n)
  BY <1>6 DEF NodeInv, Claims
<1>8. ThreadInv(t)'
  BY <1>0, <1>3, <1>4, <1>5 DEF ThreadInv
<1>9. ASSUME NEW s \in Threads, s # t PROVE ThreadInv(s)'
  <2>1. ThreadInv(s) /\ ~Holds(s, n) /\ ~Adds(s, n) /\ ~Pushes(s, n)
    BY <1>7, <1>9, HoldersAre DEF FreeListInv
  <2>2. pc[s] = "pop" => head[s] # n /\ freeListNext'[head[s]] = freeListNext[head[s]]
    BY <1>5, <2>1 DEF Holds, ThreadInv
  <2>3. pc[s] \in {"ref", "push"} => freeListNext'[node[s]] = freeListNext[node[s]]
    BY <1>5, <2>1 DEF Adds, Pushes, ThreadInv
  <2> QED
    BY <1>2, <1>9, <2>1, <2>2, <2>3 DEF Still, ThreadInv
<1>10. OnList' = OnList /\ Chain(freeListHead, freeListNext)'
  <2>1. /\ freeListHead \in Links /\ freeListNext \in [Nodes -> Links] /\ freeListNext' \in [Nodes -> Links]
        /\ \A m \in Reach(freeListHead, freeListNext) : freeListNext'[m] = freeListNext[m]
        /\ freeListHead' = freeListHead
    BY <1>0, <1>1, <1>2, <1>5, <1>7 DEF Types, OnList, Reach
  <2>2. Reach(freeListHead, freeListNext') = Reach(freeListHead, freeListNext)
        /\ Chain(freeListHead, freeListNext')
    BY <2>1, SameChain DEF FreeListInv
  <2>3. Reach(freeListHead', freeListNext') = Reach(freeListHead, freeListNext)
        /\ Chain(freeListHead', freeListNext')
    BY <2>1, <2>2
  <2> QED
    BY <2>3 DEF OnList
<1>11. ASSUME NEW m \in Nodes PROVE NodeInv(m)'
  <2>1. /\ Adds(t, m)' <=> Adds(t, m)
        /\ Pushes(t, m)' <=> Pushes(t, m)
        /\ Takes(t, m)' <=> Takes(t, m)
        /\ Holds(t, m)' <=> Holds(t, m)
    BY <1>2, <1>3 DEF Adds, Pushes, Takes, Holds
  <2>2. \A s \in Threads : /\ m \in owned'[s] <=> m \in owned[s]
                           /\ Adds(s, m)' <=> Adds(s, m)
                           /\ Pushes(s, m)' <=> Pushes(s, m)
                           /\ Takes(s, m)' <=> Takes(s, m)
                           /\ Holds(s, m)' <=> Holds(s, m)
    BY <1>2, <2>1, OthersKeep
  <2> QED
    BY <1>2, <1>10, <2>2, SamePlace DEF FreeListInv
<1> QED
  BY <1>1, <1>8, <1>9, <1>10, <1>11 DEF FreeListInv

\* Steps that change the place of one node n.
LEMMA MoveStep ==
    ASSUME FreeListInv, Types', NEW t \in Threads, Still(t), ThreadInv(t)', freeListNext' = freeListNext,
           NEW n \in Nodes, NodeInv(n)', Chain(freeListHead', freeListNext'),
           \A m \in Nodes : m # n => /\ freeListRefs'[m] = freeListRefs[m]
                                     /\ m \in owned'[t] <=> m \in owned[t]
                                     /\ Adds(t, m)' <=> Adds(t, m)
                                     /\ Pushes(t, m)' <=> Pushes(t, m)
                                     /\ Takes(t, m)' <=> Takes(t, m)
                                     /\ Holds(t, m)' <=> Holds(t, m)
                                     /\ m \in OnList' <=> m \in OnList
    PROVE  FreeListInv'
<1>1. ASSUME NEW m \in Nodes, m # n PROVE NodeInv(m)'
  <2>1. \A s \in Threads : /\ m \in owned'[s] <=> m \in owned[s]
                           /\ Adds(s, m)' <=> Adds(s, m)
                           /\ Pushes(s, m)' <=> Pushes(s, m)
                           /\ Takes(s, m)' <=> Takes(s, m)
                           /\ Holds(s, m)' <=> Holds(s, m)
    BY <1>1, OthersKeep
  <2> QED
    BY <1>1, <2>1, SamePlace DEF FreeListInv
<1>2. \A s \in Threads : ThreadInv(s)'
  BY OthersKnow DEF FreeListInv
<1>3. \A m \in Nodes : NodeInv(m)'
  BY <1>1
<1> QED
  BY <1>2, <1>3 DEF FreeListInv

\* The list stays as it is.
LEMMA SameList ==
    ASSUME FreeListInv, UNCHANGED <<freeListHead, freeListNext>>
    PROVE  OnList' = OnList /\ Chain(freeListHead', freeListNext')
BY DEF OnList, FreeListInv

\* add: the owner puts the node on the list, or leaves it to those who have
\* references.
LEMMA AddStep ==
    ASSUME FreeListInv, NEW t \in Threads, NEW n \in Nodes, Add(t, n)
    PROVE  FreeListInv'
<1>0. Types /\ ThreadInv(t) /\ NodeInv(n)
  BY DEF FreeListInv
<1>1. /\ pc[t] = "idle" /\ n \in owned[t] /\ UNCHANGED <<freeListHead, freeListNext, head>>
      /\ freeListRefs' = [freeListRefs EXCEPT ![n].should = TRUE]
      /\ owned' = [owned EXCEPT ![t] = owned[t] \ {n}]
      /\ \/ freeListRefs[n] = Zero /\ pc' = [pc EXCEPT ![t] = "load"] /\ node' = [node EXCEPT ![t] = n]
         \/ freeListRefs[n] # Zero /\ pc' = [pc EXCEPT ![t] = "idle"] /\ node' = node
  BY DEF Add, Go, Set
<1>2. Types'
  <2>1. freeListRefs' \in [Nodes -> Words]
    BY <1>0, <1>1 DEF Types, Words
  <2>2. owned' \in [Threads -> SUBSET Nodes]
    BY <1>0, <1>1 DEF Types
  <2>3. pc' \in [Threads -> Pcs] /\ node' \in [Threads -> Links]
    BY <1>0, <1>1 DEF Types, Pcs, Links
  <2> QED
    BY <1>0, <1>1, <2>1, <2>2, <2>3 DEF Types, Add
<1>3. Still(t)
  BY <1>0, <1>1 DEF Types, Still, Add
<1>4. /\ freeListRefs'[n].should = TRUE /\ freeListRefs'[n].refs = freeListRefs[n].refs
      /\ \A m \in Nodes : m # n => freeListRefs'[m] = freeListRefs[m]
  BY <1>0, <1>1 DEF Types, Words
<1>5. n \notin owned'[t] /\ \A m \in Nodes : m # n => (m \in owned'[t] <=> m \in owned[t])
  BY <1>0, <1>1 DEF Types
<1>6. \/ freeListRefs[n] = Zero /\ pc'[t] = "load" /\ node'[t] = n
      \/ freeListRefs[n] # Zero /\ pc'[t] = "idle"
  BY <1>0, <1>1 DEF Types
<1>7. ThreadInv(t)'
  BY <1>6 DEF ThreadInv
<1>8. OnList' = OnList /\ Chain(freeListHead', freeListNext')
  BY <1>1, SameList
<1>9. /\ ~Holds(t, n) /\ ~Holds(t, n)' /\ ~Pushes(t, n)' /\ ~Takes(t, n)'
      /\ Adds(t, n)' <=> freeListRefs[n] = Zero
  BY <1>1, <1>6 DEF Holds, Pushes, Takes, Adds
<1>10. \A m \in Nodes : m # n => /\ Adds(t, m)' <=> Adds(t, m)
                                 /\ Pushes(t, m)' <=> Pushes(t, m)
                                 /\ Takes(t, m)' <=> Takes(t, m)
                                 /\ Holds(t, m)' <=> Holds(t, m)
  BY <1>1, <1>6 DEF Holds, Pushes, Takes, Adds
<1>11. NodeInv(n)'
  <2>1. \A s \in Threads : s # t => ~Claims(s, n)'
    BY <1>0, <1>1, <1>3, OthersKeep DEF NodeInv, Claims
  <2>2. Holders(n)' = Holders(n)
    BY <1>3, <1>9, HoldersChange, OthersKeep
  <2>3. ~freeListRefs[n].should /\ n \notin OnList
    BY <1>0, <1>1 DEF NodeInv, Claims
  <2>4. freeListRefs[n].refs = Cardinality(Holders(n))
    <3>1. \A s \in Threads : ~Pushes(s, n) /\ ~Takes(s, n)
      BY <1>0, <1>1 DEF NodeInv, Claims
    <3> QED
      BY <1>0, <2>3, <3>1, HoldersAre DEF NodeInv
  <2>5. freeListRefs[n] = Zero <=> Holders(n) = {}
    <3>1. freeListRefs[n] \in Words
      BY <1>0 DEF Types
    <3>2. freeListRefs[n] = Zero <=> freeListRefs[n].refs = 0
      BY <2>3, <3>1, WordIs DEF Zero
    <3> QED
      BY <2>4, <3>2, HoldersAre
  <2> QED
    BY <1>4, <1>5, <1>8, <1>9, <2>1, <2>2, <2>3, <2>4, <2>5, NewPlace, HoldersAre DEF Claims
<1> QED
  BY <1>1, <1>2, <1>3, <1>4, <1>5, <1>7, <1>8, <1>10, <1>11, MoveStep

\* The list's own reference.
LEMMA RefStep ==
    ASSUME FreeListInv, NEW t \in Threads, Zero_Ref(t)
    PROVE  FreeListInv'
<1>0. Types /\ ThreadInv(t)
  BY DEF FreeListInv
<1>1. /\ pc[t] = "ref" /\ pc' = [pc EXCEPT ![t] = "push"] /\ node[t] \in Nodes
      /\ freeListRefs' = [freeListRefs EXCEPT ![node[t]] = [refs |-> 1, should |-> FALSE]]
      /\ UNCHANGED <<freeListHead, freeListNext, owned, node, expected, head, seen, next, inGet>>
  BY <1>0 DEF Zero_Ref, Go, ThreadInv
<1>2. PICK n \in Nodes : n = node[t]
  BY <1>1
<1>3. Types'
  <2>1. freeListRefs' \in [Nodes -> Words]
    BY <1>0, <1>1 DEF Types, Words
  <2> QED
    BY <1>0, <1>1, <2>1 DEF Types, Pcs
<1>4. Still(t) /\ pc'[t] = "push"
  BY <1>0, <1>1 DEF Types, Still
<1>5. /\ freeListRefs'[n].refs = 1 /\ ~freeListRefs'[n].should
      /\ \A m \in Nodes : m # n => freeListRefs'[m] = freeListRefs[m]
  BY <1>0, <1>1, <1>2 DEF Types
<1>6. ThreadInv(t)'
  BY <1>0, <1>1, <1>4 DEF ThreadInv
<1>7. OnList' = OnList /\ Chain(freeListHead', freeListNext')
  BY <1>1, SameList
<1>8. Adds(t, n) /\ ~Adds(t, n)' /\ Pushes(t, n)' /\ ~Takes(t, n)' /\ ~Holds(t, n) /\ ~Holds(t, n)'
  BY <1>1, <1>2, <1>4 DEF Adds, Pushes, Takes, Holds
<1>9. \A m \in Nodes : m # n => /\ Adds(t, m)' <=> Adds(t, m)
                                /\ Pushes(t, m)' <=> Pushes(t, m)
                                /\ Takes(t, m)' <=> Takes(t, m)
                                /\ Holds(t, m)' <=> Holds(t, m)
  BY <1>1, <1>2, <1>4 DEF Adds, Pushes, Takes, Holds
<1>10. NodeInv(n)'
  <2>0. NodeInv(n)
    BY DEF FreeListInv
  <2>1. \A s \in Threads : s # t => ~Claims(s, n)'
    BY <1>4, <1>8, <2>0, OthersKeep DEF NodeInv, Claims
  <2>2. Holders(n)' = {} /\ n \notin OnList' /\ n \notin owned'[t]
    <3>1. Holders(n)' = Holders(n)
      BY <1>4, <1>8, HoldersChange, OthersKeep
    <3>2. Holders(n) = {} /\ n \notin OnList /\ n \notin owned[t]
      BY <1>8, <2>0 DEF NodeInv, Claims
    <3> QED
      BY <1>1, <1>7, <3>1, <3>2
  <2>3. Cardinality(Holders(n)') = 0
    BY <2>2, FS_EmptySet
  <2>4. freeListRefs'[n].refs = Cardinality(Holders(n)') + 1
    BY <1>5, <2>3
  <2> QED
    BY <1>5, <1>8, <2>1, <2>2, <2>4, NewPlace DEF Claims
<1> QED
  BY <1>1, <1>3, <1>4, <1>5, <1>6, <1>7, <1>9, <1>10, MoveStep

\* The node becomes the head.
LEMMA PushStep ==
    ASSUME FreeListInv, NEW t \in Threads, Zero_Push(t), freeListHead = expected[t]
    PROVE  FreeListInv'
<1>0. Types /\ ThreadInv(t)
  BY DEF FreeListInv
<1>1. /\ pc[t] = "push" /\ pc' = [pc EXCEPT ![t] = IF inGet[t] THEN "check" ELSE "idle"]
      /\ node' = [node EXCEPT ![t] = Nil] /\ inGet' = [inGet EXCEPT ![t] = FALSE]
      /\ expected' = [expected EXCEPT ![t] = Nil]
      /\ freeListHead' = node[t] /\ node[t] \in Nodes
      /\ UNCHANGED <<freeListNext, freeListRefs, owned, head, seen, next>>
      /\ freeListNext[node[t]] = freeListHead
  BY <1>0 DEF Zero_Push, Leave, Go, Set, ThreadInv
<1>2. PICK n \in Nodes : n = node[t]
  BY <1>1
<1>3. Types'
  BY <1>0, <1>1 DEF Types, Pcs, Links
<1>4. Still(t) /\ pc'[t] \in {"idle", "check"}
  BY <1>0, <1>1 DEF Types, Still
<1>5. ThreadInv(t)'
  BY <1>4 DEF ThreadInv
<1>6. Pushes(t, n) /\ \A m \in Nodes : ~Adds(t, m)' /\ ~Pushes(t, m)' /\ ~Takes(t, m)' /\ ~Holds(t, m)'
  BY <1>1, <1>2, <1>4 DEF Adds, Pushes, Takes, Holds
<1>7. NodeInv(n)
  BY DEF FreeListInv
<1>8. n \notin OnList
  BY <1>6, <1>7 DEF NodeInv, Claims
<1>9. OnList' = OnList \cup {n} /\ Chain(freeListHead', freeListNext')
  <2>1. /\ freeListHead \in Links /\ freeListNext \in [Nodes -> Links]
        /\ n \notin Reach(freeListHead, freeListNext) /\ freeListNext[n] = freeListHead
    BY <1>0, <1>1, <1>2, <1>8 DEF Types, OnList
  <2>2. Reach(n, freeListNext) = Reach(freeListHead, freeListNext) \cup {n} /\ Chain(n, freeListNext)
    BY <2>1, PushChain DEF FreeListInv
  <2> QED
    BY <1>1, <1>2, <2>2 DEF OnList
<1>10. \A m \in Nodes : m # n => /\ Adds(t, m)' <=> Adds(t, m)
                                 /\ Pushes(t, m)' <=> Pushes(t, m)
                                 /\ Takes(t, m)' <=> Takes(t, m)
                                 /\ Holds(t, m)' <=> Holds(t, m)
  BY <1>1, <1>2, <1>6 DEF Adds, Pushes, Takes, Holds
<1>11. NodeInv(n)'
  <2>1. \A s \in Threads : s # t => ~Claims(s, n)'
    BY <1>4, <1>6, <1>7, OthersKeep DEF NodeInv, Claims
  <2>2. ~Claims(t, n)'
    <3>1. n \notin owned[t]
      BY <1>6, <1>7 DEF NodeInv
    <3> QED
      BY <1>1, <1>6, <3>1 DEF Claims
  <2>3. Holders(n)' = Holders(n)
    <3>1. ~Holds(t, n)
      BY <1>1 DEF Holds
    <3> QED
      BY <1>4, <1>6, <3>1, HoldersChange, OthersKeep
  <2>4. ~freeListRefs'[n].should
    BY <1>1, <1>6, <1>7 DEF NodeInv
  <2>5. freeListRefs'[n].refs = Cardinality(Holders(n)') + 1
    <3>1. ListHolds(n)
      BY <1>6, HoldersAre
    <3> QED
      BY <1>1, <1>7, <2>3, <3>1 DEF NodeInv
  <2>6. n \in OnList'
    BY <1>9
  <2> QED
    BY <2>1, <2>2, <2>4, <2>5, <2>6, NewPlace DEF Claims
<1> QED
  BY <1>1, <1>3, <1>4, <1>5, <1>9, <1>10, <1>11, MoveStep

\* The list's reference is given back.
LEMMA BackStep ==
    ASSUME FreeListInv, NEW t \in Threads, Zero_Back(t)
    PROVE  FreeListInv'
<1>0. Types /\ ThreadInv(t)
  BY DEF FreeListInv
<1>1. /\ pc[t] = "back" /\ node[t] \in Nodes
      /\ freeListRefs' = [freeListRefs EXCEPT
             ![node[t]] = [refs |-> freeListRefs[node[t]].refs - 1, should |-> TRUE]]
      /\ UNCHANGED <<freeListHead, freeListNext, owned, head, seen, next>>
  BY <1>0 DEF Zero_Back, ThreadInv
<1>2. PICK n \in Nodes : n = node[t]
  BY <1>1
<1> DEFINE last == freeListRefs[n] = [refs |-> 1, should |-> FALSE]
<1>3. \/ last /\ pc' = [pc EXCEPT ![t] = "link"] /\ UNCHANGED <<node, expected, inGet>>
      \/ /\ ~last /\ pc' = [pc EXCEPT ![t] = IF inGet[t] THEN "check" ELSE "idle"]
         /\ node' = [node EXCEPT ![t] = Nil] /\ expected' = [expected EXCEPT ![t] = Nil]
         /\ inGet' = [inGet EXCEPT ![t] = FALSE]
  BY <1>2 DEF Zero_Back, Leave, Go, Set
<1>4. NodeInv(n) /\ Pushes(t, n) /\ freeListRefs[n] \in Words
  BY <1>0, <1>1, <1>2 DEF FreeListInv, Pushes, Types
<1>5. /\ ~freeListRefs[n].should /\ freeListRefs[n].refs = Cardinality(Holders(n)) + 1
      /\ n \notin OnList /\ n \notin owned[t]
  <2>1. ListHolds(n)
    BY <1>4, HoldersAre
  <2> QED
    BY <1>4, <2>1 DEF NodeInv, Claims
<1>6. last <=> Holders(n) = {}
  <2>1. last <=> freeListRefs[n].refs = 1
    BY <1>4, <1>5, WordIs
  <2> QED
    BY <1>5, <2>1, HoldersAre
<1>7. /\ freeListRefs'[n].refs = Cardinality(Holders(n)) /\ freeListRefs'[n].should
      /\ \A m \in Nodes : m # n => freeListRefs'[m] = freeListRefs[m]
      /\ freeListRefs' \in [Nodes -> Words]
  <2>1. freeListRefs[n].refs - 1 = Cardinality(Holders(n)) /\ Cardinality(Holders(n)) \in Nat
    BY <1>5, HoldersAre
  <2>2. [refs |-> Cardinality(Holders(n)), should |-> TRUE] \in Words
    BY <2>1 DEF Words
  <2>3. freeListRefs' = [freeListRefs EXCEPT ![n] = [refs |-> Cardinality(Holders(n)), should |-> TRUE]]
    BY <1>1, <1>2, <2>1
  <2> QED
    BY <1>0, <2>2, <2>3 DEF Types
<1> HIDE DEF last
<1>8. Types'
  BY <1>0, <1>1, <1>3, <1>7 DEF Types, Pcs, Links
<1>9. Still(t) /\ \/ last /\ pc'[t] = "link" /\ node'[t] = n
                  \/ ~last /\ pc'[t] \in {"idle", "check"}
  BY <1>0, <1>1, <1>2, <1>3 DEF Types, Still
<1>10. ThreadInv(t)'
  BY <1>9 DEF ThreadInv
<1>11. OnList' = OnList /\ Chain(freeListHead', freeListNext')
  BY <1>1, SameList
<1>12. /\ ~Pushes(t, n)' /\ ~Takes(t, n)' /\ ~Holds(t, n) /\ ~Holds(t, n)'
       /\ Adds(t, n)' <=> last
  BY <1>1, <1>9 DEF Adds, Pushes, Takes, Holds
<1>13. \A m \in Nodes : m # n => /\ Adds(t, m)' <=> Adds(t, m)
                                 /\ Pushes(t, m)' <=> Pushes(t, m)
                                 /\ Takes(t, m)' <=> Takes(t, m)
                                 /\ Holds(t, m)' <=> Holds(t, m)
  BY <1>1, <1>2, <1>9 DEF Adds, Pushes, Takes, Holds
<1>14. NodeInv(n)'
  <2>1. \A s \in Threads : s # t => ~Claims(s, n)'
    BY <1>4, <1>9, OthersKeep DEF NodeInv, Claims
  <2>2. Holders(n)' = Holders(n)
    BY <1>9, <1>12, HoldersChange, OthersKeep
  <2>3. n \notin OnList' /\ n \notin owned'[t]
    BY <1>1, <1>5, <1>11
  <2>4. freeListRefs'[n].refs = Cardinality(Holders(n)') + 0
    BY <1>7, <2>2, HoldersAre
  <2> QED
    BY <1>6, <1>7, <1>12, <2>1, <2>2, <2>3, <2>4, NewPlace DEF Claims
<1> QED
  BY <1>1, <1>7, <1>8, <1>9, <1>10, <1>11, <1>13, <1>14, MoveStep

\* A node that stays in its place while t takes or drops a reference.
LEMMA NewCount ==
    ASSUME NEW n \in Nodes, NodeInv(n),
           \A s \in Threads : /\ n \in owned'[s] <=> n \in owned[s]
                              /\ Adds(s, n)' <=> Adds(s, n)
                              /\ Pushes(s, n)' <=> Pushes(s, n)
                              /\ Takes(s, n)' <=> Takes(s, n),
           n \in OnList' <=> n \in OnList,
           freeListRefs'[n].should <=> freeListRefs[n].should,
           \A s \in Threads : ~Adds(s, n),
           freeListRefs[n].should => Holders(n)' # {},
           freeListRefs'[n].refs = Cardinality(Holders(n)') + (IF ListHolds(n) THEN 1 ELSE 0)
    PROVE  NodeInv(n)'
<1>1. \A s \in Threads : Claims(s, n)' <=> Claims(s, n)
  BY DEF Claims
<1>2. ListHolds(n)' <=> ListHolds(n)
  BY HoldersAre, HoldersAreNext
<1>3. freeListRefs'[n].refs = Cardinality(Holders(n)') + (IF ListHolds(n)' THEN 1 ELSE 0)
  BY <1>2
<1>4. n \notin OnList' /\ (\A s \in Threads : ~Claims(s, n)') => freeListRefs'[n].should /\ Holders(n)' # {}
  BY <1>1 DEF NodeInv
<1>5. n \in OnList' => (\A s \in Threads : ~Claims(s, n)') /\ ~freeListRefs'[n].should
  BY <1>1 DEF NodeInv
<1>6. \A s1, s2 \in Threads : Claims(s1, n)' /\ Claims(s2, n)' => s1 = s2
  BY <1>1 DEF NodeInv
<1>7. \A s \in Threads : n \in owned'[s] => ~Adds(s, n)' /\ ~Pushes(s, n)' /\ ~Takes(s, n)'
  BY DEF NodeInv
<1>8. \A s \in Threads : n \in owned'[s] \/ Pushes(s, n)' \/ Takes(s, n)' => ~freeListRefs'[n].should
  BY DEF NodeInv
<1> QED
  BY <1>3, <1>4, <1>5, <1>6, <1>7, <1>8 DEF NodeInv

\* try_get takes a reference to a node that has one.
LEMMA IncStep ==
    ASSUME FreeListInv, NEW t \in Threads, Get_Inc(t)
    PROVE  FreeListInv'
<1>0. Types /\ ThreadInv(t)
  BY DEF FreeListInv
<1>1. /\ pc[t] = "inc" /\ head[t] \in Nodes /\ seen[t].refs > 0
      /\ UNCHANGED <<freeListHead, freeListNext, owned, node, expected, head, next, inGet>>
      /\ seen' = [seen EXCEPT ![t] = Zero]
  BY <1>0 DEF Get_Inc, ThreadInv, Set
<1>2. PICK n \in Nodes : n = head[t]
  BY <1>1
<1>3. Zero \in Words
  BY DEF Zero, Words
<1>4. CASE freeListRefs[n] # seen[t]
  <2>1. pc' = [pc EXCEPT ![t] = "reload"] /\ freeListRefs' = freeListRefs
    BY <1>2, <1>4 DEF Get_Inc, Set
  <2>2. Types'
    BY <1>0, <1>1, <1>3, <2>1 DEF Types, Pcs
  <2>3. Still(t) /\ pc'[t] = "reload"
    BY <1>0, <1>1, <2>1 DEF Types, Still
  <2>4. ThreadInv(t)'
    BY <2>3 DEF ThreadInv
  <2>5. \A m \in Nodes : /\ Adds(t, m)' <=> Adds(t, m)
                         /\ Pushes(t, m)' <=> Pushes(t, m)
                         /\ Takes(t, m)' <=> Takes(t, m)
                         /\ Holds(t, m)' <=> Holds(t, m)
    BY <1>1, <2>3 DEF Adds, Pushes, Takes, Holds
  <2> QED
    BY <1>1, <2>1, <2>2, <2>3, <2>4, <2>5, QuietStep
<1>5. CASE freeListRefs[n] = seen[t]
  <2>1. /\ pc' = [pc EXCEPT ![t] = "next"]
        /\ freeListRefs' = [freeListRefs EXCEPT ![n].refs = freeListRefs[n].refs + 1]
    BY <1>2, <1>5 DEF Get_Inc, Set
  <2>2. freeListRefs[n].refs \in Nat /\ freeListRefs[n].refs > 0
    BY <1>0, <1>1, <1>5 DEF Types, Words
  <2>3. /\ freeListRefs'[n].refs = freeListRefs[n].refs + 1
        /\ freeListRefs'[n].should = freeListRefs[n].should
        /\ \A m \in Nodes : m # n => freeListRefs'[m] = freeListRefs[m]
        /\ freeListRefs' \in [Nodes -> Words]
    BY <1>0, <2>1, <2>2 DEF Types, Words
  <2>4. Types'
    BY <1>0, <1>1, <1>3, <2>1, <2>3 DEF Types, Pcs
  <2>5. Still(t) /\ pc'[t] = "next"
    BY <1>0, <1>1, <2>1 DEF Types, Still
  <2>6. ThreadInv(t)'
    BY <1>1, <2>1, <2>5 DEF ThreadInv
  <2>7. OnList' = OnList /\ Chain(freeListHead', freeListNext')
    BY <1>1, SameList
  <2>8. \A m \in Nodes : /\ Adds(t, m)' <=> Adds(t, m)
                         /\ Pushes(t, m)' <=> Pushes(t, m)
                         /\ Takes(t, m)' <=> Takes(t, m)
                         /\ m # n => (Holds(t, m)' <=> Holds(t, m))
    BY <1>1, <1>2, <2>1, <2>5 DEF Adds, Pushes, Takes, Holds
  <2>9. ~Holds(t, n) /\ Holds(t, n)'
    BY <1>1, <1>2, <2>1, <2>5 DEF Holds
  <2>10. NodeInv(n)'
    <3>0. NodeInv(n)
      BY DEF FreeListInv
    <3>1. Cardinality(Holders(n)') = Cardinality(Holders(n)) + 1
      BY <2>5, <2>9, HoldersChange, OthersKeep
    <3>2. freeListRefs[n].refs = Cardinality(Holders(n)) + (IF ListHolds(n) THEN 1 ELSE 0)
      BY <3>0 DEF NodeInv
    <3>3. freeListRefs'[n].refs = Cardinality(Holders(n)') + (IF ListHolds(n) THEN 1 ELSE 0)
      BY <2>3, <3>1, <3>2, HoldersAre
    <3>4. Holders(n)' # {}
      BY <2>9, HoldersAreNext
    <3>5. ASSUME NEW s \in Threads, Adds(s, n) PROVE FALSE
      <4>1. Holders(n) = {} /\ n \notin OnList /\ \A u \in Threads : ~Pushes(u, n) /\ ~Takes(u, n)
        <5>1. \A u \in Threads : Pushes(u, n) \/ Takes(u, n) => u = s
          BY <3>0, <3>5 DEF NodeInv, Claims
        <5>2. ~Pushes(s, n) /\ ~Takes(s, n)
          BY <3>5 DEF Adds, Pushes, Takes
        <5> QED
          BY <3>0, <3>5, <5>1, <5>2 DEF NodeInv, Claims
      <4>2. ~ListHolds(n) /\ Cardinality(Holders(n)) = 0
        BY <4>1, HoldersAre
      <4> QED
        BY <2>2, <3>2, <4>2
    <3>6. \A s \in Threads : /\ n \in owned'[s] <=> n \in owned[s]
                             /\ Adds(s, n)' <=> Adds(s, n)
                             /\ Pushes(s, n)' <=> Pushes(s, n)
                             /\ Takes(s, n)' <=> Takes(s, n)
      BY <1>1, <2>5, <2>8, OthersKeep
    <3>7. \A s \in Threads : ~Adds(s, n)
      BY <3>5
    <3> QED
      BY <2>3, <2>7, <3>0, <3>3, <3>4, <3>6, <3>7, NewCount
  <2> QED
    BY <1>1, <2>3, <2>4, <2>5, <2>6, <2>7, <2>8, <2>10, MoveStep
<1> QED
  BY <1>4, <1>5

\* try_get takes the head off the list.
LEMMA PopStep ==
    ASSUME FreeListInv, NEW t \in Threads, Get_Pop(t), freeListHead = head[t]
    PROVE  FreeListInv'
<1>0. Types /\ ThreadInv(t)
  BY DEF FreeListInv
<1>1. /\ pc[t] = "pop" /\ pc' = [pc EXCEPT ![t] = "got"] /\ head[t] \in Nodes
      /\ next' = [next EXCEPT ![t] = Nil] /\ freeListHead' = freeListNext[head[t]]
      /\ UNCHANGED <<node, head, freeListNext, freeListRefs, owned, expected, seen, inGet>>
  BY <1>0 DEF Get_Pop, Go, Set, ThreadInv
<1>2. PICK n \in Nodes : n = head[t] /\ n = freeListHead
  BY <1>1
<1>3. Types'
  BY <1>0, <1>1 DEF Types, Pcs, Links
<1>4. Still(t) /\ pc'[t] = "got"
  BY <1>0, <1>1 DEF Types, Still
<1>5. ThreadInv(t)'
  BY <1>1, <1>4 DEF ThreadInv
<1>6. OnList' = OnList \ {n} /\ Chain(freeListHead', freeListNext') /\ n \in OnList
  <2>1. freeListNext \in [Nodes -> Links] /\ Chain(n, freeListNext) /\ n \in Links /\ n # Nil
    BY <1>0, <1>2, FreeListAssumption DEF Types, FreeListInv, Links
  <2>2. Reach(freeListNext[n], freeListNext) = Reach(n, freeListNext) \ {n}
        /\ Chain(freeListNext[n], freeListNext)
    BY <2>1, PopChain
  <2>3. n \in Reach(n, freeListNext)
    BY <2>1, ReachIsLeast
  <2> QED
    BY <1>1, <1>2, <2>2, <2>3 DEF OnList
<1>7. Takes(t, n)' /\ ~Adds(t, n)' /\ ~Pushes(t, n)' /\ Holds(t, n) /\ Holds(t, n)'
  BY <1>1, <1>2, <1>4 DEF Adds, Pushes, Takes, Holds
<1>8. \A m \in Nodes : m # n => /\ Adds(t, m)' <=> Adds(t, m)
                                /\ Pushes(t, m)' <=> Pushes(t, m)
                                /\ Takes(t, m)' <=> Takes(t, m)
                                /\ Holds(t, m)' <=> Holds(t, m)
  BY <1>1, <1>2, <1>4 DEF Adds, Pushes, Takes, Holds
<1>9. NodeInv(n)'
  <2>0. NodeInv(n)
    BY DEF FreeListInv
  <2>1. (\A s \in Threads : ~Claims(s, n)) /\ ~freeListRefs[n].should
    BY <1>6, <2>0 DEF NodeInv
  <2>2. \A s \in Threads : s # t => ~Claims(s, n)'
    BY <1>4, <2>1, OthersKeep
  <2>3. Holders(n)' = Holders(n)
    BY <1>4, <1>7, HoldersChange, OthersKeep
  <2>4. freeListRefs'[n].refs = Cardinality(Holders(n)') + 1
    <3>1. ListHolds(n)
      BY <1>6, HoldersAre
    <3> QED
      BY <1>1, <2>0, <2>3, <3>1 DEF NodeInv
  <2>5. n \notin OnList' /\ n \notin owned'[t] /\ ~freeListRefs'[n].should
    BY <1>1, <1>6, <2>1 DEF Claims
  <2> QED
    BY <1>7, <2>2, <2>4, <2>5, NewPlace DEF Claims
<1> QED
  BY <1>1, <1>3, <1>4, <1>5, <1>6, <1>8, <1>9, MoveStep

\* try_get gives up its own reference and the list's.
LEMMA GotStep ==
    ASSUME FreeListInv, NEW t \in Threads, Get_Got(t)
    PROVE  FreeListInv'
<1>0. Types /\ ThreadInv(t)
  BY DEF FreeListInv
<1>1. /\ pc[t] = "got" /\ pc' = [pc EXCEPT ![t] = "idle"] /\ head[t] \in Nodes
      /\ freeListRefs' = [freeListRefs EXCEPT ![head[t]].refs = freeListRefs[head[t]].refs - 2]
      /\ owned' = [owned EXCEPT ![t] = owned[t] \cup {head[t]}]
      /\ head' = [head EXCEPT ![t] = Nil]
      /\ UNCHANGED <<freeListHead, freeListNext, node, expected, seen, next, inGet>>
  BY <1>0 DEF Get_Got, Go, Set, ThreadInv
<1>2. PICK n \in Nodes : n = head[t]
  BY <1>1
<1>3. NodeInv(n) /\ Takes(t, n) /\ Holds(t, n)
  BY <1>1, <1>2 DEF FreeListInv, Takes, Holds
<1>4. /\ ~freeListRefs[n].should /\ freeListRefs[n].refs = Cardinality(Holders(n)) + 1
      /\ n \notin OnList /\ Holders(n) # {}
  <2>1. ListHolds(n)
    BY <1>3, HoldersAre
  <2> QED
    BY <1>3, <2>1, HoldersAre DEF NodeInv, Claims
<1>5. Still(t) /\ pc'[t] = "idle"
  BY <1>0, <1>1 DEF Types, Still
<1>6. /\ ~Adds(t, n)' /\ ~Pushes(t, n)' /\ ~Takes(t, n)' /\ ~Holds(t, n)'
      /\ \A m \in Nodes : m # n => /\ Adds(t, m)' <=> Adds(t, m)
                                   /\ Pushes(t, m)' <=> Pushes(t, m)
                                   /\ Takes(t, m)' <=> Takes(t, m)
                                   /\ Holds(t, m)' <=> Holds(t, m)
  BY <1>1, <1>2, <1>5 DEF Adds, Pushes, Takes, Holds
<1>7. Cardinality(Holders(n)') = Cardinality(Holders(n)) - 1 /\ Cardinality(Holders(n)') \in Nat
  BY <1>3, <1>5, <1>6, HoldersChange, HoldersAreNext, OthersKeep
<1>8. /\ freeListRefs'[n].refs = Cardinality(Holders(n)') /\ ~freeListRefs'[n].should
      /\ \A m \in Nodes : m # n => freeListRefs'[m] = freeListRefs[m]
      /\ freeListRefs' \in [Nodes -> Words]
  <2>1. freeListRefs[n].refs - 2 = Cardinality(Holders(n)')
    BY <1>4, <1>7, HoldersAre
  <2>2. freeListRefs' = [freeListRefs EXCEPT ![n].refs = Cardinality(Holders(n)')]
    BY <1>1, <1>2, <2>1
  <2>3. /\ freeListRefs'[n].refs = Cardinality(Holders(n)') /\ freeListRefs'[n].should = freeListRefs[n].should
        /\ \A m \in Nodes : m # n => freeListRefs'[m] = freeListRefs[m]
        /\ freeListRefs' \in [Nodes -> Words]
    BY <1>0, <1>7, <2>2 DEF Types, Words
  <2> QED
    BY <1>4, <2>3
<1>9. n \in owned'[t] /\ \A m \in Nodes : m # n => (m \in owned'[t] <=> m \in owned[t])
  BY <1>0, <1>1, <1>2 DEF Types
<1>10. Types'
  <2>1. owned' \in [Threads -> SUBSET Nodes]
    BY <1>0, <1>1 DEF Types
  <2> QED
    BY <1>0, <1>1, <1>8, <2>1 DEF Types, Pcs, Links
<1>11. ThreadInv(t)'
  BY <1>5 DEF ThreadInv
<1>12. OnList' = OnList /\ Chain(freeListHead', freeListNext')
  BY <1>1, SameList
<1>13. NodeInv(n)'
  <2>1. \A s \in Threads : s # t => ~Claims(s, n)'
    BY <1>3, <1>5, OthersKeep DEF NodeInv, Claims
  <2>2. freeListRefs'[n].refs = Cardinality(Holders(n)') + 0
    BY <1>7, <1>8
  <2>3. n \notin OnList'
    BY <1>4, <1>12
  <2> QED
    BY <1>6, <1>8, <1>9, <2>1, <2>2, <2>3, NewPlace DEF Claims
<1> QED
  BY <1>1, <1>5, <1>6, <1>8, <1>9, <1>10, <1>11, <1>12, <1>13, MoveStep

\* try_get gives up its reference to a node that another thread took; the last
\* one puts a node that should be on the list there.
LEMMA MissedStep ==
    ASSUME FreeListInv, NEW t \in Threads, Get_Missed(t)
    PROVE  FreeListInv'
<1>0. Types /\ ThreadInv(t)
  BY DEF FreeListInv
<1>1. /\ pc[t] = "missed" /\ node[t] \in Nodes
      /\ freeListRefs' = [freeListRefs EXCEPT ![node[t]].refs = freeListRefs[node[t]].refs - 1]
      /\ UNCHANGED <<freeListHead, freeListNext, owned, expected, head, seen, next>>
  BY <1>0 DEF Get_Missed, ThreadInv
<1>2. PICK n \in Nodes : n = node[t]
  BY <1>1
<1> DEFINE last == freeListRefs[n] = [refs |-> 1, should |-> TRUE]
<1>3. /\ last => pc' = [pc EXCEPT ![t] = "load"] /\ node' = node /\ inGet' = [inGet EXCEPT ![t] = TRUE]
      /\ ~last => /\ pc' = [pc EXCEPT ![t] = "check"] /\ node' = [node EXCEPT ![t] = Nil]
                  /\ inGet' = [inGet EXCEPT ![t] = FALSE]
  BY <1>2 DEF Get_Missed, Set
<1>4. NodeInv(n) /\ Holds(t, n) /\ freeListRefs[n] \in Words
  BY <1>0, <1>1, <1>2 DEF FreeListInv, Holds, Types
<1>5. /\ freeListRefs[n].refs = Cardinality(Holders(n)) + (IF ListHolds(n) THEN 1 ELSE 0)
      /\ Holders(n) # {} /\ \A s \in Threads : ~Adds(s, n)
  <2>1. Holders(n) # {}
    BY <1>4, HoldersAre
  <2> QED
    BY <1>4, <2>1 DEF NodeInv
<1>6. freeListRefs[n].should => n \notin OnList /\ ~ListHolds(n) /\ \A s \in Threads : ~Claims(s, n)
  BY <1>4, <1>5, HoldersAre DEF NodeInv, Claims
<1>7. last <=> freeListRefs[n].refs = 1 /\ freeListRefs[n].should
  BY <1>4, WordIs
<1> HIDE DEF last
<1>8. /\ pc'[t] \in {"load", "check"} /\ (last <=> pc'[t] = "load") /\ (last => node'[t] = n)
      /\ Still(t)
  BY <1>0, <1>1, <1>2, <1>3 DEF Types, Still
<1>9. /\ ~Pushes(t, n)' /\ ~Takes(t, n)' /\ ~Holds(t, n)' /\ (Adds(t, n)' <=> last)
      /\ ~Pushes(t, n) /\ ~Takes(t, n)
      /\ \A m \in Nodes : m # n => /\ Adds(t, m)' <=> Adds(t, m)
                                   /\ Pushes(t, m)' <=> Pushes(t, m)
                                   /\ Takes(t, m)' <=> Takes(t, m)
                                   /\ Holds(t, m)' <=> Holds(t, m)
  BY <1>1, <1>2, <1>8 DEF Adds, Pushes, Takes, Holds
<1>10. Cardinality(Holders(n)') = Cardinality(Holders(n)) - 1 /\ Cardinality(Holders(n)') \in Nat
  BY <1>4, <1>8, <1>9, HoldersChange, HoldersAreNext, OthersKeep
<1>11. /\ freeListRefs'[n].refs = Cardinality(Holders(n)') + (IF ListHolds(n) THEN 1 ELSE 0)
       /\ freeListRefs'[n].should <=> freeListRefs[n].should
       /\ \A m \in Nodes : m # n => freeListRefs'[m] = freeListRefs[m]
       /\ freeListRefs' \in [Nodes -> Words]
  <2>1. /\ freeListRefs[n].refs - 1 = Cardinality(Holders(n)') + (IF ListHolds(n) THEN 1 ELSE 0)
        /\ freeListRefs[n].refs - 1 \in Nat
    BY <1>5, <1>10, HoldersAre
  <2>2. freeListRefs' = [freeListRefs EXCEPT ![n].refs = freeListRefs[n].refs - 1]
    BY <1>1, <1>2
  <2>3. /\ freeListRefs'[n].refs = freeListRefs[n].refs - 1 /\ freeListRefs'[n].should = freeListRefs[n].should
        /\ \A m \in Nodes : m # n => freeListRefs'[m] = freeListRefs[m]
        /\ freeListRefs' \in [Nodes -> Words]
    BY <1>0, <2>1, <2>2 DEF Types, Words
  <2> QED
    BY <2>1, <2>3
<1>12. Types'
  BY <1>0, <1>1, <1>3, <1>11 DEF Types, Pcs, Links
<1>13. ThreadInv(t)'
  BY <1>8 DEF ThreadInv
<1>14. OnList' = OnList /\ Chain(freeListHead', freeListNext')
  BY <1>1, SameList
<1>15. CASE last
  <2>1. freeListRefs[n].should /\ n \notin OnList /\ ~ListHolds(n) /\ \A s \in Threads : ~Claims(s, n)
    BY <1>6, <1>7, <1>15
  <2>2. Holders(n)' = {} /\ freeListRefs'[n].refs = Cardinality(Holders(n)') + 0
    BY <1>5, <1>7, <1>10, <1>11, <1>15, <2>1, HoldersAre, HoldersAreNext
  <2>3. \A s \in Threads : s # t => ~Claims(s, n)'
    BY <1>8, <2>1, OthersKeep
  <2>4. n \notin owned'[t] /\ n \notin OnList' /\ freeListRefs'[n].should
    BY <1>1, <1>11, <1>14, <2>1 DEF Claims
  <2>5. NodeInv(n)'
    BY <1>9, <1>15, <2>2, <2>3, <2>4, NewPlace DEF Claims
  <2> QED
    BY <1>1, <1>8, <1>9, <1>11, <1>12, <1>13, <1>14, <2>5, MoveStep
<1>16. CASE ~last
  <2>1. \A s \in Threads : /\ n \in owned'[s] <=> n \in owned[s]
                           /\ Adds(s, n)' <=> Adds(s, n)
                           /\ Pushes(s, n)' <=> Pushes(s, n)
                           /\ Takes(s, n)' <=> Takes(s, n)
    BY <1>1, <1>5, <1>8, <1>9, <1>16, OthersKeep
  <2>2. freeListRefs[n].should => Holders(n)' # {}
    BY <1>5, <1>6, <1>7, <1>10, <1>16, HoldersAre, HoldersAreNext
  <2>3. NodeInv(n)'
    BY <1>4, <1>5, <1>11, <1>14, <2>1, <2>2, NewCount
  <2> QED
    BY <1>1, <1>8, <1>9, <1>11, <1>12, <1>13, <1>14, <2>3, MoveStep
<1> QED
  BY <1>15, <1>16

-----------------------------------------------------------------------------
\* At first the list is empty and every node has its owner.
LEMMA InitFreeList == Init => FreeListInv
<1> SUFFICES ASSUME Init PROVE FreeListInv
  OBVIOUS
<1>1. Types
  BY DEF Init, Types, Pcs, Words, Links, Zero
<1>2. \A t \in Threads : pc[t] = "idle"
  BY DEF Init
<1>3. \A t \in Threads : ThreadInv(t)
  BY <1>2 DEF ThreadInv
<1>4. \A t \in Threads : \A n : ~Adds(t, n) /\ ~Pushes(t, n) /\ ~Takes(t, n) /\ ~Holds(t, n)
  BY <1>2 DEF Adds, Pushes, Takes, Holds
<1>5. OnList = {}
  <2>1. freeListHead = Nil /\ Nil \in Links /\ freeListNext \in [Nodes -> Links]
    BY <1>1 DEF Init, Types
  <2>2. Closed(freeListHead, freeListNext, {})
    BY <2>1 DEF Closed
  <2> QED
    BY <2>1, <2>2, ReachIsLeast DEF OnList
<1>6. Chain(freeListHead, freeListNext)
  BY <1>5 DEF Chain, NoCircle, OnList
<1>7. ASSUME NEW n \in Nodes PROVE NodeInv(n)
  <2>1. Holders(n) = {} /\ Cardinality(Holders(n)) = 0 /\ ~ListHolds(n)
    BY <1>4, <1>5, HoldersAre
  <2>2. freeListRefs[n].refs = 0 /\ freeListRefs[n].should = FALSE
    BY DEF Init, Zero
  <2>3. \A t \in Threads : Claims(t, n) <=> n \in owned[t]
    BY <1>4 DEF Claims
  <2>4. \A s, t \in Threads : n \in owned[s] /\ n \in owned[t] => s = t
    BY DEF Init
  <2>5. \E t \in Threads : n \in owned[t]
    BY DEF Init
  <2> QED
    BY <1>4, <1>5, <2>1, <2>2, <2>3, <2>4, <2>5 DEF NodeInv
<1> QED
  BY <1>1, <1>3, <1>6, <1>7 DEF FreeListInv

\* Every step keeps the invariant.
LEMMA NextFreeList == FreeListInv /\ [Next]_vars => FreeListInv'
<1> SUFFICES ASSUME FreeListInv, [Next]_vars PROVE FreeListInv'
  OBVIOUS
<1>1. CASE UNCHANGED vars
  <2>1. UNCHANGED <<freeListHead, freeListNext, freeListRefs, owned>> /\ UNCHANGED locals
    BY <1>1 DEF vars
  <2>2. Types'
    BY <2>1 DEF FreeListInv, Types, locals
  <2>3. \A t \in Threads : ThreadInv(t)'
    BY <2>1 DEF FreeListInv, ThreadInv, locals
  <2>4. OnList' = OnList /\ Chain(freeListHead', freeListNext')
    BY <2>1, SameList
  <2>5. ASSUME NEW n \in Nodes PROVE NodeInv(n)'
    <3>1. \A s \in Threads : /\ Adds(s, n)' <=> Adds(s, n)
                             /\ Pushes(s, n)' <=> Pushes(s, n)
                             /\ Takes(s, n)' <=> Takes(s, n)
                             /\ Holds(s, n)' <=> Holds(s, n)
      BY <2>1 DEF Adds, Pushes, Takes, Holds, locals
    <3> QED
      BY <2>1, <2>4, <3>1, SamePlace DEF FreeListInv
  <2> QED
    BY <2>2, <2>3, <2>4, <2>5 DEF FreeListInv
<1>2. ASSUME NEW t \in Threads, TryGet(t) \/ AddKnowingRefcountIsZero(t) PROVE FreeListInv'
  BY <1>2, StartStep, ReadStep, LinkStep, RefStep, PushStep, BackStep, IncStep, PopStep, GotStep,
     MissedStep DEF TryGet, AddKnowingRefcountIsZero
<1> QED
  BY <1>1, <1>2, AddStep DEF Next

\* The inductive invariant holds in every reachable state.
THEOREM FreeListSafe == Spec => []FreeListInv
BY InitFreeList, NextFreeList, PTL DEF Spec

\* However try_get and add interleave, a block has one owner, is not on the
\* list while it has one, and the list runs in no circle.
THEOREM BlocksHaveOneOwner == Spec => []OneOwner
<1>1. FreeListInv => OneOwner
  <2> SUFFICES ASSUME FreeListInv PROVE OneOwner
    OBVIOUS
  <2>1. \A n \in Nodes : NodeInv(n)
    BY DEF FreeListInv
  <2>t. owned \in [Threads -> SUBSET Nodes]
    BY DEF FreeListInv, Types
  <2>2. \A s, t \in Threads : s # t => owned[s] \cap owned[t] = {}
    BY <2>1, <2>t DEF NodeInv, Claims
  <2>3. \A t \in Threads : owned[t] \cap OnList = {}
    BY <2>1, <2>t DEF NodeInv, Claims
  <2>4. NoCircle(freeListNext, OnList)
    BY DEF FreeListInv, Chain, OnList
  <2>5. ASSUME NEW t \in Threads, pc[t] = "got" PROVE ~freeListRefs[head[t]].should
    <3>1. head[t] \in Nodes
      BY <2>5 DEF FreeListInv, ThreadInv
    <3>2. NodeInv(head[t]) /\ Takes(t, head[t])
      BY <2>1, <2>5, <3>1 DEF Takes
    <3> QED
      BY <3>2 DEF NodeInv
  <2> QED
    BY <2>2, <2>3, <2>4, <2>5 DEF OneOwner
<1> QED
  BY <1>1, FreeListSafe, PTL

\* A block's count is exactly its references, and no block is forgotten.
THEOREM CountsAreReferences == Spec => []ReferencesExact
<1>1. FreeListInv => ReferencesExact
  <2> SUFFICES ASSUME FreeListInv, NEW n \in Nodes
               PROVE  /\ freeListRefs[n].refs = Cardinality(Holders(n)) + (IF ListHolds(n) THEN 1 ELSE 0)
                      /\ \/ n \in OnList
                         \/ \E t \in Threads : n \in owned[t] \cup {node[t]}
                         \/ \E t \in Threads : n = head[t] /\ pc[t] \in {"next", "pop", "got"}
    BY DEF ReferencesExact
  <2>1. NodeInv(n)
    BY DEF FreeListInv
  <2>2. CASE \E t \in Threads : Claims(t, n)
    BY <2>1, <2>2 DEF NodeInv, Claims, Adds, Pushes, Takes
  <2>3. CASE n \in OnList
    BY <2>1, <2>3 DEF NodeInv
  <2>4. CASE n \notin OnList /\ \A t \in Threads : ~Claims(t, n)
    <3>1. \E t \in Threads : Holds(t, n)
      BY <2>1, <2>4, HoldersAre DEF NodeInv
    <3> QED
      BY <2>1, <3>1 DEF NodeInv, Holds
  <2> QED
    BY <2>2, <2>3, <2>4
<1> QED
  BY <1>1, FreeListSafe, PTL

-----------------------------------------------------------------------------
(* The hash of implicit producers: arithmetic of slots and capacities.      *)

\* The parts of a division.
LEMMA Division ==
    ASSUME NEW a \in Nat, NEW n \in Nat \ {0}
    PROVE  a \div n \in Nat /\ a % n \in 0 .. n - 1 /\ a = n * (a \div n) + (a % n)
OBVIOUS

LEMMA Remainder ==
    ASSUME NEW q \in Nat, NEW r \in Nat, NEW n \in Nat \ {0}, r < n
    PROVE  (n * q + r) % n = r
OBVIOUS

\* Reducing a number before the step to the next slot changes nothing.
LEMMA NextSlot ==
    ASSUME NEW a \in Nat, NEW n \in Nat \ {0}
    PROVE  (a + 1) % n = ((a % n) + 1) % n
<1>0. a \div n \in Nat /\ a % n \in Nat /\ a % n < n /\ a = n * (a \div n) + (a % n)
  BY Division
<1>1. PICK q \in Nat, r \in Nat : r < n /\ a = n * q + r /\ a % n = r
  BY ONLY <1>0
<1>2. CASE r + 1 < n
  <2>1. a + 1 = n * q + (r + 1) /\ r + 1 = n * 0 + (r + 1)
    BY <1>1
  <2>2. (n * q + (r + 1)) % n = r + 1 /\ (n * 0 + (r + 1)) % n = r + 1
    BY <1>1, <1>2, Remainder
  <2> QED
    BY <1>1, <2>1, <2>2
<1>3. CASE r + 1 = n
  <2>1. a + 1 = n * (q + 1) + 0 /\ r + 1 = n * 1 + 0
    BY <1>1, <1>3
  <2>2. (n * (q + 1) + 0) % n = 0 /\ (n * 1 + 0) % n = 0
    BY Remainder
  <2> QED
    BY <1>1, <2>1, <2>2
<1> QED
  BY <1>1, <1>2, <1>3

\* A non-empty set of naturals has a least element.
LEMMA LeastNumber ==
    ASSUME NEW S, S \subseteq Nat, S # {}
    PROVE  \E m \in S : \A n \in S : m <= n
<1>1. PICK m \in S : \A n \in S : ~(<<n, m>> \in OpToRel(<, Nat))
  BY NatLessThanWellFounded, WFMin
<1>2. \A n \in S : ~(n < m)
  BY <1>1 DEF OpToRel
<1> QED
  BY <1>2

\* Twice a power of two is one: an odd divisor of 2m divides m.
LEMMA TwicePower ==
    ASSUME NEW m \in Nat \ {0}, PowerOfTwo(m)
    PROVE  PowerOfTwo(2 * m)
<1> SUFFICES ASSUME NEW d \in 1 .. 2 * m, (2 * m) % d = 0, d % 2 = 1 PROVE d = 1
  BY DEF PowerOfTwo
<1>0. /\ (2 * m) \div d \in Nat
      /\ 2 * m = d * ((2 * m) \div d) + ((2 * m) % d)
  <2>1. 2 * m \in Nat /\ d \in Nat \ {0}
    OBVIOUS
  <2> QED
    BY ONLY <2>1, Division
<1>1. PICK q \in Nat : 2 * m = d * q + 0
  BY ONLY <1>0, (2 * m) % d = 0
<1>2. PICK e \in Nat : d = 2 * e + 1
  BY Division
<1>3. 2 * m = 2 * (e * q) + q
  BY <1>1, <1>2
<1>4. e * q \in Nat
  BY <1>2
<1>5. PICK r \in Nat : q = 2 * r
  <2>1. PICK x \in Nat : 2 * m = 2 * x + q
    BY <1>3, <1>4
  <2>2. m - x \in Nat /\ q = 2 * (m - x)
    BY ONLY <2>1, m \in Nat, q \in Nat
  <2> QED
    BY ONLY <2>2
<1>6. d * q = 2 * (d * r)
  BY <1>5
<1>7. m = d * r + 0
  BY <1>1, <1>6
<1>8. m % d = 0
  BY <1>7, Remainder
<1>9. r # 0
  BY <1>7
<1>10. d * r >= d
  BY <1>9
<1> QED
  BY <1>7, <1>8, <1>10 DEF PowerOfTwo

\* There is a power of two between any number and twice its successor.
LEMMA PowerAbove ==
    ASSUME NEW n \in Nat
    PROVE  \E m \in Nat : n < m /\ m <= 2 * n + 2 /\ PowerOfTwo(m)
<1> DEFINE Above(k) == \E m \in Nat : k < m /\ m <= 2 * k + 2 /\ PowerOfTwo(m)
           Missing == {k \in Nat : ~Above(k)}
<1> SUFFICES ASSUME Missing # {} PROVE FALSE
  OBVIOUS
<1>1. PICK k \in Missing : \A j \in Missing : k <= j
  BY LeastNumber
<1>2. k # 0
  <2>1. 1 \in Nat /\ 0 < 1 /\ 1 <= 2 * 0 + 2 /\ PowerOfTwo(1)
    BY DEF PowerOfTwo
  <2>2. Above(0)
    BY <2>1
  <2> QED
    BY <2>2
<1>3. PICK m \in Nat : k - 1 < m /\ m <= 2 * (k - 1) + 2 /\ PowerOfTwo(m)
  <2>1. k - 1 \in Nat /\ k - 1 \notin Missing
    BY <1>1, <1>2
  <2> QED
    BY <2>1
<1>4. CASE m = k
  <2>1. PowerOfTwo(2 * m) /\ k < 2 * m /\ 2 * m <= 2 * k + 2 /\ 2 * m \in Nat
    BY <1>2, <1>3, <1>4, TwicePower
  <2>2. Above(k)
    BY <2>1
  <2> QED
    BY <2>2
<1>5. CASE m # k
  <2>1. k < m /\ m <= 2 * k + 2
    BY <1>3, <1>5
  <2>2. Above(k)
    BY <1>3, <2>1
  <2> QED
    BY <2>2
<1> QED
  BY <1>4, <1>5

\* A new table has room.
LEMMA GrownPositive ==
    ASSUME NEW n \in Nat, NEW capacity \in Nat \ {0}
    PROVE  Grown(n, capacity) \in Nat \ {0}
<1> DEFINE fits == {m \in 2 .. 4 * (n + 1) : PowerOfTwo(m) /\ n < (capacity * m) \div 2}
<1>1. PICK m \in Nat : 2 * n + 1 < m /\ m <= 2 * (2 * n + 1) + 2 /\ PowerOfTwo(m)
  <2>1. 2 * n + 1 \in Nat
    OBVIOUS
  <2> QED
    BY ONLY <2>1, PowerAbove
<1>2. capacity * m >= m
  BY <1>1
<1>3. n < (capacity * m) \div 2
  BY <1>1, <1>2
<1>4. m \in fits
  BY <1>1, <1>3
<1>5. \E least \in fits : \A other \in fits : least <= other
  <2>1. fits \subseteq Nat /\ fits # {}
    BY <1>4
  <2> QED
    BY ONLY <2>1, LeastNumber
<1>6. (CHOOSE least \in fits : \A other \in fits : least <= other) \in Nat \ {0}
  BY <1>5
<1> QED
  BY <1>6 DEF Grown

-----------------------------------------------------------------------------
(* The hash: one table.                                                     *)

Entries == [key : Ids \cup {Empty, Reusable}, value : Nat]
Size(f) == Cardinality(DOMAIN f)
IsTable(f) == \E c \in Nat \ {0} : f \in [0 .. c - 1 -> Entries]

\* The slot d steps from where the search for t begins, and that the search
\* comes to slot i having seen none of some keys on the way.
Home(t, d, f) == (Hash[t] + d) % Size(f)
Reaches(t, f, i, keys) ==
    \E d \in Nat : /\ i = Home(t, d, f)
                   /\ \A e \in 0 .. d - 1 : f[Home(t, e, f)].key \notin keys

Has(f, t) == \E i \in DOMAIN f : f[i].key = t

\* A key is in one slot, and no empty slot lies before it.
GoodTable(f) ==
    /\ IsTable(f)
    /\ \A i, j \in DOMAIN f : f[i].key \in Ids /\ f[i].key = f[j].key => i = j
    /\ \A i \in DOMAIN f : f[i].key \in Ids => Reaches(f[i].key, f, i, {Empty})

\* What thread t may do to a table: no slot becomes empty, and other threads'
\* keys stay where they are.
Later(f, g, t) ==
    /\ DOMAIN g = DOMAIN f
    /\ \A i \in DOMAIN f : f[i].key # Empty => g[i].key # Empty
    /\ \A i \in DOMAIN f : \A s \in Ids \ {t} : f[i].key = s <=> g[i].key = s

LEMMA TableSize ==
    ASSUME NEW f, IsTable(f)
    PROVE  /\ Size(f) \in Nat \ {0} /\ DOMAIN f = 0 .. Size(f) - 1
           /\ \A i \in DOMAIN f : f[i] \in Entries
           /\ \A x \in Nat : x % Size(f) \in DOMAIN f
<1>1. PICK c \in Nat \ {0} : f \in [0 .. c - 1 -> Entries]
  BY DEF IsTable
<1>2. Cardinality(0 .. c - 1) = c
  BY FS_Interval
<1>3. Size(f) = c
  BY <1>1, <1>2 DEF Size
<1>4. \A x \in Nat : x % c \in 0 .. c - 1
  BY Division
<1> QED
  BY <1>1, <1>3, <1>4

\* A number's home is a slot.
LEMMA HomeIn ==
    ASSUME NEW f, IsTable(f), NEW t \in Ids, NEW d \in Nat
    PROVE  Home(t, d, f) \in DOMAIN f
<1>1. Hash[t] + d \in Nat
  BY HashAssumption
<1> QED
  BY <1>1, TableSize DEF Home

\* A search begins at its home, and goes on from a slot it may pass.
LEMMA StartReaches ==
    ASSUME NEW f, IsTable(f), NEW t \in Ids, NEW keys
    PROVE  Reaches(t, f, Hash[t] % Size(f), keys)
<1>1. Hash[t] + 0 = Hash[t]
  BY HashAssumption
<1>2. Hash[t] % Size(f) = Home(t, 0, f) /\ 0 .. 0 - 1 = {}
  BY <1>1 DEF Home
<1> QED
  BY <1>2 DEF Reaches

LEMMA StepReaches ==
    ASSUME NEW f, IsTable(f), NEW t \in Ids, NEW keys, NEW i,
           Reaches(t, f, i, keys), f[i].key \notin keys
    PROVE  Reaches(t, f, (i + 1) % Size(f), keys)
<1>1. PICK d \in Nat : /\ i = Home(t, d, f)
                       /\ \A e \in 0 .. d - 1 : f[Home(t, e, f)].key \notin keys
  BY DEF Reaches
<1>2. \A e \in 0 .. (d + 1) - 1 : f[Home(t, e, f)].key \notin keys
  BY <1>1
<1>3. Hash[t] + d \in Nat /\ Hash[t] + (d + 1) = (Hash[t] + d) + 1
  BY HashAssumption
<1>4. (i + 1) % Size(f) = Home(t, d + 1, f)
  BY <1>1, <1>3, NextSlot, TableSize DEF Home
<1> QED
  BY <1>2, <1>4 DEF Reaches

\* A search that comes to an empty slot has not missed its key.
LEMMA NotHere ==
    ASSUME NEW f, GoodTable(f), NEW t \in Ids, NEW i,
           Reaches(t, f, i, {t, Empty}), f[i].key = Empty
    PROVE  ~Has(f, t)
<1> SUFFICES ASSUME NEW j \in DOMAIN f, f[j].key = t PROVE FALSE
  BY DEF Has
<1>1. PICK d \in Nat : /\ i = Home(t, d, f)
                       /\ \A e \in 0 .. d - 1 : f[Home(t, e, f)].key \notin {t, Empty}
  BY DEF Reaches
<1>2. PICK c \in Nat : /\ j = Home(t, c, f)
                       /\ \A e \in 0 .. c - 1 : f[Home(t, e, f)].key \notin {Empty}
  BY DEF Reaches, GoodTable
<1>3. CASE c < d
  BY <1>1, <1>2, <1>3
<1>4. CASE d < c
  BY <1>1, <1>2, <1>4
<1>5. CASE d = c
  BY <1>1, <1>2, <1>5, HashAssumption
<1> QED
  BY <1>3, <1>4, <1>5

\* What others reached they still reach after a step of t.
LEMMA LaterReaches ==
    ASSUME NEW f, IsTable(f), NEW g, NEW t, Later(f, g, t), NEW s \in Ids, NEW i,
           NEW keys, keys = {Empty} \/ (keys = {s, Empty} /\ s # t),
           Reaches(s, f, i, keys)
    PROVE  Reaches(s, g, i, keys)
<1>1. PICK d \in Nat : /\ i = Home(s, d, f)
                       /\ \A e \in 0 .. d - 1 : f[Home(s, e, f)].key \notin keys
  BY DEF Reaches
<1>2. \A e \in Nat : Home(s, e, g) = Home(s, e, f)
  BY DEF Later, Home, Size
<1>3. ASSUME NEW e \in 0 .. d - 1 PROVE g[Home(s, e, g)].key \notin keys
  <2>1. Home(s, e, f) \in DOMAIN f /\ f[Home(s, e, f)].key \notin keys
    BY <1>1, HomeIn
  <2> QED
    BY <1>2, <2>1 DEF Later
<1> QED
  BY <1>1, <1>2, <1>3 DEF Reaches

\* A thread takes the slot it has come to.
LEMMA ClaimTable ==
    ASSUME NEW f, GoodTable(f), NEW t \in Ids, NEW p \in Nat, NEW i \in DOMAIN f,
           Reaches(t, f, i, {Empty}), f[i].key \in {Empty, Reusable}, ~Has(f, t),
           NEW g, g = [f EXCEPT ![i] = [key |-> t, value |-> p]]
    PROVE  GoodTable(g) /\ Later(f, g, t)
<1>1. t \notin {Empty, Reusable} /\ {Empty, Reusable} \cap Ids = {}
  BY HashAssumption
<1>2. /\ DOMAIN g = DOMAIN f
      /\ g[i] = [key |-> t, value |-> p]
      /\ \A j \in DOMAIN f : j # i => g[j] = f[j]
  OBVIOUS
<1>3. IsTable(g)
  BY <1>2 DEF GoodTable, IsTable, Entries
<1>4. Later(f, g, t)
  BY <1>1, <1>2 DEF Later
<1>5. ASSUME NEW j \in DOMAIN g, NEW k \in DOMAIN g, g[j].key \in Ids, g[j].key = g[k].key
      PROVE  j = k
  BY <1>2, <1>5 DEF GoodTable, Has
<1>6. ASSUME NEW j \in DOMAIN g, g[j].key \in Ids
      PROVE  Reaches(g[j].key, g, j, {Empty})
  <2>1. Reaches(g[j].key, f, j, {Empty})
    BY <1>2, <1>6 DEF GoodTable
  <2>2. g[j].key \in Ids /\ IsTable(f)
    BY <1>6 DEF GoodTable
  <2> QED
    BY ONLY <1>4, <2>1, <2>2, LaterReaches
<1> QED
  BY <1>3, <1>4, <1>5, <1>6 DEF GoodTable

\* A thread takes its key out.
LEMMA ReleaseTable ==
    ASSUME NEW f, GoodTable(f), NEW t \in Ids, NEW i \in DOMAIN f, f[i].key = t,
           NEW g, g = [f EXCEPT ![i].key = Reusable]
    PROVE  GoodTable(g) /\ Later(f, g, t) /\ ~Has(g, t)
<1>1. t # Empty /\ {Empty, Reusable} \cap Ids = {} /\ Empty # Reusable
  BY HashAssumption
<1>2. f[i] \in Entries
  BY TableSize DEF GoodTable
<1>3. /\ DOMAIN g = DOMAIN f
      /\ g[i] = [key |-> Reusable, value |-> f[i].value]
      /\ \A j \in DOMAIN f : j # i => g[j] = f[j]
  BY <1>2 DEF Entries
<1>4. IsTable(g)
  BY <1>2, <1>3 DEF GoodTable, IsTable, Entries
<1>5. Later(f, g, t)
  BY <1>1, <1>3 DEF Later
<1>6. ASSUME NEW j \in DOMAIN g, NEW k \in DOMAIN g, g[j].key \in Ids, g[j].key = g[k].key
      PROVE  j = k
  BY <1>1, <1>3, <1>6 DEF GoodTable
<1>7. ASSUME NEW j \in DOMAIN g, g[j].key \in Ids
      PROVE  Reaches(g[j].key, g, j, {Empty})
  <2>1. Reaches(g[j].key, f, j, {Empty})
    BY <1>1, <1>3, <1>7 DEF GoodTable
  <2>2. g[j].key \in Ids /\ IsTable(f)
    BY <1>7 DEF GoodTable
  <2> QED
    BY ONLY <1>5, <2>1, <2>2, LaterReaches
<1>8. ~Has(g, t)
  BY <1>1, <1>3 DEF Has, GoodTable
<1> QED
  BY <1>4, <1>5, <1>6, <1>7, <1>8 DEF GoodTable

\* A new table has no keys.
LEMMA FreshTable ==
    ASSUME NEW c \in Nat \ {0}
    PROVE  GoodTable(NewTable(c)) /\ \A t \in Ids : ~Has(NewTable(c), t)
<1>1. NewTable(c) \in [0 .. c - 1 -> Entries]
  BY DEF NewTable, Entries, None
<1>2. \A i \in 0 .. c - 1 : NewTable(c)[i].key \notin Ids
  BY HashAssumption DEF NewTable
<1> QED
  BY <1>1, <1>2 DEF GoodTable, IsTable, Has

-----------------------------------------------------------------------------
(* The hash: the invariant.                                                 *)

Inserting == {"count", "full", "resize", "room", "recycle", "subscribe", "insert"}
HashPcs == {"idle", "probe", "copy", "exit", "retire"} \cup Inserting

HashTypes ==
    /\ tables \in Seq(UNION {[0 .. c - 1 -> Entries] : c \in Nat \ {0}})
    /\ Len(tables) # 0
    /\ hpc \in [Ids -> HashPcs]
    /\ holds \in [Ids -> Nat] /\ prod \in [Ids -> Nat]
    /\ main \in [Ids -> Nat] /\ tab \in [Ids -> Nat] /\ idx \in [Ids -> Nat]
    /\ implicitProducerHashCount \in Int /\ newCount \in [Ids -> Int]
    /\ producerList \in Nat /\ inactive \subseteq 1 .. producerList

TablesInv == \A k \in 1 .. Len(tables) : GoodTable(tables[k])

\* A key lies beside the producer its thread holds.
Values ==
    \A k \in 1 .. Len(tables) : \A i \in DOMAIN tables[k] :
        tables[k][i].key \in Ids =>
            /\ tables[k][i].value = holds[tables[k][i].key]
            /\ tables[k][i].value # None

Nowhere(t) == \A k \in 1 .. Len(tables) : ~Has(tables[k], t)

\* A search has passed neither its key nor an empty slot, and not missed the
\* key in a table it has left; a thread that inserts has its key nowhere.
SearchInv(t) ==
    /\ hpc[t] \in {"probe", "exit"} =>
         /\ tab[t] \in 1 .. Len(tables)
         /\ Reaches(t, tables[tab[t]], Slot(t, tab[t]), {t, Empty})
         /\ \A k \in tab[t] + 1 .. Len(tables) : ~Has(tables[k], t)
    /\ hpc[t] = "probe" => tab[t] <= main[t]
    /\ hpc[t] \in {"copy", "insert"} =>
         /\ ~Has(tables[main[t]], t)
         /\ Reaches(t, tables[main[t]], Slot(t, main[t]), {Empty})
    /\ hpc[t] \in Inserting \ {"insert"} => idx[t] = Hash[t]
    /\ hpc[t] \in {"probe", "copy"} \cup Inserting => main[t] \in 1 .. Len(tables)
    /\ hpc[t] \in Inserting \cup {"retire"} => Nowhere(t)

\* What a thread holds, and what it is about to hold.
ProdInv(t) ==
    /\ hpc[t] \in Inserting => holds[t] = None
    /\ hpc[t] \in {"exit", "retire"} => holds[t] # None
    /\ hpc[t] = "copy" => prod[t] = holds[t]
    /\ hpc[t] \in {"copy", "subscribe", "insert"} <=> prod[t] # None
    /\ hpc[t] \in {"idle", "probe", "copy"} /\ holds[t] # None => ~Nowhere(t)

Owners ==
    /\ \A t \in Ids : {holds[t], prod[t]} \subseteq 0 .. producerList
    /\ OneThreadPerProducer

HashInv ==
    /\ HashTypes /\ TablesInv /\ Values /\ Owners
    /\ \A t \in Ids : SearchInv(t) /\ ProdInv(t)

-----------------------------------------------------------------------------
(* The hash: what a step of t leaves to the others.                         *)

Moves(t) ==
    /\ Len(tables') \in Nat /\ Len(tables) <= Len(tables')
    /\ \A k \in 1 .. Len(tables) : Later(tables[k], tables'[k], t)
    /\ \A k \in Len(tables) + 1 .. Len(tables') : \A s \in Ids : ~Has(tables'[k], s)

OthersStay(t) ==
    \A s \in Ids \ {t} :
        /\ hpc'[s] = hpc[s] /\ holds'[s] = holds[s] /\ prod'[s] = prod[s]
        /\ main'[s] = main[s] /\ tab'[s] = tab[s] /\ idx'[s] = idx[s]

LEMMA TablesAre ==
    ASSUME HashTypes, TablesInv
    PROVE  /\ Len(tables) \in Nat \ {0}
           /\ \A k \in 1 .. Len(tables) : GoodTable(tables[k]) /\ IsTable(tables[k])
<1>1. Len(tables) \in Nat
  BY DEF HashTypes
<1> QED
  BY <1>1 DEF HashTypes, TablesInv, GoodTable

\* Without a store into a table nothing moves.
LEMMA TablesSame ==
    ASSUME HashTypes, TablesInv, NEW t \in Ids, tables' = tables
    PROVE  Moves(t)
BY TablesAre DEF Moves, Later

\* The others' keys are where they were.
LEMMA OthersKeys ==
    ASSUME HashTypes, TablesInv, NEW t \in Ids, Moves(t), NEW s \in Ids \ {t}
    PROVE  /\ \A k \in 1 .. Len(tables) : Has(tables'[k], s) <=> Has(tables[k], s)
           /\ Nowhere(s)' <=> Nowhere(s)
<1>1. \A k \in 1 .. Len(tables) : Has(tables'[k], s) <=> Has(tables[k], s)
  BY DEF Moves, Later, Has
<1>2. \A k \in 1 .. Len(tables') : k \in 1 .. Len(tables) \/ ~Has(tables'[k], s)
  BY TablesAre DEF Moves
<1>3. 1 .. Len(tables) \subseteq 1 .. Len(tables')
  BY TablesAre DEF Moves
<1> QED
  BY <1>1, <1>2, <1>3 DEF Nowhere

\* The others' searches go on where they are.
LEMMA OthersSearch ==
    ASSUME HashTypes, TablesInv, NEW t \in Ids, Moves(t), OthersStay(t),
           NEW s \in Ids \ {t}, SearchInv(s), ProdInv(s)
    PROVE  SearchInv(s)' /\ ProdInv(s)'
<1>1. /\ hpc'[s] = hpc[s] /\ holds'[s] = holds[s] /\ prod'[s] = prod[s]
      /\ main'[s] = main[s] /\ tab'[s] = tab[s] /\ idx'[s] = idx[s]
  BY DEF OthersStay
<1>2. /\ Len(tables) \in Nat \ {0} /\ Len(tables') \in Nat /\ Len(tables) <= Len(tables')
      /\ \A k \in 1 .. Len(tables) : IsTable(tables[k]) /\ Later(tables[k], tables'[k], t)
      /\ \A k \in Len(tables) + 1 .. Len(tables') : ~Has(tables'[k], s)
  BY TablesAre DEF Moves
<1>3. /\ \A k \in 1 .. Len(tables) : Has(tables'[k], s) <=> Has(tables[k], s)
      /\ Nowhere(s)' <=> Nowhere(s)
  BY OthersKeys
<1>4. \A k \in 1 .. Len(tables) : Capacity(k)' = Capacity(k)
  BY <1>2 DEF Capacity, Later
<1>5. ASSUME NEW k \in 1 .. Len(tables), k = main[s] \/ k = tab[s]
      PROVE  Slot(s, k)' = Slot(s, k)
  BY <1>1, <1>4 DEF Slot
<1>6. ASSUME NEW k \in 1 .. Len(tables), NEW i, NEW keys \in {{Empty}, {s, Empty}},
             Reaches(s, tables[k], i, keys)
      PROVE  Reaches(s, tables'[k], i, keys)
  <2>1. /\ IsTable(tables[k]) /\ Later(tables[k], tables'[k], t) /\ s \in Ids
        /\ keys = {Empty} \/ (keys = {s, Empty} /\ s # t)
    BY <1>2
  <2> QED
    BY <1>6, <2>1, LaterReaches, Zenon
<1>7. ProdInv(s)'
  BY <1>1, <1>3 DEF ProdInv
<1>8. CASE hpc[s] \in {"probe", "exit"}
  <2>1. /\ tab[s] \in 1 .. Len(tables)
        /\ Reaches(s, tables[tab[s]], Slot(s, tab[s]), {s, Empty})
        /\ \A k \in tab[s] + 1 .. Len(tables) : ~Has(tables[k], s)
    BY <1>8 DEF SearchInv
  <2>2. Reaches(s, tables'[tab[s]], Slot(s, tab[s])', {s, Empty})
    <3>1. PICK k \in 1 .. Len(tables) : k = tab[s]
      BY <2>1
    <3>2. Slot(s, tab[s])' = Slot(s, k) /\ Slot(s, tab[s]) = Slot(s, k)
      BY <1>1, <1>5, <3>1
    <3>3. Reaches(s, tables'[k], Slot(s, k), {s, Empty})
      BY <1>6, <2>1, <3>1
    <3> QED
      BY <3>1, <3>2, <3>3
  <2>3. \A k \in tab[s] + 1 .. Len(tables') : ~Has(tables'[k], s)
    BY <1>2, <1>3, <2>1
  <2>4. tab'[s] \in 1 .. Len(tables')
    BY <1>1, <1>2, <2>1
  <2>5. hpc'[s] = "probe" => tab'[s] <= main'[s] /\ main'[s] \in 1 .. Len(tables')
    BY <1>1, <1>2, <1>8 DEF SearchInv
  <2> QED
    BY <1>1, <1>7, <1>8, <2>2, <2>3, <2>4, <2>5 DEF SearchInv, Inserting
<1>9. CASE hpc[s] \notin {"probe", "exit"}
  <2>1. hpc[s] \in {"copy", "insert"} =>
          /\ main[s] \in 1 .. Len(tables)
          /\ ~Has(tables[main[s]], s)
          /\ Reaches(s, tables[main[s]], Slot(s, main[s]), {Empty})
    BY DEF SearchInv, Inserting
  <2>2. hpc[s] \in {"copy", "insert"} =>
          /\ ~Has(tables'[main[s]], s)
          /\ Reaches(s, tables'[main[s]], Slot(s, main[s])', {Empty})
    <3> SUFFICES ASSUME hpc[s] \in {"copy", "insert"}
                 PROVE  /\ ~Has(tables'[main[s]], s)
                        /\ Reaches(s, tables'[main[s]], Slot(s, main[s])', {Empty})
      OBVIOUS
    <3>1. PICK k \in 1 .. Len(tables) : k = main[s]
      BY <2>1
    <3>2. Slot(s, main[s])' = Slot(s, k) /\ Slot(s, main[s]) = Slot(s, k)
      BY <1>1, <1>5, <3>1
    <3>3. Reaches(s, tables'[k], Slot(s, k), {Empty})
      BY <1>6, <2>1, <3>1
    <3> QED
      BY <1>3, <2>1, <3>1, <3>2, <3>3
  <2>3. hpc[s] \in {"probe", "copy"} \cup Inserting => main'[s] \in 1 .. Len(tables')
    BY <1>1, <1>2 DEF SearchInv
  <2>4. hpc[s] \in Inserting \cup {"retire"} => Nowhere(s)'
    BY <1>3 DEF SearchInv
  <2>5. hpc[s] \in Inserting \ {"insert"} => idx[s] = Hash[s]
    BY DEF SearchInv
  <2> QED
    BY <1>1, <1>7, <1>9, <2>2, <2>3, <2>4, <2>5 DEF SearchInv
<1> QED
  BY <1>8, <1>9

\* The invariant after a step of t.
LEMMA HashAfter ==
    ASSUME HashInv, NEW t \in Ids, Moves(t), OthersStay(t),
           HashTypes', TablesInv', Values', Owners', SearchInv(t)', ProdInv(t)'
    PROVE  HashInv'
BY OthersSearch DEF HashInv

\* The tables and what the others hold are the same, and so is what t holds,
\* unless its key is nowhere.
LEMMA ValuesSame ==
    ASSUME HashInv, NEW t \in Ids, tables' = tables, OthersStay(t),
           holds'[t] = holds[t] \/ Nowhere(t)
    PROVE  TablesInv' /\ Values'
<1>1. TablesInv'
  BY DEF HashInv, TablesInv
<1>2. ASSUME NEW k \in 1 .. Len(tables), NEW i \in DOMAIN tables[k], tables[k][i].key \in Ids
      PROVE  /\ tables[k][i].value = holds'[tables[k][i].key]
             /\ tables[k][i].value # None
  <2>1. tables[k][i].value = holds[tables[k][i].key] /\ tables[k][i].value # None
    BY <1>2 DEF HashInv, Values
  <2>2. tables[k][i].key = t => ~Nowhere(t)
    BY DEF Nowhere, Has
  <2> QED
    BY <1>2, <2>1, <2>2 DEF OthersStay
<1> QED
  BY <1>1, <1>2 DEF Values

\* Nobody holds anything that is new.
LEMMA OwnersSame ==
    ASSUME HashInv, NEW t \in Ids, OthersStay(t), UNCHANGED prodVars,
           {holds'[t], prod'[t]} \subseteq {holds[t], prod[t], None}
    PROVE  Owners'
<1>1. \A s \in Ids : {holds'[s], prod'[s]} \subseteq {holds[s], prod[s], None}
  BY DEF OthersStay
<1>2. \A s \in Ids : Using(s)' \subseteq Using(s)
  BY <1>1 DEF Using
<1>3. OneThreadPerProducer'
  BY <1>2 DEF HashInv, Owners, OneThreadPerProducer, prodVars
<1>4. \A s \in Ids : {holds'[s], prod'[s]} \subseteq 0 .. producerList'
  <2>1. producerList' = producerList /\ producerList \in Nat
    BY DEF HashInv, HashTypes, prodVars
  <2>2. \A s \in Ids : {holds[s], prod[s], None} \subseteq 0 .. producerList
    BY <2>1 DEF HashInv, Owners, None
  <2> QED
    BY <1>1, <2>1, <2>2
<1> QED
  BY <1>3, <1>4 DEF Owners

-----------------------------------------------------------------------------
(* The hash: the steps that do not store into a table.                      *)

LEMMA HashQuietStep ==
    ASSUME HashInv, NEW t \in Ids, tables' = tables, OthersStay(t), HashTypes',
           UNCHANGED prodVars, holds'[t] = holds[t], prod'[t] \in {holds[t], prod[t], None},
           SearchInv(t)', ProdInv(t)'
    PROVE  HashInv'
BY TablesSame, ValuesSame, OwnersSame, HashAfter DEF HashInv

\* The slot a thread looks at is in the table.
LEMMA SlotIn ==
    ASSUME HashInv, NEW t \in Ids, NEW k \in 1 .. Len(tables)
    PROVE  /\ Slot(t, k) \in DOMAIN tables[k]
           /\ tables[k][Slot(t, k)] \in Entries
<1>1. IsTable(tables[k])
  BY TablesAre DEF HashInv
<1> QED
  BY <1>1, TableSize DEF Slot, Capacity, Size, HashInv, HashTypes

\* A search that starts, and one that goes on.
LEMMA SearchStarts ==
    ASSUME HashInv, NEW t \in Ids, NEW k \in 1 .. Len(tables), NEW keys
    PROVE  Reaches(t, tables[k], Hash[t] % Capacity(k), keys)
<1>1. IsTable(tables[k])
  BY TablesAre DEF HashInv
<1> QED
  BY <1>1, StartReaches DEF Capacity, Size

LEMMA SearchAdvances ==
    ASSUME HashInv, NEW t \in Ids, NEW k \in 1 .. Len(tables), NEW keys,
           Reaches(t, tables[k], Slot(t, k), keys), KeyAt(t, k) \notin keys
    PROVE  /\ Reaches(t, tables[k], (Slot(t, k) + 1) % Capacity(k), keys)
           /\ Slot(t, k) + 1 \in Nat
<1>1. IsTable(tables[k])
  BY TablesAre DEF HashInv
<1>2. Slot(t, k) \in Nat
  <2>1. Slot(t, k) \in DOMAIN tables[k]
    BY SlotIn
  <2>2. DOMAIN tables[k] = 0 .. Size(tables[k]) - 1 /\ Size(tables[k]) \in Nat
    BY <1>1, TableSize
  <2> QED
    BY ONLY <2>1, <2>2
<1> QED
  BY <1>1, <1>2, StepReaches DEF Capacity, Size, KeyAt

LEMMA LookupStep ==
    ASSUME HashInv, NEW t \in Ids, Lookup(t)
    PROVE  HashInv'
<1> USE DEF Lookup, Move, With
<1>1. Len(tables) \in 1 .. Len(tables)
  BY TablesAre DEF HashInv
<1>2. OthersStay(t) /\ HashTypes'
  <2>1. Len(tables) \in Nat /\ Hash[t] \in Nat /\ "probe" \in HashPcs
    BY <1>1, HashAssumption, TablesAre DEF HashPcs, HashInv
  <2>2. OthersStay(t)
    BY DEF HashInv, HashTypes, OthersStay
  <2> QED
    BY <2>1, <2>2 DEF HashInv, HashTypes, tableVars, prodVars
<1>3. /\ hpc[t] = "idle" /\ hpc'[t] = "probe" /\ idx'[t] = Hash[t]
      /\ tab'[t] = Len(tables) /\ main'[t] = Len(tables)
      /\ UNCHANGED <<tables, holds, prod>>
  BY DEF HashInv, HashTypes, tableVars
<1>4. Reaches(t, tables[Len(tables)], Hash[t] % Capacity(Len(tables)), {t, Empty})
  BY <1>1, SearchStarts
<1>5. SearchInv(t)'
  <2>1. Slot(t, tab[t])' = Hash[t] % Capacity(Len(tables))
    BY <1>3 DEF Slot, Capacity
  <2>2. \A k \in Len(tables) + 1 .. Len(tables) : FALSE
    BY <1>1
  <2> QED
    BY <1>1, <1>3, <1>4, <2>1, <2>2 DEF SearchInv, Inserting
<1>6. ProdInv(t)'
  BY <1>3 DEF HashInv, ProdInv, Inserting, Nowhere
<1> QED
  BY <1>2, <1>3, <1>5, <1>6, HashQuietStep

LEMMA FoundStep ==
    ASSUME HashInv, NEW t \in Ids, Probe_Found(t)
    PROVE  HashInv'
<1> USE DEF Probe_Found, Finish, Move, With
<1>1. /\ hpc[t] = "probe" /\ tab[t] \in 1 .. Len(tables) /\ main[t] \in 1 .. Len(tables)
      /\ tab[t] <= main[t]
      /\ \A k \in tab[t] + 1 .. Len(tables) : ~Has(tables[k], t)
      /\ SearchInv(t) /\ ProdInv(t)
  BY DEF HashInv, SearchInv
<1>2. tables[tab[t]][Slot(t, tab[t])].value = holds[t] /\ holds[t] # None
  BY <1>1, SlotIn DEF HashInv, Values, KeyAt
<1>3. UNCHANGED <<tables, prodVars>>
  BY DEF tableVars
<1>4. CASE tab[t] = main[t]
  <2>1. /\ hpc' = [hpc EXCEPT ![t] = "idle"] /\ holds' = [holds EXCEPT ![t] = holds[t]]
        /\ main' = [main EXCEPT ![t] = 0] /\ tab' = [tab EXCEPT ![t] = 0]
        /\ idx' = [idx EXCEPT ![t] = 0] /\ newCount' = [newCount EXCEPT ![t] = 0]
        /\ prod' = [prod EXCEPT ![t] = None]
    BY <1>2, <1>4
  <2>2. OthersStay(t) /\ HashTypes'
    BY <1>3, <2>1 DEF HashInv, HashTypes, HashPcs, OthersStay, tableVars, prodVars, None
  <2>3. hpc'[t] = "idle" /\ holds'[t] = holds[t] /\ prod'[t] = None
    BY <2>1 DEF HashInv, HashTypes
  <2>4. SearchInv(t)' /\ ProdInv(t)'
    BY <1>1, <1>3, <2>3 DEF SearchInv, ProdInv, Inserting, Nowhere
  <2> QED
    BY <1>3, <2>2, <2>3, <2>4, HashQuietStep
<1>5. CASE tab[t] # main[t]
  <2>1. /\ hpc' = [hpc EXCEPT ![t] = "copy"] /\ prod' = [prod EXCEPT ![t] = holds[t]]
        /\ idx' = [idx EXCEPT ![t] = Hash[t]]
        /\ UNCHANGED <<holds, main, tab, newCount>>
    BY <1>2, <1>5
  <2>2. OthersStay(t) /\ HashTypes'
    BY <1>3, <2>1, HashAssumption
       DEF HashInv, HashTypes, HashPcs, OthersStay, tableVars, prodVars, None
  <2>3. hpc'[t] = "copy" /\ prod'[t] = holds[t] /\ idx'[t] = Hash[t] /\ main'[t] = main[t]
    BY <2>1 DEF HashInv, HashTypes
  <2>4. main[t] \in tab[t] + 1 .. Len(tables)
    BY <1>1, <1>5, TablesAre DEF HashInv
  <2>5. Reaches(t, tables[main[t]], Hash[t] % Capacity(main[t]), {Empty})
    BY <1>1, SearchStarts
  <2>6. Slot(t, main[t])' = Hash[t] % Capacity(main[t])
    BY <1>3, <2>3 DEF Slot, Capacity
  <2>7. SearchInv(t)'
    BY <1>1, <1>3, <2>3, <2>4, <2>5, <2>6 DEF SearchInv, Inserting
  <2>8. ProdInv(t)'
    BY <1>1, <1>2, <1>3, <2>1, <2>3 DEF ProdInv, Inserting, Nowhere
  <2> QED
    BY <1>3, <2>1, <2>2, <2>3, <2>7, <2>8, HashQuietStep
<1> QED
  BY <1>4, <1>5

LEMMA EmptyStep ==
    ASSUME HashInv, NEW t \in Ids, Probe_Empty(t)
    PROVE  HashInv'
<1> USE DEF Probe_Empty, Move, With
<1>1. /\ hpc[t] = "probe" /\ tab[t] \in 1 .. Len(tables) /\ main[t] \in 1 .. Len(tables)
      /\ tab[t] <= main[t]
      /\ Reaches(t, tables[tab[t]], Slot(t, tab[t]), {t, Empty})
      /\ \A k \in tab[t] + 1 .. Len(tables) : ~Has(tables[k], t)
      /\ ProdInv(t)
  BY DEF HashInv, SearchInv
<1>2. ~Has(tables[tab[t]], t)
  BY <1>1, NotHere, TablesAre DEF HashInv, KeyAt
<1>3. /\ hpc' = [hpc EXCEPT ![t] = IF tab[t] = 1 THEN "count" ELSE "probe"]
      /\ tab' = [tab EXCEPT ![t] = tab[t] - 1] /\ idx' = [idx EXCEPT ![t] = Hash[t]]
      /\ UNCHANGED <<tables, prodVars, holds, main, newCount, prod>>
  BY DEF tableVars
<1>4. tab[t] - 1 \in Nat /\ \A k \in tab[t] .. Len(tables) : ~Has(tables[k], t)
  BY <1>1, <1>2, TablesAre DEF HashInv
<1>5. OthersStay(t) /\ HashTypes'
  <2>1. /\ tab[t] - 1 \in Nat /\ Hash[t] \in Nat
        /\ (IF tab[t] = 1 THEN "count" ELSE "probe") \in HashPcs
    BY <1>4, HashAssumption DEF HashPcs, Inserting
  <2>2. OthersStay(t)
    BY <1>3 DEF HashInv, HashTypes, OthersStay
  <2> QED
    BY <1>3, <2>1, <2>2 DEF HashInv, HashTypes, tableVars, prodVars
<1>6. tab'[t] = tab[t] - 1 /\ idx'[t] = Hash[t] /\ main'[t] = main[t]
  BY <1>3 DEF HashInv, HashTypes
<1>7. CASE tab[t] = 1
  <2>1. hpc'[t] = "count"
    BY <1>3, <1>7 DEF HashInv, HashTypes
  <2>2. Nowhere(t)
    BY <1>4, <1>7 DEF Nowhere
  <2>3. SearchInv(t)' /\ ProdInv(t)'
    BY <1>1, <1>3, <1>6, <2>1, <2>2 DEF SearchInv, ProdInv, Inserting, Nowhere
  <2> QED
    BY <1>3, <1>5, <2>3, HashQuietStep
<1>8. CASE tab[t] # 1
  <2>1. hpc'[t] = "probe"
    BY <1>3, <1>8 DEF HashInv, HashTypes
  <2>2. tab'[t] \in 1 .. Len(tables) /\ tab'[t] <= main'[t]
    BY <1>1, <1>6, <1>8, TablesAre DEF HashInv
  <2>3. Reaches(t, tables[tab'[t]], Hash[t] % Capacity(tab'[t]), {t, Empty})
    BY <2>2, SearchStarts
  <2>4. Slot(t, tab[t])' = Hash[t] % Capacity(tab'[t])
    BY <1>3, <1>6 DEF Slot, Capacity
  <2>5. \A k \in tab'[t] + 1 .. Len(tables) : ~Has(tables[k], t)
    BY <1>1, <1>4, <1>6
  <2>6. SearchInv(t)'
    BY <1>1, <1>3, <1>6, <2>1, <2>2, <2>3, <2>4, <2>5 DEF SearchInv, Inserting
  <2>7. ProdInv(t)'
    BY <1>1, <1>3, <2>1 DEF ProdInv, Inserting, Nowhere
  <2> QED
    BY <1>3, <1>5, <2>6, <2>7, HashQuietStep
<1> QED
  BY <1>7, <1>8

\* A step to the next slot.
LEMMA AdvanceStep ==
    ASSUME HashInv, NEW t \in Ids, NEW k \in 1 .. Len(tables), Advance(t, k),
           UNCHANGED <<tables, implicitProducerHashCount, prodVars, holds, hpc, main, tab,
                       newCount, prod>>,
           \/ hpc[t] \in {"probe", "exit"} /\ k = tab[t] /\ KeyAt(t, k) \notin {t, Empty}
           \/ hpc[t] \in {"copy", "insert"} /\ k = main[t] /\ KeyAt(t, k) # Empty
    PROVE  HashInv'
<1> USE DEF Advance, With
<1>1. idx' = [idx EXCEPT ![t] = Slot(t, k) + 1]
  OBVIOUS
<1>2. ASSUME NEW keys, Reaches(t, tables[k], Slot(t, k), keys), KeyAt(t, k) \notin keys
      PROVE  Reaches(t, tables[k], (Slot(t, k) + 1) % Capacity(k), keys)
  BY <1>2, SearchAdvances
<1>3. Slot(t, k) + 1 \in Nat
  <2>1. IsTable(tables[k]) /\ Slot(t, k) \in DOMAIN tables[k]
    BY SlotIn, TablesAre DEF HashInv
  <2>2. DOMAIN tables[k] = 0 .. Size(tables[k]) - 1 /\ Size(tables[k]) \in Nat
    BY <2>1, TableSize
  <2> QED
    BY ONLY <2>1, <2>2
<1>4. OthersStay(t) /\ HashTypes'
  BY <1>1, <1>3 DEF HashInv, HashTypes, OthersStay, prodVars
<1>5. idx'[t] = Slot(t, k) + 1
  BY <1>1 DEF HashInv, HashTypes
<1>6. k = tab[t] => Slot(t, tab[t])' = (Slot(t, k) + 1) % Capacity(k)
  BY <1>5 DEF Slot, Capacity
<1>7. k = main[t] => Slot(t, main[t])' = (Slot(t, k) + 1) % Capacity(k)
  BY <1>5 DEF Slot, Capacity
<1>8. SearchInv(t) /\ ProdInv(t)
  BY DEF HashInv
<1>9. SearchInv(t)'
  <2>1. CASE hpc[t] \in {"probe", "exit"}
    <3>1. Reaches(t, tables[k], (Slot(t, k) + 1) % Capacity(k), {t, Empty})
      BY <1>2, <1>8, <2>1 DEF SearchInv
    <3> QED
      BY <1>6, <1>8, <2>1, <3>1 DEF SearchInv, Inserting
  <2>2. CASE hpc[t] \in {"copy", "insert"}
    <3>1. Reaches(t, tables[k], (Slot(t, k) + 1) % Capacity(k), {Empty})
      BY <1>2, <1>8, <2>2 DEF SearchInv
    <3> QED
      BY <1>7, <1>8, <2>2, <3>1 DEF SearchInv, Inserting, Nowhere
  <2> QED
    BY <2>1, <2>2
<1>10. ProdInv(t)'
  BY <1>8 DEF ProdInv, Nowhere
<1> QED
  BY <1>4, <1>9, <1>10, HashQuietStep

LEMMA OtherStep ==
    ASSUME HashInv, NEW t \in Ids, Probe_Other(t)
    PROVE  HashInv'
<1>1. hpc[t] = "probe" /\ tab[t] \in 1 .. Len(tables)
  BY DEF HashInv, SearchInv, Probe_Other
<1> QED
  BY <1>1, AdvanceStep DEF Probe_Other, tableVars

\* The steps of an insertion that find nothing to do with the producers.
LEMMA CountingStep ==
    ASSUME HashInv, NEW t \in Ids,
           Count(t) \/ Resize_Lock(t) \/ Resize_Skip(t) \/ Room(t) \/ Subscribe(t)
    PROVE  HashInv'
<1> USE DEF Count, Resize_Lock, Resize_Skip, Room, Subscribe, Move, With
<1>1. /\ hpc[t] \in {"count", "full", "room", "subscribe"}
      /\ UNCHANGED <<tables, prodVars, holds, prod, idx>>
      /\ hpc'[t] = "insert" <=> hpc[t] = "subscribe"
      /\ hpc'[t] \in {"full", "resize", "room", "recycle", "insert"}
  BY DEF tableVars, hashLocals, HashInv, HashTypes
<1>2. OthersStay(t)
  BY DEF HashInv, HashTypes, OthersStay, hashLocals
<1>3. Len(tables) \in 1 .. Len(tables)
  BY TablesAre DEF HashInv
<1>4. main'[t] \in {main[t], Len(tables)}
  BY DEF HashInv, HashTypes, hashLocals
<1>5. HashTypes'
  <2>1. {"full", "resize", "room", "recycle", "insert"} \subseteq HashPcs
    BY DEF HashPcs, Inserting
  <2>2. Len(tables) \in Nat /\ producerList \in Nat
    BY <1>3, TablesAre DEF HashInv, HashTypes
  <2>3. hpc' \in [Ids -> HashPcs]
    BY <2>1 DEF HashInv, HashTypes
  <2>4. main' \in [Ids -> Nat] /\ tab' \in [Ids -> Nat]
    BY <2>2 DEF HashInv, HashTypes, hashLocals
  <2>5. implicitProducerHashCount' \in Int /\ newCount' \in [Ids -> Int]
    BY DEF HashInv, HashTypes, hashLocals, tableVars
  <2> QED
    BY <1>1, <2>3, <2>4, <2>5 DEF HashInv, HashTypes, prodVars
<1>6. SearchInv(t) /\ ProdInv(t)
  BY DEF HashInv
<1>7. Nowhere(t) /\ main'[t] \in 1 .. Len(tables) /\ idx'[t] = Hash[t]
  BY <1>1, <1>3, <1>4, <1>6 DEF SearchInv, Inserting
<1>8. ProdInv(t)'
  BY <1>1, <1>6, <1>7 DEF ProdInv, Inserting, Nowhere
<1>9. hpc'[t] = "insert" => Reaches(t, tables[main'[t]], Slot(t, main[t])', {Empty})
  <2>1. Reaches(t, tables[main'[t]], Hash[t] % Capacity(main'[t]), {Empty})
    BY <1>7, SearchStarts
  <2>2. Slot(t, main[t])' = Hash[t] % Capacity(main'[t])
    BY <1>1, <1>7 DEF Slot, Capacity
  <2> QED
    BY <2>1, <2>2
<1>10. SearchInv(t)'
  BY <1>1, <1>7, <1>9 DEF SearchInv, Inserting, Nowhere
<1> QED
  BY <1>1, <1>2, <1>5, <1>8, <1>10, HashQuietStep

LEMMA ExitStep ==
    ASSUME HashInv, NEW t \in Ids, Exit(t)
    PROVE  HashInv'
<1> USE DEF Exit, Move, With
<1>1. Len(tables) \in 1 .. Len(tables) /\ Len(tables) \in Nat /\ Hash[t] \in Nat
  BY HashAssumption, TablesAre DEF HashInv
<1>2. /\ hpc' = [hpc EXCEPT ![t] = "exit"] /\ hpc[t] = "idle" /\ holds[t] # None
      /\ tab' = [tab EXCEPT ![t] = Len(tables)] /\ idx' = [idx EXCEPT ![t] = Hash[t]]
      /\ UNCHANGED <<tables, implicitProducerHashCount, prodVars, holds, main, newCount, prod>>
  BY DEF tableVars
<1>3. OthersStay(t)
  BY <1>2 DEF HashInv, HashTypes, OthersStay
<1>4. HashTypes'
  BY <1>1, <1>2 DEF HashInv, HashTypes, HashPcs, prodVars
<1>5. hpc'[t] = "exit" /\ tab'[t] = Len(tables) /\ idx'[t] = Hash[t]
  BY <1>2 DEF HashInv, HashTypes
<1>6. SearchInv(t)'
  <2>1. Slot(t, tab[t])' = Hash[t] % Capacity(Len(tables))
    BY <1>2, <1>5 DEF Slot, Capacity
  <2>2. Reaches(t, tables[Len(tables)], Hash[t] % Capacity(Len(tables)), {t, Empty})
    BY <1>1, SearchStarts
  <2>3. \A k \in Len(tables) + 1 .. Len(tables) : FALSE
    BY <1>1
  <2> QED
    BY <1>1, <1>2, <1>5, <2>1, <2>2, <2>3 DEF SearchInv, Inserting
<1>7. ProdInv(t)'
  BY <1>2, <1>5 DEF HashInv, ProdInv, Inserting
<1> QED
  BY <1>2, <1>3, <1>4, <1>6, <1>7, HashQuietStep

-----------------------------------------------------------------------------
(* The hash: the stores into a table.                                       *)

SameBut(f, g, i) == \A j \in DOMAIN g : j # i => g[j] = f[j]
TableSet == UNION {[0 .. c - 1 -> Entries] : c \in Nat \ {0}}

\* t has put g in the place of the table k, which differs in one slot.
LEMMA Stored ==
    ASSUME HashInv, NEW t \in Ids, NEW k \in 1 .. Len(tables), NEW i, NEW g,
           GoodTable(g), Later(tables[k], g, t),
           SameBut(tables[k], g, i),
           \/ g[i].key \notin Ids
           \/ g[i].key = t /\ g[i].value = holds'[t] /\ g[i].value # None,
           tables' = [tables EXCEPT ![k] = g],
           OthersStay(t), holds'[t] = holds[t] \/ Nowhere(t)
    PROVE  /\ Moves(t) /\ TablesInv' /\ Values'
           /\ tables' \in Seq(TableSet) /\ Len(tables') = Len(tables) /\ tables'[k] = g
<1>1. /\ Len(tables) \in Nat \ {0}
      /\ \A n \in 1 .. Len(tables) : GoodTable(tables[n]) /\ IsTable(tables[n])
  BY TablesAre DEF HashInv
<1>2. tables \in Seq(TableSet) /\ g \in TableSet
  BY DEF HashInv, HashTypes, TableSet, GoodTable, IsTable
<1>3. /\ tables' \in Seq(TableSet) /\ Len(tables') = Len(tables) /\ tables'[k] = g
      /\ \A n \in 1 .. Len(tables) : n # k => tables'[n] = tables[n]
  BY <1>2
<1>4. Moves(t)
  BY <1>1, <1>3 DEF Moves, Later
<1>5. TablesInv'
  BY <1>1, <1>3 DEF TablesInv
<1>6. ASSUME NEW n \in 1 .. Len(tables), NEW j \in DOMAIN tables[n],
             tables[n][j].key \in Ids, tables[n][j].key = t => holds'[t] = holds[t]
      PROVE  /\ tables[n][j].value = holds'[tables[n][j].key]
             /\ tables[n][j].value # None
  <2>1. tables[n][j].value = holds[tables[n][j].key] /\ tables[n][j].value # None
    BY <1>6 DEF HashInv, Values
  <2> QED
    BY <1>6, <2>1 DEF OthersStay
<1>7. ASSUME NEW n \in 1 .. Len(tables), NEW j \in DOMAIN tables[n], tables[n][j].key = t
      PROVE  holds'[t] = holds[t]
  BY <1>7 DEF Nowhere, Has
<1>8. ASSUME NEW n \in 1 .. Len(tables), NEW j \in DOMAIN tables'[n],
             tables'[n][j].key \in Ids
      PROVE  /\ tables'[n][j].value = holds'[tables'[n][j].key]
             /\ tables'[n][j].value # None
  <2>1. CASE n = k /\ j = i
    BY <1>3, <1>8, <2>1
  <2>2. CASE n = k /\ j # i
    <3>1. j \in DOMAIN tables[n] /\ tables'[n][j] = tables[n][j]
      BY <1>3, <2>2 DEF Later, SameBut
    <3> QED
      BY <1>6, <1>7, <1>8, <3>1
  <2>3. CASE n # k
    <3>1. tables'[n] = tables[n]
      BY <1>3, <2>3
    <3> QED
      BY <1>6, <1>7, <1>8, <3>1
  <2> QED
    BY <2>1, <2>2, <2>3
<1>9. Values'
  BY <1>3, <1>8 DEF Values
<1> QED
  BY <1>3, <1>4, <1>5, <1>9

LEMMA ExitProbeStep ==
    ASSUME HashInv, NEW t \in Ids, Exit_Probe(t)
    PROVE  HashInv'
<1> USE DEF Exit_Probe, Move, With
<1> DEFINE k == tab[t]
           i == Slot(t, k)
<1>1. /\ hpc[t] = "exit" /\ tab[t] \in 1 .. Len(tables)
      /\ Reaches(t, tables[k], i, {t, Empty})
      /\ \A n \in k + 1 .. Len(tables) : ~Has(tables[n], t)
      /\ ProdInv(t) /\ SearchInv(t)
  BY DEF HashInv, SearchInv
<1>2. CASE KeyAt(t, k) \notin {t, Empty}
  BY <1>1, <1>2, AdvanceStep
<1>3. CASE KeyAt(t, k) \in {t, Empty}
  <2>1. /\ hpc' = [hpc EXCEPT ![t] = IF tab[t] = 1 THEN "retire" ELSE "exit"]
        /\ tab' = [tab EXCEPT ![t] = tab[t] - 1] /\ idx' = [idx EXCEPT ![t] = Hash[t]]
        /\ UNCHANGED <<implicitProducerHashCount, prodVars, holds, main, newCount, prod>>
    BY <1>3
  <2>2. /\ tab[t] - 1 \in Nat /\ Hash[t] \in Nat
        /\ (IF tab[t] = 1 THEN "retire" ELSE "exit") \in HashPcs
    BY <1>1, HashAssumption, TablesAre DEF HashPcs, HashInv
  <2>3. OthersStay(t)
    BY <2>1 DEF HashInv, HashTypes, OthersStay
  <2>4. holds'[t] = holds[t]
    BY <2>1
  <2>5. /\ Moves(t) /\ TablesInv' /\ Values'
        /\ tables' \in Seq(TableSet) /\ Len(tables') = Len(tables)
        /\ ~Has(tables'[k], t)
        /\ \A n \in k + 1 .. Len(tables) : ~Has(tables'[n], t)
    <3>1. CASE KeyAt(t, k) = t
      <4>1. PICK g : g = [tables[k] EXCEPT ![i].key = Reusable]
        OBVIOUS
      <4>2. GoodTable(tables[k]) /\ i \in DOMAIN tables[k] /\ tables[k][i] \in Entries
        BY <1>1, SlotIn, TablesAre DEF HashInv
      <4>3. GoodTable(g) /\ Later(tables[k], g, t) /\ ~Has(g, t)
        BY <3>1, <4>1, <4>2, ReleaseTable DEF KeyAt
      <4>4. SameBut(tables[k], g, i)
        BY <4>1 DEF SameBut
      <4>5. g[i].key \notin Ids
        BY <4>1, <4>2, HashAssumption DEF Entries
      <4>6. tables' = [tables EXCEPT ![k] = g]
        BY <1>3, <3>1, <4>1 DEF KeyAt
      <4>k. PICK at \in 1 .. Len(tables) : at = k
        BY <1>1
      <4>i. PICK j : j = i
        OBVIOUS
      <4> HIDE DEF k, i
      <4>7. /\ Moves(t) /\ TablesInv' /\ Values'
            /\ tables' \in Seq(TableSet) /\ Len(tables') = Len(tables) /\ tables'[k] = g
        <5>1. /\ GoodTable(g) /\ Later(tables[at], g, t) /\ g[j].key \notin Ids
              /\ SameBut(tables[at], g, j)
              /\ tables' = [tables EXCEPT ![at] = g]
          BY <4>k, <4>i, <4>3, <4>4, <4>5, <4>6
        <5>2. /\ Moves(t) /\ TablesInv' /\ Values'
              /\ tables' \in Seq(TableSet) /\ Len(tables') = Len(tables) /\ tables'[at] = g
          BY <2>3, <2>4, <5>1, Stored
        <5> QED
          BY <4>k, <4>i, <5>2
      <4>8. k \in Nat /\ \A n \in k + 1 .. Len(tables) : tables'[n] = tables[n]
        BY <1>1, <4>6, TablesAre DEF k, HashInv, HashTypes
      <4> QED
        BY <1>1, <4>3, <4>7, <4>8
    <3>2. CASE KeyAt(t, k) = Empty
      <4>1. ~Has(tables[k], t)
        BY <1>1, <3>2, NotHere, TablesAre DEF HashInv, KeyAt
      <4>2. Empty # t
        BY HashAssumption
      <4>3. i \in DOMAIN tables[k] /\ tables[k][i] \in Entries /\ tables[k][i].key = Empty
        BY <1>1, <3>2, SlotIn DEF KeyAt
      <4>4. tables' = [tables EXCEPT ![k][i].key = Empty]
        BY <1>3, <4>2, <4>3
      <4>5. [tables[k] EXCEPT ![i].key = Empty] = tables[k]
        <5>1. [tables[k][i] EXCEPT !.key = Empty] = tables[k][i]
          BY <4>3 DEF Entries
        <5>2. [tables[k] EXCEPT ![i] = tables[k][i]] = tables[k]
          BY <1>1, TablesAre DEF HashInv, IsTable
        <5> QED
          BY <5>1, <5>2
      <4>6. tables' = tables
        BY <1>1, <4>4, <4>5 DEF HashInv, HashTypes
      <4> QED
        BY <1>1, <2>3, <2>4, <4>1, <4>6, TablesSame, ValuesSame DEF HashInv, HashTypes, TableSet
    <3> QED
      BY <1>3, <3>1, <3>2
  <2>6. HashTypes'
    BY <2>1, <2>2, <2>5 DEF HashInv, HashTypes, TableSet, prodVars
  <2>7. Owners'
    BY <2>1, <2>3, OwnersSame
  <2>8. tab'[t] = k - 1 /\ idx'[t] = Hash[t] /\ k \in Nat
    BY <1>1, <2>1, TablesAre DEF HashInv, HashTypes
  <2>9. \A n \in k .. Len(tables) : ~Has(tables'[n], t)
    BY <1>1, <2>5, <2>8
  <2>10. CASE k = 1
    <3>1. hpc'[t] = "retire"
      BY <2>1, <2>10 DEF HashInv, HashTypes
    <3>2. Nowhere(t)'
      BY <2>5, <2>9, <2>10 DEF Nowhere
    <3>3. SearchInv(t)' /\ ProdInv(t)'
      BY <1>1, <2>1, <3>1, <3>2 DEF SearchInv, ProdInv, Inserting
    <3> QED
      BY <2>3, <2>5, <2>6, <2>7, <3>3, HashAfter
  <2>11. CASE k # 1
    <3>1. hpc'[t] = "exit"
      BY <2>1, <2>11 DEF HashInv, HashTypes
    <3>2. tab'[t] \in 1 .. Len(tables')
      BY <1>1, <2>5, <2>8, <2>11, TablesAre DEF HashInv
    <3>3. IsTable(tables'[tab'[t]])
      BY <2>5, <3>2 DEF TablesInv, GoodTable
    <3>4. Slot(t, tab[t])' = Hash[t] % Size(tables'[tab'[t]])
      BY <2>8 DEF Slot, Capacity, Size
    <3>5. Reaches(t, tables'[tab'[t]], Slot(t, tab[t])', {t, Empty})
      BY <3>3, <3>4, StartReaches
    <3>6. SearchInv(t)'
      BY <1>1, <2>5, <2>8, <2>9, <3>1, <3>2, <3>5 DEF SearchInv, Inserting
    <3>7. ProdInv(t)'
      BY <1>1, <2>1, <3>1 DEF ProdInv, Inserting
    <3> QED
      BY <2>3, <2>5, <2>6, <2>7, <3>6, <3>7, HashAfter
  <2> QED
    BY <2>10, <2>11
<1> QED
  BY <1>2, <1>3

\* The end of an insertion and of a copy.
LEMMA ClaimedStep ==
    ASSUME HashInv, NEW t \in Ids, hpc[t] \in {"copy", "insert"},
           KeyAt(t, main[t]) \in {Empty, Reusable}, Claim(t, main[t]),
           Finish(t, hpc[t], prod[t]), UNCHANGED prodVars, implicitProducerHashCount' \in Int
    PROVE  HashInv'
<1> USE DEF Claim, Finish, Move, With
<1>1. /\ main[t] \in 1 .. Len(tables) /\ ~Has(tables[main[t]], t)
      /\ Reaches(t, tables[main[t]], Slot(t, main[t]), {Empty})
      /\ hpc[t] = "insert" => Nowhere(t)
      /\ hpc[t] = "copy" => prod[t] = holds[t]
      /\ prod[t] # None /\ prod[t] \in Nat
  BY DEF HashInv, HashTypes, SearchInv, ProdInv, Inserting
<1>k. PICK k \in 1 .. Len(tables) : k = main[t]
  BY <1>1
<1>i. PICK i : i = Slot(t, k)
  OBVIOUS
<1>2. k \in 1 .. Len(tables) /\ k = main[t] /\ i = Slot(t, k)
  BY <1>k, <1>i
<1>3. PICK g : g = [tables[k] EXCEPT ![i] = [key |-> t, value |-> prod[t]]]
  OBVIOUS
<1>4. GoodTable(tables[k]) /\ i \in DOMAIN tables[k]
  BY <1>2, SlotIn, TablesAre DEF HashInv
<1>5. tables' = [tables EXCEPT ![k] = g]
  BY <1>2, <1>3
<1>6. GoodTable(g) /\ Later(tables[k], g, t)
  <2>1. /\ Reaches(t, tables[k], i, {Empty}) /\ ~Has(tables[k], t)
        /\ tables[k][i].key \in {Empty, Reusable} /\ prod[t] \in Nat
    BY <1>1, <1>2 DEF KeyAt
  <2> QED
    BY ONLY <1>3, <1>4, <2>1, t \in Ids, ClaimTable
<1>7. SameBut(tables[k], g, i) /\ g[i].key = t /\ g[i].value = prod[t] /\ i \in DOMAIN g
  BY <1>3, <1>4 DEF SameBut
<1>8. /\ hpc' = [hpc EXCEPT ![t] = "idle"] /\ holds' = [holds EXCEPT ![t] = prod[t]]
      /\ main' = [main EXCEPT ![t] = 0] /\ tab' = [tab EXCEPT ![t] = 0]
      /\ idx' = [idx EXCEPT ![t] = 0] /\ newCount' = [newCount EXCEPT ![t] = 0]
      /\ prod' = [prod EXCEPT ![t] = None]
  OBVIOUS
<1>9. OthersStay(t) /\ holds'[t] = prod[t] /\ hpc'[t] = "idle" /\ prod'[t] = None
  BY <1>8 DEF OthersStay, HashInv, HashTypes
<1>10. holds'[t] = holds[t] \/ Nowhere(t)
  BY <1>1, <1>9
<1>11. /\ Moves(t) /\ TablesInv' /\ Values'
       /\ tables' \in Seq(TableSet) /\ Len(tables') = Len(tables) /\ tables'[k] = g
  <2>1. g[i].key = t /\ g[i].value = holds'[t] /\ g[i].value # None
    BY <1>1, <1>7, <1>9
  <2>2. OthersStay(t) /\ SameBut(tables[k], g, i)
    BY <1>7, <1>9
  <2>3. \/ g[i].key \notin Ids
        \/ g[i].key = t /\ g[i].value = holds'[t] /\ g[i].value # None
    BY <2>1
  <2>4. /\ HashInv /\ t \in Ids /\ k \in 1 .. Len(tables)
        /\ GoodTable(g) /\ Later(tables[k], g, t) /\ tables' = [tables EXCEPT ![k] = g]
    BY <1>5, <1>6
  <2> QED
    BY ONLY <2>2, <2>3, <2>4, <1>10, Stored
<1>12. HashTypes'
  <2>1. /\ hpc' \in [Ids -> HashPcs] /\ holds' \in [Ids -> Nat] /\ prod' \in [Ids -> Nat]
        /\ main' \in [Ids -> Nat] /\ tab' \in [Ids -> Nat] /\ idx' \in [Ids -> Nat]
        /\ newCount' \in [Ids -> Int]
    <3>1. None \in Nat /\ 0 \in Int /\ "idle" \in HashPcs
      BY DEF None, HashPcs
    <3> QED
      BY ONLY HashInv, t \in Ids, <1>1, <1>8, <3>1 DEF HashInv, HashTypes
  <2>2. Len(tables') # 0
    BY <1>11 DEF HashInv, HashTypes
  <2>3. producerList' \in Nat /\ inactive' \subseteq 1 .. producerList'
    BY DEF HashInv, HashTypes, prodVars
  <2> QED
    BY <1>11, <2>1, <2>2, <2>3 DEF HashTypes, TableSet
<1>13. Owners'
  BY <1>9, OwnersSame
<1>14. ~Nowhere(t)'
  BY <1>7, <1>11 DEF Nowhere, Has
<1>15. SearchInv(t)' /\ ProdInv(t)'
  BY <1>9, <1>14 DEF SearchInv, ProdInv, Inserting
<1> QED
  BY <1>9, <1>11, <1>12, <1>13, <1>15, HashAfter

LEMMA CopyStep ==
    ASSUME HashInv, NEW t \in Ids, Copy(t)
    PROVE  HashInv'
<1>1. hpc[t] = "copy" /\ main[t] \in 1 .. Len(tables)
  BY DEF HashInv, SearchInv, Copy
<1>2. CASE KeyAt(t, main[t]) \in {Empty, Reusable}
  BY <1>1, <1>2, ClaimedStep DEF Copy, HashInv, HashTypes
<1>3. CASE KeyAt(t, main[t]) \notin {Empty, Reusable}
  BY <1>1, <1>3, AdvanceStep DEF Copy
<1> QED
  BY <1>2, <1>3

LEMMA InsertStep ==
    ASSUME HashInv, NEW t \in Ids, Insert(t)
    PROVE  HashInv'
<1>1. hpc[t] = "insert" /\ main[t] \in 1 .. Len(tables)
  BY DEF HashInv, SearchInv, Insert, Inserting
<1>2. CASE KeyAt(t, main[t]) \in {Empty, Reusable}
  <2>1. /\ Claim(t, main[t]) /\ Finish(t, hpc[t], prod[t]) /\ UNCHANGED prodVars
        /\ implicitProducerHashCount' = implicitProducerHashCount -
              (IF KeyAt(t, main[t]) = Reusable THEN 1 ELSE 0)
    BY <1>1, <1>2 DEF Insert
  <2>2. implicitProducerHashCount' \in Int
    BY <2>1 DEF HashInv, HashTypes
  <2> QED
    BY <1>1, <1>2, <2>1, <2>2, ClaimedStep
<1>3. CASE KeyAt(t, main[t]) \notin {Empty, Reusable}
  BY <1>1, <1>3, AdvanceStep DEF Insert
<1> QED
  BY <1>2, <1>3

\* Without memory, t goes away with nothing.
LEMMA FailedStep ==
    ASSUME HashInv, NEW t \in Ids, hpc[t] \in {"resize", "recycle"},
           Finish(t, hpc[t], None), UNCHANGED <<tables, prodVars>>,
           implicitProducerHashCount' \in Int
    PROVE  HashInv'
<1> USE DEF Finish, Move, With
<1>1. Nowhere(t) /\ holds[t] = None
  BY DEF HashInv, SearchInv, ProdInv, Inserting
<1>2. /\ hpc' = [hpc EXCEPT ![t] = "idle"] /\ holds' = [holds EXCEPT ![t] = None]
      /\ main' = [main EXCEPT ![t] = 0] /\ tab' = [tab EXCEPT ![t] = 0]
      /\ idx' = [idx EXCEPT ![t] = 0] /\ newCount' = [newCount EXCEPT ![t] = 0]
      /\ prod' = [prod EXCEPT ![t] = None]
  OBVIOUS
<1>3. OthersStay(t) /\ holds'[t] = None /\ hpc'[t] = "idle" /\ prod'[t] = None
  BY <1>2 DEF OthersStay, HashInv, HashTypes
<1>4. HashTypes'
  BY <1>2 DEF HashInv, HashTypes, HashPcs, prodVars, None
<1>5. SearchInv(t)' /\ ProdInv(t)'
  BY <1>3 DEF SearchInv, ProdInv, Inserting
<1> QED
  BY <1>1, <1>3, <1>4, <1>5, HashQuietStep

\* A larger table.
LEMMA GrowStep ==
    ASSUME HashInv, NEW t \in Ids, NEW size \in Nat \ {0},
           tables' = Append(tables, NewTable(size)), Move(t, "resize", "room"),
           main' = With(main, t, Len(tables) + 1),
           UNCHANGED <<implicitProducerHashCount, prodVars, holds, tab, idx, newCount, prod>>
    PROVE  HashInv'
<1> USE DEF Move, With
<1>1. /\ Len(tables) \in Nat \ {0}
      /\ \A k \in 1 .. Len(tables) : GoodTable(tables[k]) /\ IsTable(tables[k])
      /\ tables \in Seq(TableSet)
  BY TablesAre DEF HashInv, HashTypes, TableSet
<1>2. /\ GoodTable(NewTable(size)) /\ \A s \in Ids : ~Has(NewTable(size), s)
      /\ NewTable(size) \in TableSet
  BY FreshTable DEF TableSet, GoodTable, IsTable
<1>3. /\ tables' \in Seq(TableSet) /\ Len(tables') = Len(tables) + 1
      /\ tables'[Len(tables) + 1] = NewTable(size)
      /\ \A k \in 1 .. Len(tables) : tables'[k] = tables[k]
  BY <1>1, <1>2
<1>4. OthersStay(t)
  BY DEF OthersStay, HashInv, HashTypes
<1>5. Moves(t)
  BY <1>1, <1>2, <1>3 DEF Moves, Later
<1>6. TablesInv'
  BY <1>1, <1>2, <1>3 DEF TablesInv
<1>7. Values'
  <2> SUFFICES ASSUME NEW k \in 1 .. Len(tables'), NEW i \in DOMAIN tables'[k],
                      tables'[k][i].key \in Ids
               PROVE  /\ tables'[k][i].value = holds'[tables'[k][i].key]
                      /\ tables'[k][i].value # None
    BY DEF Values
  <2>1. CASE k \in 1 .. Len(tables)
    BY <1>3, <2>1 DEF HashInv, Values
  <2>2. CASE k = Len(tables) + 1
    BY <1>2, <1>3, <2>2 DEF Has
  <2> QED
    BY <1>1, <1>3, <2>1, <2>2
<1>8. HashTypes'
  <2>1. tables' \in Seq(UNION {[0 .. c - 1 -> Entries] : c \in Nat \ {0}})
    BY <1>3 DEF TableSet
  <2>2. Len(tables') # 0
    BY <1>1, <1>3
  <2>3. HashTypes
    BY DEF HashInv
  <2>4. hpc' = [hpc EXCEPT ![t] = "room"] /\ main' = [main EXCEPT ![t] = Len(tables) + 1]
    OBVIOUS
  <2>5. hpc' \in [Ids -> HashPcs]
    BY ONLY <2>3, <2>4 DEF HashTypes, HashPcs, Inserting
  <2>6. main' \in [Ids -> Nat]
    BY ONLY <2>3, <2>4, <1>1 DEF HashTypes
  <2>7. /\ (holds \in [Ids -> Nat] /\ prod \in [Ids -> Nat])'
        /\ (tab \in [Ids -> Nat] /\ idx \in [Ids -> Nat])'
        /\ (implicitProducerHashCount \in Int /\ newCount \in [Ids -> Int])'
        /\ (producerList \in Nat /\ inactive \subseteq 1 .. producerList)'
    BY ONLY <2>3, UNCHANGED <<implicitProducerHashCount, prodVars, holds, tab, idx, newCount, prod>>
       DEF HashTypes, prodVars
  <2> QED
    BY ONLY <2>1, <2>2, <2>5, <2>6, <2>7 DEF HashTypes
<1>9. Owners'
  BY <1>4, OwnersSame
<1>10. Nowhere(t) /\ idx[t] = Hash[t] /\ hpc[t] = "resize"
  BY DEF HashInv, SearchInv, Inserting
<1>11. Nowhere(t)'
  BY <1>1, <1>2, <1>3, <1>10 DEF Nowhere
<1>12. hpc'[t] = "room" /\ main'[t] \in 1 .. Len(tables')
  BY <1>1, <1>3 DEF HashInv, HashTypes
<1>13. SearchInv(t)'
  BY <1>10, <1>11, <1>12 DEF SearchInv, Inserting
<1>14. ProdInv(t)'
  BY <1>10, <1>12 DEF HashInv, ProdInv, Inserting
<1> QED
  BY <1>4, <1>5, <1>6, <1>7, <1>8, <1>9, <1>13, <1>14, HashAfter

LEMMA ResizeStep ==
    ASSUME HashInv, NEW t \in Ids, Resize(t)
    PROVE  HashInv'
<1>1. hpc[t] = "resize" /\ main[t] \in 1 .. Len(tables) /\ SearchInv(t) /\ ProdInv(t)
  BY DEF HashInv, SearchInv, Resize, Move, Finish, Inserting
<1>2. CASE /\ Move(t, "resize", "room")
           /\ HalfFull(newCount[t], main[t])
           /\ tables' = Append(tables, NewTable(Grown(newCount[t], Capacity(main[t]))))
           /\ main' = With(main, t, Len(tables) + 1)
           /\ UNCHANGED <<implicitProducerHashCount, prodVars, holds, tab, idx, newCount, prod>>
  <2>1. Capacity(main[t]) \in Nat \ {0}
    BY <1>1, TablesAre, TableSize DEF HashInv, Capacity, Size
  <2>2. newCount[t] \in Nat
    <3>1. Capacity(main[t]) \div 2 \in Nat
      BY <2>1, Division
    <3>2. newCount[t] \in Int /\ newCount[t] >= Capacity(main[t]) \div 2
      BY <1>2 DEF HalfFull, HashInv, HashTypes
    <3> QED
      BY <3>1, <3>2
  <2>3. Grown(newCount[t], Capacity(main[t])) \in Nat \ {0}
    BY <2>1, <2>2, GrownPositive
  <2> QED
    BY <1>2, <2>3, GrowStep
<1>3. CASE Move(t, "resize", "room") /\ UNCHANGED <<tables, implicitProducerHashCount, prodVars,
                                                   holds, hashLocals>>
  <2> USE <1>3 DEF Move, hashLocals
  <2>1. OthersStay(t)
    BY DEF OthersStay, HashInv, HashTypes
  <2>2. HashTypes'
    BY DEF HashInv, HashTypes, HashPcs, Inserting, prodVars
  <2>3. hpc'[t] = "room"
    BY DEF HashInv, HashTypes
  <2>4. SearchInv(t)' /\ ProdInv(t)'
    BY <1>1, <2>3 DEF SearchInv, ProdInv, Inserting, Nowhere
  <2> QED
    BY <2>1, <2>2, <2>4, HashQuietStep
<1>4. CASE /\ Finish(t, "resize", None) /\ UNCHANGED <<tables, prodVars>>
           /\ implicitProducerHashCount' = implicitProducerHashCount - 1
  <2>1. implicitProducerHashCount' \in Int
    BY <1>4 DEF HashInv, HashTypes
  <2>2. Finish(t, hpc[t], None)
    BY <1>1, <1>4
  <2> QED
    BY <1>1, <1>4, <2>1, <2>2, FailedStep
<1> QED
  BY <1>2, <1>3, <1>4 DEF Resize

-----------------------------------------------------------------------------
(* The hash: the producers.                                                 *)

\* What nobody else uses becomes t's, or inactive.
LEMMA RecycleStep ==
    ASSUME HashInv, NEW t \in Ids, Recycle(t)
    PROVE  HashInv'
<1> USE DEF Recycle, Move, With
<1>1. /\ hpc[t] = "recycle" /\ tab[t] # 0 /\ tab[t] \in Nat /\ tab[t] - 1 \in Nat
      /\ UNCHANGED <<tables, implicitProducerHashCount, producerList, holds, main, idx, newCount>>
      /\ tab' = [tab EXCEPT ![t] = tab[t] - 1]
  BY DEF HashInv, HashTypes, tableVars
<1>2. Nowhere(t) /\ holds[t] = None /\ main[t] \in 1 .. Len(tables) /\ idx[t] = Hash[t]
      /\ prod[t] = None
  BY <1>1 DEF HashInv, SearchInv, ProdInv, Inserting
<1>3. CASE tab[t] \notin inactive
  <2>1. UNCHANGED <<inactive, prod, hpc>>
    BY <1>3
  <2>2. OthersStay(t)
    BY <1>1, <2>1 DEF HashInv, HashTypes, OthersStay
  <2>3. HashTypes'
    BY <1>1, <2>1 DEF HashInv, HashTypes
  <2>4. SearchInv(t)' /\ ProdInv(t)'
    BY <1>1, <1>2, <2>1 DEF SearchInv, ProdInv, Inserting, Nowhere
  <2> QED
    BY <1>1, <2>1, <2>2, <2>3, <2>4, HashQuietStep DEF prodVars
<1>4. CASE tab[t] \in inactive
  <2>1. /\ inactive' = inactive \ {tab[t]} /\ prod' = [prod EXCEPT ![t] = tab[t]]
        /\ hpc' = [hpc EXCEPT ![t] = "subscribe"]
    BY <1>4
  <2>2. OthersStay(t)
    BY <1>1, <2>1 DEF HashInv, HashTypes, OthersStay
  <2>3. HashTypes'
    BY <1>1, <2>1 DEF HashInv, HashTypes, HashPcs, Inserting
  <2>4. hpc'[t] = "subscribe" /\ prod'[t] = tab[t]
    BY <2>1 DEF HashInv, HashTypes
  <2>5. SearchInv(t)'
    BY <1>1, <1>2, <2>4 DEF SearchInv, Inserting, Nowhere
  <2>6. ProdInv(t)'
    BY <1>1, <1>2, <2>4 DEF ProdInv, Inserting, None
  <2>7. Moves(t) /\ TablesInv' /\ Values'
    BY <1>1, <2>2, TablesSame, ValuesSame DEF HashInv
  <2>8. Owners'
    <3>1. tab[t] \in 1 .. producerList /\ producerList \in Nat
      BY <1>4 DEF HashInv, HashTypes
    <3>2. Using(t)' = {tab[t]} /\ \A s \in Ids \ {t} : Using(s)' = Using(s)
      BY <1>1, <1>2, <2>2, <2>4 DEF Using, OthersStay, None
    <3>3. \A s \in Ids : Using(s) \cap inactive = {}
      BY DEF HashInv, Owners, OneThreadPerProducer
    <3>4. OneThreadPerProducer'
      BY <1>4, <2>1, <3>2, <3>3 DEF HashInv, Owners, OneThreadPerProducer
    <3>5. \A s \in Ids : {holds'[s], prod'[s]} \subseteq 0 .. producerList'
      BY <1>1, <2>2, <2>4, <3>1 DEF HashInv, Owners, OthersStay
    <3> QED
      BY <3>4, <3>5 DEF Owners
  <2> QED
    BY <2>2, <2>3, <2>5, <2>6, <2>7, <2>8, HashAfter
<1> QED
  BY <1>3, <1>4

LEMMA CreateStep ==
    ASSUME HashInv, NEW t \in Ids, Create(t)
    PROVE  HashInv'
<1> USE DEF Create, Move, With
<1>1. hpc[t] = "recycle" /\ UNCHANGED <<tables, inactive>>
  OBVIOUS
<1>2. Nowhere(t) /\ holds[t] = None /\ main[t] \in 1 .. Len(tables) /\ idx[t] = Hash[t]
      /\ prod[t] = None
  BY <1>1 DEF HashInv, SearchInv, ProdInv, Inserting
<1>3. CASE /\ Finish(t, "recycle", None) /\ UNCHANGED producerList
           /\ implicitProducerHashCount' = implicitProducerHashCount - 1
  <2>1. implicitProducerHashCount' \in Int
    BY <1>3 DEF HashInv, HashTypes
  <2>2. Finish(t, hpc[t], None) /\ UNCHANGED prodVars
    BY <1>1, <1>3 DEF prodVars
  <2> QED
    BY <1>1, <2>1, <2>2, FailedStep
<1>4. CASE /\ Move(t, "recycle", "subscribe")
           /\ producerList' = producerList + 1
           /\ prod' = With(prod, t, producerList + 1)
           /\ UNCHANGED <<implicitProducerHashCount, holds, main, tab, idx, newCount>>
  <2>1. /\ prod' = [prod EXCEPT ![t] = producerList + 1]
        /\ hpc' = [hpc EXCEPT ![t] = "subscribe"] /\ producerList' = producerList + 1
        /\ UNCHANGED <<implicitProducerHashCount, holds, main, tab, idx, newCount>>
    BY <1>4
  <2>2. OthersStay(t)
    BY <2>1 DEF HashInv, HashTypes, OthersStay
  <2>0. producerList \in Nat /\ inactive \subseteq 1 .. producerList
    BY DEF HashInv, HashTypes
  <2>3. HashTypes'
    <3>1. "subscribe" \in HashPcs
      BY DEF HashPcs, Inserting
    <3>2. inactive' \subseteq 1 .. producerList' /\ producerList' \in Nat
      BY <1>1, <2>0, <2>1
    <3> QED
      BY <1>1, <2>0, <2>1, <3>1, <3>2 DEF HashInv, HashTypes
  <2>4. hpc'[t] = "subscribe" /\ prod'[t] = producerList + 1 /\ producerList + 1 # None
    BY <2>0, <2>1 DEF HashInv, HashTypes, None
  <2>5. SearchInv(t)'
    BY <1>1, <1>2, <2>1, <2>4 DEF SearchInv, Inserting, Nowhere
  <2>6. ProdInv(t)'
    BY <1>1, <1>2, <2>1, <2>4 DEF ProdInv, Inserting
  <2>7. Moves(t) /\ TablesInv' /\ Values'
    BY <1>1, <2>1, <2>2, TablesSame, ValuesSame DEF HashInv
  <2>8. Owners'
    <3>1. Using(t)' = {producerList + 1} /\ \A s \in Ids \ {t} : Using(s)' = Using(s)
      BY <1>2, <2>1, <2>2, <2>4 DEF Using, OthersStay
    <3>2. \A s \in Ids : {holds[s], prod[s]} \subseteq 0 .. producerList
      BY DEF HashInv, Owners
    <3>3. producerList + 1 \notin inactive /\ \A s \in Ids : producerList + 1 \notin Using(s)
      BY <2>0, <3>2 DEF Using
    <3>4. OneThreadPerProducer'
      BY <1>1, <3>1, <3>3 DEF HashInv, Owners, OneThreadPerProducer
    <3>5. \A s \in Ids : {holds'[s], prod'[s]} \subseteq 0 .. producerList'
      <4>1. 0 .. producerList \subseteq 0 .. producerList + 1
            /\ {None, producerList + 1} \subseteq 0 .. producerList + 1
        BY <2>0 DEF None
      <4> QED
        BY <1>2, <2>1, <2>2, <2>4, <3>2, <4>1 DEF OthersStay
    <3> QED
      BY <3>4, <3>5 DEF Owners
  <2> QED
    BY <2>2, <2>3, <2>5, <2>6, <2>7, <2>8, HashAfter
<1> QED
  BY <1>3, <1>4

LEMMA RetireStep ==
    ASSUME HashInv, NEW t \in Ids, Exit_Retire(t)
    PROVE  HashInv'
<1> USE DEF Exit_Retire, Move, With
<1>1. /\ hpc[t] = "retire" /\ hpc' = [hpc EXCEPT ![t] = "idle"]
      /\ inactive' = inactive \cup {holds[t]} /\ holds' = [holds EXCEPT ![t] = None]
      /\ idx' = [idx EXCEPT ![t] = 0]
      /\ UNCHANGED <<tables, implicitProducerHashCount, producerList, main, tab, newCount, prod>>
  BY DEF tableVars
<1>2. Nowhere(t) /\ holds[t] # None /\ prod[t] = None
  BY <1>1 DEF HashInv, SearchInv, ProdInv, Inserting
<1>3. holds[t] \in 1 .. producerList /\ producerList \in Nat
  <2>1. holds[t] \in 0 .. producerList /\ producerList \in Nat
    BY DEF HashInv, HashTypes, Owners
  <2> QED
    BY <1>2, <2>1 DEF None
<1>4. OthersStay(t)
  BY <1>1 DEF HashInv, HashTypes, OthersStay
<1>5. HashTypes'
  <2>1. None \in Nat /\ "idle" \in HashPcs
    BY DEF None, HashPcs
  <2>2. inactive' \subseteq 1 .. producerList'
    BY <1>1, <1>3 DEF HashInv, HashTypes
  <2> QED
    BY <1>1, <2>1, <2>2 DEF HashInv, HashTypes
<1>6. hpc'[t] = "idle" /\ holds'[t] = None /\ prod'[t] = None
  BY <1>1, <1>2 DEF HashInv, HashTypes
<1>7. SearchInv(t)' /\ ProdInv(t)'
  BY <1>6 DEF SearchInv, ProdInv, Inserting
<1>8. Moves(t) /\ TablesInv' /\ Values'
  BY <1>1, <1>2, <1>4, TablesSame, ValuesSame DEF HashInv
<1>9. Owners'
  <2>1. Using(t) = {holds[t]} /\ Using(t)' = {} /\ \A s \in Ids \ {t} : Using(s)' = Using(s)
    BY <1>2, <1>4, <1>6 DEF Using, OthersStay
  <2>2. OneThreadPerProducer'
    BY <1>1, <2>1 DEF HashInv, Owners, OneThreadPerProducer
  <2>3. \A s \in Ids : {holds'[s], prod'[s]} \subseteq 0 .. producerList'
    BY <1>1, <1>3, <1>4, <1>6 DEF HashInv, Owners, OthersStay, None
  <2> QED
    BY <2>2, <2>3 DEF Owners
<1> QED
  BY <1>4, <1>5, <1>7, <1>8, <1>9, HashAfter

-----------------------------------------------------------------------------
(* The hash: the theorems.                                                  *)

LEMMA HashInitInv ==
    HashInit => HashInv
<1> SUFFICES ASSUME HashInit PROVE HashInv
  OBVIOUS
<1> USE DEF HashInit
<1>1. InitialSize \in Nat \ {0}
  BY HashAssumption
<1>2. /\ GoodTable(NewTable(InitialSize)) /\ NewTable(InitialSize) \in TableSet
      /\ \A t \in Ids : ~Has(NewTable(InitialSize), t)
  BY <1>1, FreshTable DEF GoodTable, IsTable, TableSet
<1>3. /\ tables \in Seq(TableSet) /\ Len(tables) = 1 /\ tables[1] = NewTable(InitialSize)
      /\ \A k \in 1 .. Len(tables) : k = 1
  BY <1>2
<1>4. HashTypes
  BY <1>3 DEF HashTypes, HashPcs, None, TableSet
<1>5. TablesInv /\ Values
  BY <1>2, <1>3 DEF TablesInv, Values, Has
<1>6. Owners
  BY DEF Owners, OneThreadPerProducer, Using, None
<1>7. \A t \in Ids : SearchInv(t) /\ ProdInv(t)
  BY DEF SearchInv, ProdInv, Inserting
<1> QED
  BY <1>4, <1>5, <1>6, <1>7 DEF HashInv

LEMMA HashNextInv ==
    HashInv /\ [HashNext]_hashVars => HashInv'
<1> SUFFICES ASSUME HashInv, [HashNext]_hashVars PROVE HashInv'
  OBVIOUS
<1>1. ASSUME NEW t \in Ids, GetOrAddImplicitProducer(t) PROVE HashInv'
  BY <1>1, LookupStep, FoundStep, EmptyStep, OtherStep, CopyStep, CountingStep, ResizeStep,
     RecycleStep, CreateStep, InsertStep DEF GetOrAddImplicitProducer
<1>2. ASSUME NEW t \in Ids, ThreadExit(t) PROVE HashInv'
  BY <1>2, ExitStep, ExitProbeStep, RetireStep DEF ThreadExit
<1>3. CASE UNCHANGED hashVars
  <2> USE <1>3 DEF hashVars, tableVars, prodVars, hashLocals
  <2>1. HashTypes' /\ TablesInv' /\ Values'
    BY DEF HashInv, HashTypes, TablesInv, Values
  <2>2. Owners'
    BY DEF HashInv, Owners, OneThreadPerProducer, Using
  <2>3. \A t \in Ids : SearchInv(t)'
    BY DEF HashInv, SearchInv, Nowhere, Slot, Capacity
  <2>4. \A t \in Ids : ProdInv(t)'
    BY DEF HashInv, ProdInv, Nowhere
  <2> QED
    BY <2>1, <2>2, <2>3, <2>4 DEF HashInv
<1> QED
  BY <1>1, <1>2, <1>3 DEF HashNext

\* The inductive invariant of the hash holds in every reachable state.
THEOREM HashSafe == HashSpec => []HashInv
BY HashInitInv, HashNextInv, PTL DEF HashSpec

\* However the threads search, insert, copy, resize and exit, and whatever the
\* hash, a thread that has a producer finds it again and gets no second one,
\* and an id that has exited leaves no key behind.
THEOREM ProducersFound == HashSpec => []FindsItsProducer
<1>1. HashInv => FindsItsProducer
  <2> SUFFICES ASSUME HashInv PROVE FindsItsProducer
    OBVIOUS
  <2>1. \A t \in Ids : /\ hpc[t] \in Inserting => holds[t] = None
                       /\ hpc[t] = "copy" => prod[t] = holds[t]
    BY DEF HashInv, ProdInv
  <2>2. \A k \in 1 .. Len(tables) : \A i \in DOMAIN tables[k] :
          tables[k][i].key \in Ids => tables[k][i].value = holds[tables[k][i].key]
    BY DEF HashInv, Values
  <2> QED
    BY <2>1, <2>2 DEF FindsItsProducer, Inserting
<1> QED
  BY <1>1, HashSafe, PTL

\* Of two threads that are alive, none has the other's producer, whether new
\* or recycled: the enqueues of a sub-queue come from one thread.
THEOREM ProducersHaveOneThread == HashSpec => []OneThreadPerProducer
<1>1. HashInv => OneThreadPerProducer
  BY DEF HashInv, Owners
<1> QED
  BY <1>1, HashSafe, PTL

=============================================================================
