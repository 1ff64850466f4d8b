--------------------------- MODULE ProducerProofs ---------------------------
(***************************************************************************)
(* One sub-queue, for any finite set of consumers, any batch and any sizes *)
(* of blocks and index.                                                    *)
(*                                                                         *)
(* First the claims of the consumers: the head never passes the tail,      *)
(* although a consumer claims elements before it knows that they exist.    *)
(* The argument follows the order of the fetch_adds on                     *)
(* dequeueOptimisticCount.  rank stands for that order; it is not a        *)
(* variable of the code, so the invariant only says that there is one.     *)
(*                                                                         *)
(* Then the blocks: a consumer finds its elements through the block index, *)
(* also one that has been replaced, a block is emptied once per use, and   *)
(* the destructors destroy exactly what is left.                           *)
(***************************************************************************)
EXTENDS Producer, FiniteSetTheorems, WellFoundedInduction, TLAPS

\* The functions' values at what comes before x in the order.
Below(f, rank, x) == [y \in DOMAIN f |-> IF rank[y] < rank[x] THEN f[y] ELSE 0]

\* Between its load of dequeueOvercommit and its loads of
\* dequeueOptimisticCount no consumer sleeps through Leeway (2^63) claims.
NobodyOversleeps ==
    \A c \in Consumers :
        /\ cpc[c] = "count" => dequeueOptimisticCount - loc[c].over < Leeway
        /\ cpc[c] = "recheck" => loc[c].mine - loc[c].over < Leeway

Fields == {"max", "tail", "over", "want", "mine", "n", "idx", "last", "hdr", "cur", "slot", "blk"}

\* The counters.
CounterTypes ==
    /\ tailIndex \in Nat /\ headIndex \in Nat
    /\ dequeueOptimisticCount \in Nat /\ dequeueOvercommit \in Nat
    /\ DOMAIN cpc = Consumers /\ DOMAIN loc = Consumers

\* What a consumer knows at each point of dequeue_bulk; "overcommit <=
\* myDequeueCount" is an assert of the code.
ConsumerInv(c) ==
    /\ DOMAIN loc[c] = Fields
    /\ cpc[c] \in {"over", "count"} => loc[c].max \in Nat \ {0} /\ loc[c].tail \in Nat /\ loc[c].n = 0
    /\ cpc[c] \in {"count", "claim", "recheck"} => loc[c].over \in 0 .. dequeueOvercommit
    /\ cpc[c] \in {"claim", "recheck", "give", "head"} => loc[c].want \in Nat \ {0}
    /\ cpc[c] \in {"claim", "recheck"} => loc[c].n = 0
    /\ cpc[c] = "recheck" => loc[c].mine \in loc[c].over .. dequeueOptimisticCount
    /\ cpc[c] = "give" => loc[c].n \in 0 .. loc[c].want
    /\ cpc[c] = "head" => loc[c].n = loc[c].want

\* The optimistic count less the overcommit is the head and the claims.
Counts ==
    /\ headIndex <= tailIndex
    /\ dequeueOptimisticCount - dequeueOvercommit = headIndex + Total(Claimed)

\* The head once every claim before c's is taken.
HeadBefore(c, rank) == headIndex + Total(Below(Claimed, rank, c))

\* rank is the order of the claims.  A consumer that looks at the tail again
\* either counts from what lies behind the claims before its own, or all it
\* claimed is there, because a later claim was already fulfilled; and what it
\* found is there.
InOrder(rank) ==
    /\ \A c \in Claimers : rank[c] < dequeueOptimisticCount
    /\ \A c, d \in Claimers : c # d => rank[c] # rank[d]
    /\ \A c \in Claimers :
         cpc[c] = "recheck" =>
            \/ loc[c].mine - loc[c].over >= HeadBefore(c, rank)
            \/ HeadBefore(c, rank) + loc[c].want <= tailIndex
    /\ \A c \in Claimers : loc[c].n > 0 => HeadBefore(c, rank) + loc[c].n <= tailIndex

ClaimsOrdered == \E rank \in [Consumers -> 0 .. dequeueOptimisticCount] : InOrder(rank)

ClaimInv ==
    /\ CounterTypes
    /\ \A c \in Consumers : ConsumerInv(c)
    /\ Counts
    /\ ClaimsOrdered

-----------------------------------------------------------------------------
(* Sums                                                                     *)

\* The units of one element of the domain.
LEMMA UnitsOfOne ==
    ASSUME NEW x, NEW n \in Nat
    PROVE  /\ IsFiniteSet({x} \X (1 .. n))
           /\ Cardinality({x} \X (1 .. n)) = n
<1>1. IsFiniteSet(1 .. n) /\ Cardinality(1 .. n) = n
  BY FS_Interval
<1>2. IsFiniteSet({x}) /\ Cardinality({x}) = 1
  BY FS_Singleton
<1> QED
  BY <1>1, <1>2, FS_Product

\* The units of a function with a finite domain are finitely many.
LEMMA UnitsFinite ==
    ASSUME NEW S, IsFiniteSet(S), NEW f \in [S -> Nat]
    PROVE  IsFiniteSet(Units(f)) /\ Total(f) \in Nat
<1> DEFINE Parts == {{x} \X (1 .. f[x]) : x \in S}
           part  == [x \in S |-> {x} \X (1 .. f[x])]
<1>1. IsFiniteSet(Parts)
  <2>1. part \in Surjection(S, Parts)
    BY DEF Surjection
  <2> QED
    BY <2>1, FS_Surjection
<1>2. \A P \in Parts : IsFiniteSet(P)
  <2>1. \A x \in S : IsFiniteSet({x} \X (1 .. f[x]))
    BY UnitsOfOne
  <2> QED
    BY <2>1
<1>3. Units(f) = UNION Parts
  BY DEF Units
<1>4. IsFiniteSet(Units(f))
  BY <1>1, <1>2, <1>3, FS_UNION
<1> QED
  BY <1>4, FS_CardinalityType DEF Total

\* The sum without the value at x.
LEMMA TotalSplit ==
    ASSUME NEW S, IsFiniteSet(S), NEW f \in [S -> Nat], NEW x \in S
    PROVE  LET Rest == UNION {{y} \X (1 .. f[y]) : y \in S \ {x}}
           IN  IsFiniteSet(Rest) /\ Total(f) = Cardinality(Rest) + f[x]
<1> DEFINE Rest == UNION {{y} \X (1 .. f[y]) : y \in S \ {x}}
           One  == {x} \X (1 .. f[x])
<1>1. Units(f) = Rest \cup One
  BY DEF Units
<1>2. Rest \cap One = {}
  OBVIOUS
<1>3. IsFiniteSet(Units(f)) /\ IsFiniteSet(Rest)
  BY <1>1, UnitsFinite, FS_Subset
<1>4. IsFiniteSet(One) /\ Cardinality(One) = f[x]
  BY UnitsOfOne
<1> HIDE DEF Rest, One
<1>5. Cardinality(Rest \cup One) = Cardinality(Rest) + Cardinality(One) - Cardinality(Rest \cap One)
  BY <1>3, <1>4, FS_Union
<1>6. Cardinality(Rest \cap One) = 0
  BY <1>2, FS_EmptySet
<1>7. Cardinality(Rest) \in Nat
  BY <1>3, FS_CardinalityType
<1>8. Total(f) = Cardinality(Rest) + f[x]
  BY <1>1, <1>4, <1>5, <1>6, <1>7 DEF Total
<1> QED
  BY <1>3, <1>8 DEF Rest

\* A change at x changes the sum by as much.
LEMMA TotalChange ==
    ASSUME NEW S, IsFiniteSet(S), NEW f \in [S -> Nat], NEW g \in [S -> Nat], NEW x \in S,
           \A y \in S \ {x} : g[y] = f[y]
    PROVE  Total(g) = Total(f) - f[x] + g[x]
<1> DEFINE RestF == UNION {{y} \X (1 .. f[y]) : y \in S \ {x}}
           RestG == UNION {{y} \X (1 .. g[y]) : y \in S \ {x}}
<1>1. RestF = RestG
  OBVIOUS
<1>2. IsFiniteSet(RestF) /\ Total(f) = Cardinality(RestF) + f[x]
  BY TotalSplit
<1>3. Total(g) = Cardinality(RestG) + g[x]
  BY TotalSplit
<1>4. Cardinality(RestF) \in Nat
  BY <1>2, FS_CardinalityType
<1> HIDE DEF RestF, RestG
<1> QED
  BY <1>1, <1>2, <1>3, <1>4

\* The sum of zeros.
LEMMA TotalZero ==
    ASSUME NEW S, NEW f \in [S -> {0}]
    PROVE  Total(f) = 0
<1>1. Units(f) = {}
  BY DEF Units
<1> QED
  BY <1>1, FS_EmptySet DEF Total

\* A smaller function has a smaller sum.
LEMMA TotalMonotone ==
    ASSUME NEW S, IsFiniteSet(S), NEW f \in [S -> Nat], NEW g \in [S -> Nat],
           \A x \in S : f[x] <= g[x]
    PROVE  Total(f) <= Total(g)
<1>1. IsFiniteSet(Units(g))
  BY UnitsFinite
<1>2. \A x \in S : {x} \X (1 .. f[x]) \subseteq {x} \X (1 .. g[x])
  OBVIOUS
<1>3. Units(f) \subseteq Units(g)
  BY <1>2 DEF Units
<1> QED
  BY <1>1, <1>3, FS_Subset DEF Total

\* What lies below x in the order, and the type of its sum.
LEMMA BelowType ==
    ASSUME NEW S, IsFiniteSet(S), NEW f \in [S -> Nat], NEW rank \in [S -> Nat], NEW x \in S
    PROVE  /\ Below(f, rank, x) \in [S -> Nat]
           /\ \A y \in S : Below(f, rank, x)[y] = IF rank[y] < rank[x] THEN f[y] ELSE 0
           /\ Total(Below(f, rank, x)) \in Nat
<1>1. DOMAIN f = S
  OBVIOUS
<1>2. /\ Below(f, rank, x) \in [S -> Nat]
      /\ \A y \in S : Below(f, rank, x)[y] = IF rank[y] < rank[x] THEN f[y] ELSE 0
  BY <1>1 DEF Below
<1> HIDE DEF Below
<1> QED
  BY <1>2, UnitsFinite

\* A change at x changes the sum below y by as much if x is below y.
LEMMA BelowChange ==
    ASSUME NEW S, IsFiniteSet(S), NEW f \in [S -> Nat], NEW g \in [S -> Nat], NEW x \in S,
           \A y \in S \ {x} : g[y] = f[y],
           NEW rank \in [S -> Nat], NEW y \in S
    PROVE  Total(Below(g, rank, y)) =
             Total(Below(f, rank, y)) + (IF rank[x] < rank[y] THEN g[x] - f[x] ELSE 0)
<1> DEFINE F == Below(f, rank, y)
           G == Below(g, rank, y)
<1>1. /\ F \in [S -> Nat] /\ Total(F) \in Nat
      /\ \A z \in S : F[z] = IF rank[z] < rank[y] THEN f[z] ELSE 0
  BY BelowType
<1>2. /\ G \in [S -> Nat]
      /\ \A z \in S : G[z] = IF rank[z] < rank[y] THEN g[z] ELSE 0
  BY BelowType
<1> HIDE DEF F, G
<1>3. \A z \in S \ {x} : G[z] = F[z]
  BY <1>1, <1>2
<1>4. Total(G) = Total(F) - F[x] + G[x]
  BY <1>1, <1>2, <1>3, TotalChange
<1>5. Total(G) = Total(F) + (IF rank[x] < rank[y] THEN g[x] - f[x] ELSE 0)
  BY <1>1, <1>2, <1>4
<1> QED
  BY <1>5 DEF F, G

\* What is below y holds x and what is below x, if x is below y.
LEMMA BelowAdds ==
    ASSUME NEW S, IsFiniteSet(S), NEW f \in [S -> Nat], NEW rank \in [S -> Nat],
           NEW x \in S, NEW y \in S, rank[x] < rank[y]
    PROVE  Total(Below(f, rank, x)) + f[x] <= Total(Below(f, rank, y))
<1> DEFINE F == Below(f, rank, x)
           G == [F EXCEPT ![x] = f[x]]
           H == Below(f, rank, y)
<1>1. /\ F \in [S -> Nat] /\ Total(F) \in Nat
      /\ \A z \in S : F[z] = IF rank[z] < rank[x] THEN f[z] ELSE 0
  BY BelowType
<1>2. /\ H \in [S -> Nat]
      /\ \A z \in S : H[z] = IF rank[z] < rank[y] THEN f[z] ELSE 0
  BY BelowType
<1> HIDE DEF F, H
<1>3. G \in [S -> Nat] /\ G[x] = f[x] /\ \A z \in S \ {x} : G[z] = F[z]
  BY <1>1
<1> HIDE DEF G
<1>4. Total(G) = Total(F) + f[x]
  <2>1. Total(G) = Total(F) - F[x] + G[x]
    BY <1>1, <1>3, TotalChange
  <2> QED
    BY <2>1, <1>1, <1>3
<1>5. \A z \in S : G[z] <= H[z]
  BY <1>1, <1>2, <1>3
<1>6. Total(G) <= Total(H)
  BY <1>2, <1>3, <1>5, TotalMonotone
<1> QED
  BY <1>4, <1>6 DEF F, H

\* A function below f that is 0 above x.
LEMMA BelowBounds ==
    ASSUME NEW S, IsFiniteSet(S), NEW f \in [S -> Nat], NEW g \in [S -> Nat],
           NEW rank \in [S -> Nat], NEW x \in S,
           \A y \in S : g[y] <= f[y],
           \A y \in S \ {x} : g[y] = 0 \/ rank[y] < rank[x]
    PROVE  Total(g) <= Total(Below(f, rank, x)) + g[x]
<1> DEFINE F == Below(f, rank, x)
<1>1. /\ F \in [S -> Nat] /\ Total(F) \in Nat
      /\ \A z \in S : F[z] = IF rank[z] < rank[x] THEN f[z] ELSE 0
  BY ONLY BelowType, IsFiniteSet(S), f \in [S -> Nat], rank \in [S -> Nat], x \in S
<1> HIDE DEF F
<1> DEFINE G == [F EXCEPT ![x] = g[x]]
<1>2. G \in [S -> Nat] /\ G[x] = g[x] /\ \A z \in S \ {x} : G[z] = F[z]
  BY <1>1
<1> HIDE DEF G
<1>3. Total(G) = Total(F) + g[x]
  <2>1. Total(G) = Total(F) - F[x] + G[x]
    BY <1>1, <1>2, TotalChange
  <2> QED
    BY <2>1, <1>1, <1>2
<1>4. \A z \in S : g[z] <= G[z]
  BY <1>1, <1>2
<1>5. Total(g) <= Total(G)
  BY <1>2, <1>4, TotalMonotone
<1> QED
  BY <1>3, <1>5 DEF F

-----------------------------------------------------------------------------
(* The steps                                                                *)

\* A number below the modulus does not wrap.
LEMMA NoWrap ==
    ASSUME NEW m \in Nat \ {0}, NEW k \in 0 .. m - 1
    PROVE  k % m = k
BY SMT

\* circular_less_than, for a difference above -Leeway.
LEMMA Positive ==
    ASSUME NEW x \in Int, x > -Leeway, CircularLessThan(0, x)
    PROVE  x > 0
<1>1. Leeway \in Nat /\ Leeway > 0
  BY ProducerAssumption
<1> SUFFICES ASSUME x <= 0 PROVE FALSE
  OBVIOUS
<1>2. (0 - x) \in 0 .. 2 * Leeway - 1 /\ 2 * Leeway > 0 /\ 2 * Leeway \in Nat
  BY <1>1
<1>4. (0 - x) % (2 * Leeway) = 0 - x
  BY <1>2, NoWrap
<1> QED
  BY <1>1, <1>4 DEF CircularLessThan

\* The smaller of two numbers.
LEMMA MinOfTwo ==
    ASSUME NEW a \in Int, NEW b \in Int
    PROVE  Min({a, b}) = IF a <= b THEN a ELSE b
BY DEF Min

\* What a step of consumer c does to the consumers.
LEMMA Moved ==
    ASSUME CounterTypes, NEW c \in Consumers, NEW from, NEW to, NEW l, ConsumerStep(c, from, to, l)
    PROVE  /\ cpc[c] = from /\ cpc'[c] = to /\ loc'[c] = l
           /\ \A d \in Consumers \ {c} : cpc'[d] = cpc[d] /\ loc'[d] = loc[d]
           /\ DOMAIN cpc' = Consumers /\ DOMAIN loc' = Consumers
           /\ tailIndex' = tailIndex
BY DEF CounterTypes, ConsumerStep, prodVars

\* The claims, and what of them is known to exist.
LEMMA ClaimTypes ==
    ASSUME ClaimInv
    PROVE  /\ Claimed \in [Consumers -> Nat] /\ Found \in [Consumers -> Nat]
           /\ \A c \in Consumers : Found[c] <= Claimed[c]
           /\ Total(Claimed) \in Nat /\ Total(Found) \in Nat
<1>1. \A c \in Claimers : loc[c].want \in Nat /\ loc[c].n \in 0 .. loc[c].want
  BY DEF ClaimInv, ConsumerInv, Claimers
<1>2. /\ Claimed \in [Consumers -> Nat] /\ Found \in [Consumers -> Nat]
      /\ \A c \in Consumers : Found[c] <= Claimed[c]
  BY <1>1 DEF Claimed, Found, Claimers
<1> HIDE DEF Claimed, Found
<1>3. IsFiniteSet(Consumers)
  BY ProducerAssumption
<1> QED
  BY <1>2, <1>3, UnitsFinite

\* A consumer that does not move keeps what it knows while the counters
\* grow.
LEMMA Unmoved ==
    ASSUME CounterTypes, NEW d \in Consumers, ConsumerInv(d), cpc'[d] = cpc[d], loc'[d] = loc[d],
           dequeueOvercommit' \in Nat, dequeueOvercommit' >= dequeueOvercommit,
           dequeueOptimisticCount' \in Nat, dequeueOptimisticCount' >= dequeueOptimisticCount
    PROVE  ConsumerInv(d)'
BY DEF CounterTypes, ConsumerInv

\* A step that leaves the claims alone, while the tail may grow.
LEMMA ClaimsStay ==
    ASSUME ClaimInv, CounterTypes', \A d \in Consumers : ConsumerInv(d)',
           headIndex' = headIndex, dequeueOptimisticCount' = dequeueOptimisticCount,
           dequeueOvercommit' = dequeueOvercommit, tailIndex' >= tailIndex,
           \A d \in Consumers :
              /\ d \in Claimers' <=> d \in Claimers
              /\ d \in Claimers => cpc'[d] = cpc[d] /\ loc'[d] = loc[d]
    PROVE  ClaimInv'
<1>1. Claimed' = Claimed /\ Claimers' = Claimers
  BY DEF Claimed, Claimers
<1>2. PICK rank \in [Consumers -> 0 .. dequeueOptimisticCount] : InOrder(rank)
  BY DEF ClaimInv, ClaimsOrdered
<1>3. \A c \in Claimers : HeadBefore(c, rank)' = HeadBefore(c, rank) /\ HeadBefore(c, rank) \in Nat
  <2> SUFFICES ASSUME NEW c \in Claimers
               PROVE  HeadBefore(c, rank)' = HeadBefore(c, rank) /\ HeadBefore(c, rank) \in Nat
    OBVIOUS
  <2>1. HeadBefore(c, rank)' = HeadBefore(c, rank)
    BY <1>1 DEF HeadBefore
  <2>2. c \in Consumers /\ rank \in [Consumers -> Nat] /\ IsFiniteSet(Consumers)
    BY ProducerAssumption DEF Claimers, ClaimInv, CounterTypes
  <2>3. Claimed \in [Consumers -> Nat]
    BY ClaimTypes
  <2>4. Total(Below(Claimed, rank, c)) \in Nat
    BY <2>2, <2>3, BelowType
  <2> QED
    BY <2>1, <2>4 DEF HeadBefore, ClaimInv, CounterTypes
<1>4. InOrder(rank)'
  <2> HIDE DEF HeadBefore
  <2>1. \A c \in Claimers : /\ cpc'[c] = cpc[c] /\ loc'[c] = loc[c]
                            /\ loc[c].want \in Nat /\ loc[c].n \in Nat
    BY DEF Claimers, ClaimInv, ConsumerInv
  <2> QED
    BY <1>1, <1>2, <1>3, <2>1 DEF InOrder, ClaimInv, CounterTypes
<1>5. Counts'
  BY <1>1 DEF Counts, ClaimInv, CounterTypes
<1> QED
  BY <1>4, <1>5 DEF ClaimInv, ClaimsOrdered

\* The producer and the destructor do not touch the claims.
LEMMA ProducerStep ==
    ASSUME ClaimInv, Enqueue \/ Destroy
    PROVE  ClaimInv'
<1>1. UNCHANGED consVars /\ tailIndex' \in {tailIndex, tailIndex + 1}
  BY DEF Enqueue, Enqueue_InBlock, Enqueue_Reuse, Enqueue_NewBlock, Enqueue_Entry, Enqueue_Front,
         Enqueue_Insert, Enqueue_Take, Enqueue_Undo, Enqueue_Tail, Destroy
<1>2. CounterTypes' /\ tailIndex' >= tailIndex
  BY <1>1 DEF CounterTypes, consVars, ClaimInv
<1>3. \A d \in Consumers : cpc'[d] = cpc[d] /\ loc'[d] = loc[d]
  BY <1>1 DEF consVars
<1>4. \A d \in Consumers : ConsumerInv(d)'
  BY <1>1, <1>3, Unmoved DEF consVars, ClaimInv, CounterTypes
<1>5. \A d \in Consumers : d \in Claimers' <=> d \in Claimers
  BY <1>3 DEF Claimers
<1> QED
  BY <1>1, <1>2, <1>3, <1>4, <1>5, ClaimsStay DEF consVars

\* A step of a consumer that has no claim before it and none after it.
LEMMA OutsideStep ==
    ASSUME ClaimInv, NEW c \in Consumers, NEW from, NEW to, NEW l, ConsumerStep(c, from, to, l),
           from \notin {"recheck", "give", "head"}, to \notin {"recheck", "give", "head"},
           UNCHANGED <<headIndex, dequeueOptimisticCount, dequeueOvercommit>>,
           ConsumerInv(c)'
    PROVE  ClaimInv'
<1>0. CounterTypes
  BY DEF ClaimInv
<1>1. /\ cpc[c] = from /\ cpc'[c] = to /\ loc'[c] = l
      /\ \A d \in Consumers \ {c} : cpc'[d] = cpc[d] /\ loc'[d] = loc[d]
      /\ DOMAIN cpc' = Consumers /\ DOMAIN loc' = Consumers
      /\ tailIndex' = tailIndex
  BY <1>0, Moved
<1>2. CounterTypes'
  BY <1>0, <1>1 DEF CounterTypes
<1>3. \A d \in Consumers \ {c} : ConsumerInv(d)'
  BY <1>0, <1>1, Unmoved DEF ClaimInv, CounterTypes
<1>4. \A d \in Consumers : ConsumerInv(d)'
  BY <1>3
<1>5. \A d \in Consumers :
         /\ d \in Claimers' <=> d \in Claimers
         /\ d \in Claimers => cpc'[d] = cpc[d] /\ loc'[d] = loc[d]
  BY <1>1 DEF Claimers
<1>6. tailIndex' >= tailIndex
  BY <1>0, <1>1 DEF CounterTypes
<1> QED
  BY <1>2, <1>4, <1>5, <1>6, ClaimsStay

\* The loads before the claim.
LEMMA LoadSteps ==
    ASSUME ClaimInv, NobodyOversleeps, NEW c \in Consumers,
           Dequeue_Tail(c) \/ Dequeue_Over(c) \/ Dequeue_Count(c)
    PROVE  ClaimInv'
<1>0. CounterTypes /\ ConsumerInv(c)
  BY DEF ClaimInv
<1>1. DOMAIN NoLocals = Fields /\ NoLocals.n = 0
  BY DEF NoLocals, Fields
<1>2. CASE Dequeue_Tail(c)
  <2>1. PICK m \in 1 .. MaxBatch :
           ConsumerStep(c, "idle", "over", [NoLocals EXCEPT !.max = m, !.tail = tailIndex])
    BY <1>2 DEF Dequeue_Tail
  <2> DEFINE l == [NoLocals EXCEPT !.max = m, !.tail = tailIndex]
  <2>2. DOMAIN l = Fields /\ l.max = m /\ l.tail = tailIndex /\ l.n = 0
    BY DEF NoLocals, Fields
  <2> HIDE DEF l
  <2>3. cpc'[c] = "over" /\ loc'[c] = l
    BY <1>0, <2>1, Moved DEF l
  <2>4. ConsumerInv(c)'
    BY <1>0, <2>2, <2>3, ProducerAssumption DEF ConsumerInv, CounterTypes
  <2>5. UNCHANGED <<headIndex, dequeueOptimisticCount, dequeueOvercommit>>
    BY <1>2 DEF Dequeue_Tail
  <2> QED
    BY <2>1, <2>4, <2>5, OutsideStep DEF l
<1>3. CASE Dequeue_Over(c)
  <2> DEFINE l == [loc[c] EXCEPT !.over = dequeueOvercommit]
  <2>1. ConsumerStep(c, "over", "count", l)
    BY <1>3 DEF Dequeue_Over
  <2>2. DOMAIN l = Fields /\ l.max = loc[c].max /\ l.tail = loc[c].tail /\ l.n = loc[c].n
        /\ l.over = dequeueOvercommit
    BY <1>0 DEF ConsumerInv, Fields
  <2> HIDE DEF l
  <2>3. cpc[c] = "over" /\ cpc'[c] = "count" /\ loc'[c] = l
    BY <1>0, <2>1, Moved
  <2>5. UNCHANGED <<headIndex, dequeueOptimisticCount, dequeueOvercommit>>
    BY <1>3 DEF Dequeue_Over
  <2>4. ConsumerInv(c)'
    BY <1>0, <2>2, <2>3, <2>5 DEF ConsumerInv, CounterTypes
  <2> QED
    BY <2>1, <2>4, <2>5, OutsideStep
<1>4. CASE Dequeue_Count(c)
  <2> DEFINE desired == loc[c].tail - (dequeueOptimisticCount - loc[c].over)
             l == [loc[c] EXCEPT !.want = Min({desired, loc[c].max}), !.max = 0, !.tail = 0]
  <2>5. UNCHANGED <<headIndex, dequeueOptimisticCount, dequeueOvercommit>>
    BY <1>4 DEF Dequeue_Count
  <2>1. CASE CircularLessThan(0, desired)
    <3>1. ConsumerStep(c, "count", "claim", l)
      BY <1>4, <2>1 DEF Dequeue_Count
    <3>2. cpc[c] = "count" /\ cpc'[c] = "claim" /\ loc'[c] = l
      BY <1>0, <3>1, Moved
    <3>3. /\ loc[c].tail \in Nat /\ loc[c].over \in 0 .. dequeueOvercommit /\ loc[c].n = 0
          /\ loc[c].max \in Nat \ {0}
          /\ dequeueOptimisticCount - loc[c].over < Leeway
      BY <1>0, <3>2 DEF ConsumerInv, NobodyOversleeps
    <3>4. desired \in Int /\ desired > -Leeway
      BY <1>0, <3>3, ProducerAssumption DEF CounterTypes
    <3> HIDE DEF desired
    <3>5. desired > 0
      BY <2>1, <3>4, Positive
    <3>6. Min({desired, loc[c].max}) \in Nat \ {0}
      BY <3>3, <3>4, <3>5, MinOfTwo
    <3>7. DOMAIN l = Fields /\ l.want = Min({desired, loc[c].max}) /\ l.over = loc[c].over /\ l.n = loc[c].n
      BY <1>0 DEF ConsumerInv, Fields
    <3> HIDE DEF l
    <3>8. ConsumerInv(c)'
      BY <1>0, <2>5, <3>2, <3>3, <3>6, <3>7 DEF ConsumerInv, CounterTypes
    <3> QED
      BY <2>5, <3>1, <3>8, OutsideStep
  <2>2. CASE ~CircularLessThan(0, desired)
    <3>1. ConsumerStep(c, "count", "idle", NoLocals)
      BY <1>4, <2>2 DEF Dequeue_Count
    <3>2. cpc'[c] = "idle" /\ loc'[c] = NoLocals
      BY <1>0, <3>1, Moved
    <3>3. ConsumerInv(c)'
      BY <1>1, <3>2 DEF ConsumerInv
    <3> QED
      BY <2>5, <3>1, <3>3, OutsideStep
  <2> QED
    BY <2>1, <2>2
<1> QED
  BY <1>2, <1>3, <1>4

AfterClaim == {"index", "cur", "slot", "read", "empty", "null", "free", "idle"}

\* After the head has moved nothing about the claims is left to know.
LEMMA AfterStep ==
    ASSUME ClaimInv, NEW c \in Consumers, NEW from \in AfterClaim, NEW to \in AfterClaim, NEW l,
           DOMAIN l = Fields, ConsumerStep(c, from, to, l),
           UNCHANGED <<headIndex, dequeueOptimisticCount, dequeueOvercommit>>
    PROVE  ClaimInv'
<1>1. cpc'[c] = to /\ loc'[c] = l
  BY Moved DEF ClaimInv
<1>2. ConsumerInv(c)'
  BY <1>1 DEF ConsumerInv, AfterClaim
<1> QED
  BY <1>2, OutsideStep DEF AfterClaim

\* The walk over the block index and the blocks.
LEMMA TakeSteps ==
    ASSUME ClaimInv, NEW c \in Consumers, GetBlockIndexIndexForIndex(c) \/ TakeElements(c)
    PROVE  ClaimInv'
<1>0. DOMAIN loc[c] = Fields
  BY DEF ClaimInv, ConsumerInv
<1>1. DOMAIN NoLocals = Fields
  BY DEF NoLocals, Fields
<1>3. UNCHANGED <<headIndex, dequeueOptimisticCount, dequeueOvercommit>>
  BY DEF GetBlockIndexIndexForIndex, TakeElements, Dequeue_Index, Dequeue_Cur, Dequeue_Slot,
         Dequeue_Read, Dequeue_Empty_Explicit, Dequeue_Empty_Implicit, Dequeue_Null, Dequeue_Free
<1>4. ASSUME NEW from \in AfterClaim, NextBlockOr(c, from)
      PROVE  \E to \in AfterClaim : \E l : DOMAIN l = Fields /\ ConsumerStep(c, from, to, l)
  <2>1. CASE EndIndex(c) = loc[c].last
    <3>1. ConsumerStep(c, from, "idle", NoLocals)
      BY <1>4, <2>1 DEF NextBlockOr
    <3> QED
      BY <1>1, <3>1 DEF AfterClaim
  <2>2. CASE EndIndex(c) # loc[c].last
    <3> DEFINE l == [loc[c] EXCEPT !.idx = EndIndex(c),
                                   !.slot = (@ + 1) % SizeOf(headers[loc[c].hdr]),
                                   !.blk = NoBlock]
    <3>1. ConsumerStep(c, from, "read", l)
      BY <1>4, <2>2 DEF NextBlockOr
    <3>2. DOMAIN l = Fields
      BY <1>0
    <3> HIDE DEF l
    <3> QED
      BY <3>1, <3>2 DEF AfterClaim
  <2> QED
    BY <2>1, <2>2
<1>5. \E from \in AfterClaim, to \in AfterClaim : \E l :
         DOMAIN l = Fields /\ ConsumerStep(c, from, to, l)
  <2>1. CASE Dequeue_Index(c)
    <3> DEFINE l == [loc[c] EXCEPT !.hdr = Len(headers)]
    <3>1. ConsumerStep(c, "index", "cur", l)
      BY <2>1 DEF Dequeue_Index
    <3>2. DOMAIN l = Fields
      BY <1>0
    <3> HIDE DEF l
    <3> QED
      BY <3>1, <3>2 DEF AfterClaim
  <2>2. CASE Dequeue_Cur(c)
    <3> DEFINE l == [loc[c] EXCEPT !.cur = headers[loc[c].hdr].cur]
    <3>1. ConsumerStep(c, "cur", "slot", l)
      BY <2>2 DEF Dequeue_Cur
    <3>2. DOMAIN l = Fields
      BY <1>0
    <3> HIDE DEF l
    <3> QED
      BY <3>1, <3>2 DEF AfterClaim
  <2>3. CASE Dequeue_Slot(c)
    <3> DEFINE h == headers[loc[c].hdr]
               offset == (BlockBase(loc[c].idx) - entries[h.slot[loc[c].cur]].base) \div BlockSize
               l == [loc[c] EXCEPT !.slot = (loc[c].cur + offset) % SizeOf(h), !.cur = 0]
    <3>1. ConsumerStep(c, "slot", "read", l)
      BY <2>3 DEF Dequeue_Slot
    <3>2. DOMAIN l = Fields
      BY <1>0
    <3> HIDE DEF l
    <3> QED
      BY <3>1, <3>2 DEF AfterClaim
  <2>4. CASE Dequeue_Read(c)
    <3> DEFINE l == [loc[c] EXCEPT !.blk = entries[EntryOf(c)].block]
    <3>1. ConsumerStep(c, "read", "empty", l)
      BY <2>4 DEF Dequeue_Read
    <3>2. DOMAIN l = Fields
      BY <1>0
    <3> HIDE DEF l
    <3> QED
      BY <3>1, <3>2 DEF AfterClaim
  <2>5. CASE Dequeue_Empty_Explicit(c)
    <3>1. NextBlockOr(c, "empty") /\ "empty" \in AfterClaim
      BY <2>5 DEF Dequeue_Empty_Explicit, AfterClaim
    <3> QED
      BY <1>4, <3>1
  <2>6. CASE Dequeue_Empty_Implicit(c)
    <3>1. "empty" \in AfterClaim /\ "null" \in AfterClaim
      BY DEF AfterClaim
    <3>2. ConsumerStep(c, "empty", "null", loc[c]) \/ NextBlockOr(c, "empty")
      BY <2>6 DEF Dequeue_Empty_Implicit
    <3> QED
      BY <1>0, <1>4, <3>1, <3>2
  <2>7. CASE Dequeue_Null(c)
    <3>1. ConsumerStep(c, "null", "free", loc[c])
      BY <2>7 DEF Dequeue_Null
    <3> QED
      BY <1>0, <3>1 DEF AfterClaim
  <2>8. CASE Dequeue_Free(c)
    <3>1. NextBlockOr(c, "free") /\ "free" \in AfterClaim
      BY <2>8 DEF Dequeue_Free, AfterClaim
    <3> QED
      BY <1>4, <3>1
  <2> QED
    BY <2>1, <2>2, <2>3, <2>4, <2>5, <2>6, <2>7, <2>8 DEF GetBlockIndexIndexForIndex, TakeElements
<1> QED
  BY <1>3, <1>5, AfterStep

ClaimStates == {"recheck", "give", "head"}

\* What a step of consumer c does to the claims.
LEMMA ClaimMoves ==
    ASSUME ClaimInv, NEW c \in Consumers, NEW from, NEW to, NEW l, ConsumerStep(c, from, to, l),
           ConsumerInv(c)', headIndex' \in Nat,
           dequeueOvercommit' \in Nat, dequeueOvercommit' >= dequeueOvercommit,
           dequeueOptimisticCount' \in Nat, dequeueOptimisticCount' >= dequeueOptimisticCount
    PROVE  /\ CounterTypes' /\ \A d \in Consumers : ConsumerInv(d)'
           /\ tailIndex' = tailIndex
           /\ Claimed' \in [Consumers -> Nat]
           /\ Total(Claimed') = Total(Claimed) - Claimed[c] + Claimed'[c]
           /\ c \in Claimers <=> from \in ClaimStates
           /\ c \in Claimers' <=> to \in ClaimStates
           /\ Claimed[c] = IF from \in ClaimStates THEN loc[c].want ELSE 0
           /\ Claimed'[c] = IF to \in ClaimStates THEN l.want ELSE 0
           /\ \A d \in Consumers \ {c} :
                /\ Claimed'[d] = Claimed[d]
                /\ d \in Claimers' <=> d \in Claimers
                /\ cpc'[d] = cpc[d] /\ loc'[d] = loc[d]
<1>0. CounterTypes
  BY DEF ClaimInv
<1>1. /\ cpc[c] = from /\ cpc'[c] = to /\ loc'[c] = l
      /\ \A d \in Consumers \ {c} : cpc'[d] = cpc[d] /\ loc'[d] = loc[d]
      /\ DOMAIN cpc' = Consumers /\ DOMAIN loc' = Consumers
      /\ tailIndex' = tailIndex
  BY <1>0, Moved
<1>2. CounterTypes'
  BY <1>0, <1>1 DEF CounterTypes
<1>3. \A d \in Consumers \ {c} : ConsumerInv(d)'
  BY <1>0, <1>1, Unmoved DEF ClaimInv
<1>4. \A d \in Consumers : ConsumerInv(d)'
  BY <1>3
<1>5. \A d \in Claimers' : loc'[d].want \in Nat
  BY <1>4 DEF Claimers, ConsumerInv
<1>6. Claimed' \in [Consumers -> Nat]
  BY <1>5 DEF Claimed
<1>7. /\ c \in Claimers <=> from \in ClaimStates
      /\ c \in Claimers' <=> to \in ClaimStates
  BY <1>1 DEF Claimers, ClaimStates
<1>8. /\ Claimed[c] = IF from \in ClaimStates THEN loc[c].want ELSE 0
      /\ Claimed'[c] = IF to \in ClaimStates THEN l.want ELSE 0
  BY <1>1, <1>7 DEF Claimed
<1>9. \A d \in Consumers \ {c} : d \in Claimers' <=> d \in Claimers
  BY <1>1 DEF Claimers
<1>10. \A d \in Consumers \ {c} : Claimed'[d] = Claimed[d]
  BY <1>1, <1>9 DEF Claimed
<1>11. Total(Claimed') = Total(Claimed) - Claimed[c] + Claimed'[c]
  <2>1. Claimed \in [Consumers -> Nat] /\ IsFiniteSet(Consumers)
    BY ClaimTypes, ProducerAssumption
  <2> HIDE DEF Claimed
  <2> QED
    BY <1>6, <1>10, <2>1, TotalChange
<1> QED
  BY <1>1, <1>2, <1>4, <1>6, <1>7, <1>8, <1>9, <1>10, <1>11

\* The types that go with an order of the claims.
LEMMA OrderTypes ==
    ASSUME ClaimInv, NEW rank \in [Consumers -> 0 .. dequeueOptimisticCount]
    PROVE  /\ rank \in [Consumers -> Nat]
           /\ \A d \in Consumers : HeadBefore(d, rank) \in Nat
           /\ \A d \in Claimers : d \in Consumers /\ loc[d].want \in Nat \ {0} /\ loc[d].n \in Nat
<1>1. rank \in [Consumers -> Nat] /\ IsFiniteSet(Consumers)
  BY ProducerAssumption DEF ClaimInv, CounterTypes
<1>2. \A d \in Consumers : Total(Below(Claimed, rank, d)) \in Nat
  BY <1>1, ClaimTypes, BelowType
<1>3. \A d \in Consumers : HeadBefore(d, rank) \in Nat
  BY <1>2 DEF HeadBefore, ClaimInv, CounterTypes
<1>4. \A d \in Claimers : d \in Consumers /\ loc[d].want \in Nat \ {0} /\ loc[d].n \in Nat
  BY DEF Claimers, ClaimInv, ConsumerInv
<1> QED
  BY <1>1, <1>3, <1>4

\* The fetch_add on dequeueOptimisticCount: the new claim comes after all
\* others.
LEMMA ClaimStep ==
    ASSUME ClaimInv, NEW c \in Consumers, Dequeue_Claim(c)
    PROVE  ClaimInv'
<1> DEFINE l == [loc[c] EXCEPT !.mine = dequeueOptimisticCount]
           opt == dequeueOptimisticCount
<1>0. CounterTypes /\ ConsumerInv(c)
  BY DEF ClaimInv
<1>1. /\ ConsumerStep(c, "claim", "recheck", l)
      /\ dequeueOptimisticCount' = opt + loc[c].want
      /\ headIndex' = headIndex /\ dequeueOvercommit' = dequeueOvercommit
  BY DEF Dequeue_Claim
<1>2. cpc[c] = "claim" /\ cpc'[c] = "recheck" /\ loc'[c] = l
  BY <1>0, <1>1, Moved
<1>3. /\ DOMAIN l = Fields /\ l.want = loc[c].want /\ l.over = loc[c].over /\ l.n = loc[c].n
      /\ l.mine = opt
  BY <1>0 DEF ConsumerInv, Fields
<1> HIDE DEF l
<1>4. /\ loc[c].want \in Nat \ {0} /\ loc[c].over \in 0 .. dequeueOvercommit /\ loc[c].n = 0
  BY <1>0, <1>2 DEF ConsumerInv
<1>5. /\ opt \in Nat /\ dequeueOptimisticCount' \in Nat /\ dequeueOptimisticCount' > opt
      /\ headIndex \in Nat /\ dequeueOvercommit \in Nat
  BY <1>0, <1>1, <1>4 DEF CounterTypes
<1>6. opt - dequeueOvercommit = headIndex + Total(Claimed) /\ Total(Claimed) \in Nat
      /\ headIndex <= tailIndex
  BY ClaimTypes DEF ClaimInv, Counts
<1>7. ConsumerInv(c)'
  BY <1>1, <1>2, <1>3, <1>4, <1>5, <1>6 DEF ConsumerInv
<1>8. /\ CounterTypes' /\ \A d \in Consumers : ConsumerInv(d)'
      /\ tailIndex' = tailIndex
      /\ Claimed' \in [Consumers -> Nat]
      /\ Total(Claimed') = Total(Claimed) - Claimed[c] + Claimed'[c]
      /\ c \notin Claimers /\ c \in Claimers'
      /\ Claimed[c] = 0 /\ Claimed'[c] = loc[c].want
      /\ \A d \in Consumers \ {c} :
           /\ Claimed'[d] = Claimed[d]
           /\ d \in Claimers' <=> d \in Claimers
           /\ cpc'[d] = cpc[d] /\ loc'[d] = loc[d]
  BY <1>1, <1>3, <1>5, <1>7, ClaimMoves DEF ClaimStates
<1>9. Counts'
  BY <1>1, <1>4, <1>5, <1>6, <1>8 DEF Counts
<1>10. PICK rank \in [Consumers -> 0 .. opt] : InOrder(rank)
  BY DEF ClaimInv, ClaimsOrdered
<1>11. PICK new \in [Consumers -> 0 .. dequeueOptimisticCount'] :
         new[c] = opt /\ \A d \in Consumers \ {c} : new[d] = rank[d]
  <2> DEFINE r == [rank EXCEPT ![c] = opt]
  <2>1. r \in [Consumers -> 0 .. dequeueOptimisticCount']
    BY <1>1, <1>4, <1>5
  <2>2. r[c] = opt /\ \A d \in Consumers \ {c} : r[d] = rank[d]
    BY <1>10
  <2> QED
    BY <2>1, <2>2
<1>12. Claimed \in [Consumers -> Nat] /\ \A d \in Consumers : d \notin Claimers => Claimed[d] = 0
  BY ClaimTypes DEF Claimed
<1>13. \A d \in Claimers : d # c /\ d \in Consumers /\ rank[d] \in Nat /\ rank[d] < opt
  BY <1>8, <1>10 DEF InOrder, Claimers
<1>14. \A d \in Claimers : HeadBefore(d, new)' = HeadBefore(d, rank)
  <2> SUFFICES ASSUME NEW d \in Claimers
               PROVE  Below(Claimed', new, d) = Below(Claimed, rank, d)
    BY <1>1 DEF HeadBefore
  <2> QED
    BY <1>8, <1>11, <1>12, <1>13 DEF Below
<1>15. HeadBefore(c, new)' = headIndex + Total(Claimed)
  <2>1. Below(Claimed', new, c) = Claimed
    BY <1>8, <1>11, <1>12, <1>13 DEF Below
  <2> QED
    BY <1>1, <2>1 DEF HeadBefore
<1>16. InOrder(new)'
  <2>1. \A d \in Claimers' : d = c \/ d \in Claimers
    BY <1>8 DEF Claimers
  <2>2. \A d \in Claimers' : new[d] < dequeueOptimisticCount'
    BY <1>5, <1>11, <1>13, <2>1
  <2>3. \A d, e \in Claimers' : d # e => new[d] # new[e]
    BY <1>5, <1>10, <1>11, <1>13, <2>1 DEF InOrder
  <2>4. loc'[c].mine - loc'[c].over >= HeadBefore(c, new)'
    BY <1>2, <1>3, <1>4, <1>5, <1>6, <1>15
  <2>5. ~(loc'[c].n > 0)
    BY <1>2, <1>3, <1>4
  <2>6. \A d \in Claimers : cpc'[d] = cpc[d] /\ loc'[d] = loc[d]
    BY <1>8, <1>13
  <2> HIDE DEF HeadBefore
  <2>7. \A d \in Claimers' :
           cpc'[d] = "recheck" =>
              \/ loc'[d].mine - loc'[d].over >= HeadBefore(d, new)'
              \/ HeadBefore(d, new)' + loc'[d].want <= tailIndex'
    BY <1>8, <1>10, <1>14, <2>1, <2>4, <2>6 DEF InOrder
  <2>8. \A d \in Claimers' : loc'[d].n > 0 => HeadBefore(d, new)' + loc'[d].n <= tailIndex'
    BY <1>8, <1>10, <1>14, <2>1, <2>5, <2>6 DEF InOrder
  <2> QED
    BY <2>2, <2>3, <2>7, <2>8 DEF InOrder
<1> QED
  BY <1>8, <1>9, <1>11, <1>16 DEF ClaimInv, ClaimsOrdered

\* The second look at the tail: what it finds lies behind the claims before
\* its own.
LEMMA RecheckStep ==
    ASSUME ClaimInv, NobodyOversleeps, NEW c \in Consumers, Dequeue_Recheck(c)
    PROVE  ClaimInv'
<1> DEFINE actual == tailIndex - (loc[c].mine - loc[c].over)
           n == IF CircularLessThan(0, actual) THEN Min({loc[c].want, actual}) ELSE 0
           to == IF n < loc[c].want THEN "give" ELSE "head"
           l == [loc[c] EXCEPT !.n = n, !.mine = 0, !.over = 0]
<1>0. CounterTypes /\ ConsumerInv(c)
  BY DEF ClaimInv
<1>1. /\ ConsumerStep(c, "recheck", to, l)
      /\ UNCHANGED <<headIndex, dequeueOptimisticCount, dequeueOvercommit>>
  BY DEF Dequeue_Recheck
<1>2. cpc[c] = "recheck" /\ cpc'[c] = to /\ loc'[c] = l
  BY <1>0, <1>1, Moved
<1>3. DOMAIN l = Fields /\ l.want = loc[c].want /\ l.n = n
  BY <1>0 DEF ConsumerInv, Fields
<1> HIDE DEF l
<1>4. /\ loc[c].want \in Nat \ {0} /\ loc[c].over \in Nat /\ loc[c].mine \in Nat
      /\ loc[c].mine >= loc[c].over /\ loc[c].mine - loc[c].over < Leeway
  BY <1>0, <1>2 DEF ConsumerInv, NobodyOversleeps, CounterTypes
<1>5. actual \in Int /\ actual > -Leeway
  BY <1>0, <1>4, ProducerAssumption DEF CounterTypes
<1>6. n \in 0 .. loc[c].want /\ (n > 0 => n <= actual)
  <2> HIDE DEF actual
  <2>1. CASE CircularLessThan(0, actual)
    <3>1. actual > 0
      BY <1>5, <2>1, Positive
    <3>2. n = Min({loc[c].want, actual})
      BY <2>1
    <3> QED
      BY <1>4, <1>5, <3>1, <3>2, MinOfTwo
  <2>2. CASE ~CircularLessThan(0, actual)
    BY <1>4, <2>2
  <2> QED
    BY <2>1, <2>2
<1> HIDE DEF n
<1>7. to \in {"give", "head"} /\ (to = "head" => n = loc[c].want)
  BY <1>4, <1>6
<1> HIDE DEF to
<1>8. ConsumerInv(c)'
  BY <1>2, <1>3, <1>4, <1>6, <1>7 DEF ConsumerInv
<1>9. /\ CounterTypes' /\ \A d \in Consumers : ConsumerInv(d)'
      /\ tailIndex' = tailIndex
      /\ Claimed' \in [Consumers -> Nat]
      /\ c \in Claimers /\ c \in Claimers'
      /\ Claimed[c] = loc[c].want /\ Claimed'[c] = loc[c].want
      /\ \A d \in Consumers \ {c} :
           /\ Claimed'[d] = Claimed[d]
           /\ d \in Claimers' <=> d \in Claimers
           /\ cpc'[d] = cpc[d] /\ loc'[d] = loc[d]
  BY <1>0, <1>1, <1>3, <1>7, <1>8, ClaimMoves DEF ClaimStates, CounterTypes
<1>10. Claimed' = Claimed /\ Claimers' = Claimers
  <2>1. Claimed' \in [Consumers -> Nat] /\ Claimed \in [Consumers -> Nat]
    BY <1>9, ClaimTypes
  <2>2. Claimers' = Claimers
    BY <1>9 DEF Claimers
  <2>3. \A d \in Consumers : Claimed'[d] = Claimed[d]
    BY <1>9
  <2> HIDE DEF Claimed
  <2> QED
    BY <2>1, <2>2, <2>3
<1>11. Counts'
  BY <1>1, <1>9, <1>10 DEF Counts, ClaimInv
<1>12. PICK rank \in [Consumers -> 0 .. dequeueOptimisticCount] : InOrder(rank)
  BY DEF ClaimInv, ClaimsOrdered
<1>13. /\ \A d \in Claimers : HeadBefore(d, rank)' = HeadBefore(d, rank)
       /\ HeadBefore(c, rank) \in Nat
  BY <1>1, <1>10, <1>12, OrderTypes DEF HeadBefore
<1>14. n > 0 => HeadBefore(c, rank) + n <= tailIndex
  <2> HIDE DEF HeadBefore
  <2>1. \/ loc[c].mine - loc[c].over >= HeadBefore(c, rank)
        \/ HeadBefore(c, rank) + loc[c].want <= tailIndex
    BY <1>2, <1>9, <1>12 DEF InOrder
  <2> QED
    BY <1>0, <1>4, <1>6, <1>13, <2>1 DEF CounterTypes
<1>15. InOrder(rank)'
  <2> HIDE DEF HeadBefore
  <2>1. \A d \in Claimers : d = c \/ (cpc'[d] = cpc[d] /\ loc'[d] = loc[d])
    BY <1>9 DEF Claimers
  <2>2. cpc'[c] # "recheck" /\ loc'[c].n = n
    BY <1>2, <1>3, <1>7
  <2> QED
    BY <1>1, <1>9, <1>10, <1>12, <1>13, <1>14, <2>1, <2>2 DEF InOrder
<1> QED
  BY <1>1, <1>9, <1>11, <1>12, <1>15 DEF ClaimInv, ClaimsOrdered

\* The claims that turned out not to exist are returned to the overcommit.
LEMMA GiveStep ==
    ASSUME ClaimInv, NEW c \in Consumers, Dequeue_Give(c)
    PROVE  ClaimInv'
<1> DEFINE n  == loc[c].n
           to == IF n = 0 THEN "idle" ELSE "head"
           l  == IF n = 0 THEN NoLocals ELSE [loc[c] EXCEPT !.want = n]
<1>0. CounterTypes /\ ConsumerInv(c)
  BY DEF ClaimInv
<1>1. /\ ConsumerStep(c, "give", to, l)
      /\ dequeueOvercommit' = dequeueOvercommit + (loc[c].want - n)
      /\ headIndex' = headIndex /\ dequeueOptimisticCount' = dequeueOptimisticCount
  BY DEF Dequeue_Give
<1>2. cpc[c] = "give" /\ cpc'[c] = to /\ loc'[c] = l
  BY <1>0, <1>1, Moved
<1>3. DOMAIN l = Fields /\ (n # 0 => l.want = n /\ l.n = n)
  BY <1>0 DEF ConsumerInv, Fields, NoLocals
<1> HIDE DEF l
<1>4. loc[c].want \in Nat \ {0} /\ n \in 0 .. loc[c].want
  BY <1>0, <1>2 DEF ConsumerInv
<1>5. /\ dequeueOvercommit' \in Nat /\ dequeueOvercommit' >= dequeueOvercommit
      /\ headIndex' \in Nat /\ dequeueOptimisticCount' \in Nat
      /\ dequeueOptimisticCount' >= dequeueOptimisticCount
  BY <1>0, <1>1, <1>4 DEF CounterTypes
<1>6. ConsumerInv(c)'
  BY <1>2, <1>3, <1>4 DEF ConsumerInv
<1>7. /\ CounterTypes' /\ \A d \in Consumers : ConsumerInv(d)'
      /\ tailIndex' = tailIndex
      /\ Claimed' \in [Consumers -> Nat]
      /\ Total(Claimed') = Total(Claimed) - Claimed[c] + Claimed'[c]
      /\ c \in Claimers /\ (c \in Claimers' <=> n # 0)
      /\ Claimed[c] = loc[c].want /\ Claimed'[c] = n
      /\ \A d \in Consumers \ {c} :
           /\ Claimed'[d] = Claimed[d]
           /\ d \in Claimers' <=> d \in Claimers
           /\ cpc'[d] = cpc[d] /\ loc'[d] = loc[d]
  BY <1>1, <1>3, <1>4, <1>5, <1>6, ClaimMoves DEF ClaimStates
<1>8. Claimed \in [Consumers -> Nat] /\ Total(Claimed) \in Nat /\ IsFiniteSet(Consumers)
  BY ClaimTypes, ProducerAssumption
<1>9. Counts'
  BY <1>0, <1>1, <1>4, <1>7, <1>8 DEF Counts, ClaimInv, CounterTypes
<1>10. PICK rank \in [Consumers -> 0 .. dequeueOptimisticCount] : InOrder(rank)
  BY DEF ClaimInv, ClaimsOrdered
<1>11. \A d \in Consumers : /\ HeadBefore(d, rank) \in Nat /\ HeadBefore(d, rank)' \in Int
                            /\ HeadBefore(d, rank)' <= HeadBefore(d, rank)
  <2> SUFFICES ASSUME NEW d \in Consumers
               PROVE  /\ HeadBefore(d, rank) \in Nat /\ HeadBefore(d, rank)' \in Int
                      /\ HeadBefore(d, rank)' <= HeadBefore(d, rank)
    OBVIOUS
  <2>1. rank \in [Consumers -> Nat] /\ HeadBefore(d, rank) \in Nat
    BY <1>10, OrderTypes
  <2> DEFINE F == Claimed
             G == Claimed'
  <2>2. F \in [Consumers -> Nat] /\ G \in [Consumers -> Nat] /\ \A y \in Consumers \ {c} : G[y] = F[y]
    BY <1>7, <1>8
  <2> HIDE DEF F, G
  <2>3. Total(Below(G, rank, d)) = Total(Below(F, rank, d)) + (IF rank[c] < rank[d] THEN G[c] - F[c] ELSE 0)
    BY <1>8, <2>1, <2>2, BelowChange
  <2>4. Total(Below(F, rank, d)) \in Nat
    BY <1>8, <2>1, <2>2, BelowType
  <2>5. G[c] - F[c] \in Int /\ G[c] <= F[c]
    BY <1>4, <1>7 DEF F, G
  <2>6. Total(Below(G, rank, d)) \in Int /\ Total(Below(G, rank, d)) <= Total(Below(F, rank, d))
    BY <2>2, <2>3, <2>4, <2>5
  <2> QED
    BY <1>0, <1>1, <2>1, <2>4, <2>6 DEF HeadBefore, F, G, CounterTypes
<1>12. \A d \in Claimers : d \in Consumers /\ loc[d].want \in Nat \ {0} /\ loc[d].n \in Nat
  BY <1>10, OrderTypes
<1>13. InOrder(rank)'
  <2> HIDE DEF HeadBefore
  <2>1. \A d \in Claimers' : /\ d \in Claimers
                             /\ (d # c => cpc'[d] = cpc[d] /\ loc'[d] = loc[d])
                             /\ (d = c => cpc'[d] # "recheck" /\ loc'[d].n = loc[d].n)
    BY <1>2, <1>3, <1>7 DEF Claimers
  <2>2. \A d \in Claimers' : loc'[d].n > 0 => HeadBefore(d, rank)' + loc'[d].n <= tailIndex'
    <3> SUFFICES ASSUME NEW d \in Claimers', loc'[d].n > 0
                 PROVE  HeadBefore(d, rank)' + loc'[d].n <= tailIndex'
      OBVIOUS
    <3>1. loc'[d].n = loc[d].n /\ d \in Claimers /\ loc[d].n \in Nat /\ d \in Consumers
      BY <1>12, <2>1
    <3>2. HeadBefore(d, rank) + loc[d].n <= tailIndex
      BY <1>10, <3>1 DEF InOrder
    <3> QED
      BY <1>0, <1>7, <1>11, <3>1, <3>2 DEF CounterTypes
  <2>3. \A d \in Claimers' :
           cpc'[d] = "recheck" =>
              \/ loc'[d].mine - loc'[d].over >= HeadBefore(d, rank)'
              \/ HeadBefore(d, rank)' + loc'[d].want <= tailIndex'
    <3> SUFFICES ASSUME NEW d \in Claimers', cpc'[d] = "recheck"
                 PROVE  \/ loc'[d].mine - loc'[d].over >= HeadBefore(d, rank)'
                        \/ HeadBefore(d, rank)' + loc'[d].want <= tailIndex'
      OBVIOUS
    <3>1. cpc[d] = "recheck" /\ loc'[d] = loc[d] /\ d \in Claimers /\ d \in Consumers
      BY <1>12, <2>1
    <3>2. \/ loc[d].mine - loc[d].over >= HeadBefore(d, rank)
          \/ HeadBefore(d, rank) + loc[d].want <= tailIndex
      BY <1>10, <3>1 DEF InOrder
    <3>3. loc[d].want \in Nat /\ loc[d].mine \in Int /\ loc[d].over \in Int
      BY <1>0, <3>1 DEF ClaimInv, ConsumerInv, CounterTypes
    <3> QED
      BY <1>0, <1>7, <1>11, <3>1, <3>2, <3>3 DEF CounterTypes
  <2>4. /\ \A d \in Claimers' : rank[d] < dequeueOptimisticCount'
        /\ \A d, e \in Claimers' : d # e => rank[d] # rank[e]
    BY <1>1, <1>10, <2>1 DEF InOrder
  <2> QED
    BY <2>2, <2>3, <2>4 DEF InOrder
<1> QED
  BY <1>1, <1>7, <1>9, <1>10, <1>13 DEF ClaimInv, ClaimsOrdered

\* The fetch_add on the head: for the claims behind, the head and the claims
\* before them stay; for those ahead, everything they claimed is there.
LEMMA HeadStep ==
    ASSUME ClaimInv, NEW c \in Consumers, Dequeue_Head(c)
    PROVE  ClaimInv'
<1> DEFINE n == loc[c].n
           l == [NoLocals EXCEPT !.idx = headIndex, !.last = headIndex + n]
<1>0. CounterTypes /\ ConsumerInv(c)
  BY DEF ClaimInv
<1>1. /\ ConsumerStep(c, "head", "index", l)
      /\ headIndex' = headIndex + n
      /\ dequeueOvercommit' = dequeueOvercommit /\ dequeueOptimisticCount' = dequeueOptimisticCount
  BY DEF Dequeue_Head
<1>2. cpc[c] = "head" /\ cpc'[c] = "index" /\ loc'[c] = l
  BY <1>0, <1>1, Moved
<1>3. DOMAIN l = Fields
  BY DEF Fields, NoLocals
<1> HIDE DEF l
<1>4. n = loc[c].want /\ n \in Nat \ {0}
  BY <1>0, <1>2 DEF ConsumerInv
<1>5. /\ dequeueOvercommit' \in Nat /\ dequeueOvercommit' >= dequeueOvercommit
      /\ headIndex \in Nat /\ headIndex' \in Nat /\ dequeueOptimisticCount' \in Nat
      /\ dequeueOptimisticCount' >= dequeueOptimisticCount
  BY <1>0, <1>1, <1>4 DEF CounterTypes
<1>6. ConsumerInv(c)'
  BY <1>2, <1>3 DEF ConsumerInv
<1>7. /\ CounterTypes' /\ \A d \in Consumers : ConsumerInv(d)'
      /\ tailIndex' = tailIndex
      /\ Claimed' \in [Consumers -> Nat]
      /\ Total(Claimed') = Total(Claimed) - Claimed[c] + Claimed'[c]
      /\ c \in Claimers /\ c \notin Claimers'
      /\ Claimed[c] = n /\ Claimed'[c] = 0
      /\ \A d \in Consumers \ {c} :
           /\ Claimed'[d] = Claimed[d]
           /\ d \in Claimers' <=> d \in Claimers
           /\ cpc'[d] = cpc[d] /\ loc'[d] = loc[d]
  BY <1>1, <1>4, <1>5, <1>6, ClaimMoves DEF ClaimStates
<1>8. Claimed \in [Consumers -> Nat] /\ Total(Claimed) \in Nat /\ IsFiniteSet(Consumers)
  BY ClaimTypes, ProducerAssumption
<1>9. PICK rank \in [Consumers -> 0 .. dequeueOptimisticCount] : InOrder(rank)
  BY DEF ClaimInv, ClaimsOrdered
<1>10. rank \in [Consumers -> Nat] /\ \A d \in Consumers : HeadBefore(d, rank) \in Nat
  BY <1>9, OrderTypes
<1>11. HeadBefore(c, rank) + n <= tailIndex
  BY <1>4, <1>7, <1>9 DEF InOrder
<1>12. headIndex <= HeadBefore(c, rank)
  <2>1. Total(Below(Claimed, rank, c)) \in Nat
    BY <1>8, <1>10, BelowType
  <2> QED
    BY <1>5, <2>1 DEF HeadBefore
<1>13. Counts'
  <2>1. headIndex' <= tailIndex'
    <3> HIDE DEF HeadBefore
    <3> QED
      BY <1>0, <1>1, <1>4, <1>5, <1>7, <1>10, <1>11, <1>12 DEF CounterTypes
  <2>2. dequeueOptimisticCount' - dequeueOvercommit' = headIndex' + Total(Claimed)'
    BY <1>0, <1>1, <1>4, <1>5, <1>7, <1>8 DEF Counts, ClaimInv, CounterTypes
  <2> QED
    BY <2>1, <2>2 DEF Counts
<1>14. ASSUME NEW d \in Consumers
       PROVE  HeadBefore(d, rank)' = HeadBefore(d, rank) + (IF rank[c] < rank[d] THEN 0 ELSE n)
  <2> DEFINE F == Claimed
             G == Claimed'
  <2>2. F \in [Consumers -> Nat] /\ G \in [Consumers -> Nat] /\ \A y \in Consumers \ {c} : G[y] = F[y]
    BY <1>7, <1>8
  <2> HIDE DEF F, G
  <2>3. Total(Below(G, rank, d)) = Total(Below(F, rank, d)) + (IF rank[c] < rank[d] THEN G[c] - F[c] ELSE 0)
    BY <1>8, <1>10, <2>2, BelowChange
  <2>4. Total(Below(F, rank, d)) \in Nat
    BY <1>8, <1>10, <2>2, BelowType
  <2>5. G[c] = 0 /\ F[c] = n
    BY <1>7 DEF F, G
  <2>6. headIndex' + Total(Below(G, rank, d)) =
           headIndex + Total(Below(F, rank, d)) + (IF rank[c] < rank[d] THEN 0 ELSE n)
    BY <1>1, <1>4, <1>5, <2>3, <2>4, <2>5
  <2> QED
    BY <2>6 DEF HeadBefore, F, G
<1>15. ASSUME NEW d \in Claimers', ~(rank[c] < rank[d])
       PROVE  HeadBefore(d, rank)' + loc[d].want <= tailIndex
  <2>1. d \in Claimers /\ d # c /\ d \in Consumers
    BY <1>7 DEF Claimers
  <2>2. rank[d] < rank[c]
    BY <1>7, <1>9, <1>10, <1>15, <2>1 DEF InOrder
  <2>3. Total(Below(Claimed, rank, d)) + Claimed[d] <= Total(Below(Claimed, rank, c))
    BY <1>8, <1>10, <2>1, <2>2, BelowAdds
  <2>4. Claimed[d] = loc[d].want /\ Claimed[d] \in Nat
    BY <1>8, <2>1 DEF Claimed
  <2>5. /\ Total(Below(Claimed, rank, d)) \in Nat
        /\ Total(Below(Claimed, rank, c)) \in Nat
    BY <1>8, <1>10, <2>1, BelowType
  <2>6. HeadBefore(d, rank) + loc[d].want <= HeadBefore(c, rank)
    BY <1>5, <2>3, <2>4, <2>5 DEF HeadBefore
  <2>7. HeadBefore(d, rank)' = HeadBefore(d, rank) + n
    BY <1>14, <1>15, <2>1
  <2> HIDE DEF HeadBefore
  <2>8. HeadBefore(d, rank) \in Nat /\ HeadBefore(c, rank) \in Nat /\ tailIndex \in Nat
    BY <1>0, <1>10, <2>1 DEF CounterTypes
  <2> QED
    BY <1>4, <1>11, <2>4, <2>6, <2>7, <2>8
<1>16. InOrder(rank)'
  <2> HIDE DEF HeadBefore
  <2>1. \A d \in Claimers' : /\ d \in Claimers /\ d \in Consumers
                             /\ cpc'[d] = cpc[d] /\ loc'[d] = loc[d]
                             /\ loc[d].want \in Nat /\ loc[d].n \in 0 .. loc[d].want
    BY <1>7 DEF Claimers, ClaimInv, ConsumerInv
  <2>2. \A d \in Claimers' : loc'[d].n > 0 => HeadBefore(d, rank)' + loc'[d].n <= tailIndex'
    <3> SUFFICES ASSUME NEW d \in Claimers', loc'[d].n > 0
                 PROVE  HeadBefore(d, rank)' + loc[d].n <= tailIndex
      BY <1>7, <2>1
    <3>1. HeadBefore(d, rank) + loc[d].n <= tailIndex
      BY <1>9, <2>1 DEF InOrder
    <3>2. /\ HeadBefore(d, rank) \in Nat /\ loc[d].want \in Nat /\ loc[d].n \in 0 .. loc[d].want
          /\ tailIndex \in Nat
          /\ HeadBefore(d, rank)' = HeadBefore(d, rank) + (IF rank[c] < rank[d] THEN 0 ELSE n)
      BY <1>0, <1>10, <1>14, <2>1 DEF CounterTypes
    <3>3. CASE rank[c] < rank[d]
      BY <3>1, <3>2, <3>3
    <3>4. CASE ~(rank[c] < rank[d])
      <4>1. HeadBefore(d, rank)' + loc[d].want <= tailIndex
        BY <1>15, <3>4
      <4> QED
        BY <1>4, <3>2, <3>4, <4>1
    <3> QED
      BY <3>3, <3>4
  <2>3. \A d \in Claimers' :
           cpc'[d] = "recheck" =>
              \/ loc'[d].mine - loc'[d].over >= HeadBefore(d, rank)'
              \/ HeadBefore(d, rank)' + loc'[d].want <= tailIndex'
    <3> SUFFICES ASSUME NEW d \in Claimers', cpc[d] = "recheck"
                 PROVE  \/ loc[d].mine - loc[d].over >= HeadBefore(d, rank)'
                        \/ HeadBefore(d, rank)' + loc[d].want <= tailIndex
      BY <1>7, <2>1
    <3>1. \/ loc[d].mine - loc[d].over >= HeadBefore(d, rank)
          \/ HeadBefore(d, rank) + loc[d].want <= tailIndex
      BY <1>9, <2>1 DEF InOrder
    <3>2. /\ HeadBefore(d, rank) \in Nat
          /\ HeadBefore(d, rank)' = HeadBefore(d, rank) + (IF rank[c] < rank[d] THEN 0 ELSE n)
      BY <1>10, <1>14, <2>1
    <3>3. CASE rank[c] < rank[d]
      BY <3>1, <3>2, <3>3
    <3>4. CASE ~(rank[c] < rank[d])
      BY <1>15, <3>4
    <3> QED
      BY <3>3, <3>4
  <2>4. /\ \A d \in Claimers' : rank[d] < dequeueOptimisticCount'
        /\ \A d, e \in Claimers' : d # e => rank[d] # rank[e]
    BY <1>1, <1>9, <2>1 DEF InOrder
  <2> QED
    BY <2>2, <2>3, <2>4 DEF InOrder
<1> QED
  BY <1>1, <1>7, <1>9, <1>13, <1>16 DEF ClaimInv, ClaimsOrdered

-----------------------------------------------------------------------------
(* The theorem                                                              *)

\* Nothing is claimed at first.
LEMMA ClaimInit == Init => ClaimInv
<1> SUFFICES ASSUME Init PROVE ClaimInv
  OBVIOUS
<1>1. /\ tailIndex = 0 /\ headIndex = 0 /\ dequeueOptimisticCount = 0 /\ dequeueOvercommit = 0
      /\ cpc = [c \in Consumers |-> "idle"] /\ loc = [c \in Consumers |-> NoLocals]
  BY DEF Init
<1>2. DOMAIN NoLocals = Fields
  BY DEF NoLocals, Fields
<1>3. CounterTypes /\ \A c \in Consumers : ConsumerInv(c)
  BY <1>1, <1>2 DEF CounterTypes, ConsumerInv
<1>4. Claimers = {} /\ Claimed \in [Consumers -> {0}]
  BY <1>1 DEF Claimers, Claimed
<1>5. Total(Claimed) = 0
  BY <1>4, TotalZero
<1>6. Counts
  BY <1>1, <1>5 DEF Counts
<1>7. ClaimsOrdered
  <2> DEFINE rank == [c \in Consumers |-> 0]
  <2>1. rank \in [Consumers -> 0 .. dequeueOptimisticCount]
    BY <1>1
  <2>2. InOrder(rank)
    BY <1>4 DEF InOrder
  <2> QED
    BY <2>1, <2>2 DEF ClaimsOrdered
<1> QED
  BY <1>3, <1>6, <1>7 DEF ClaimInv

\* Every step keeps the invariant.
LEMMA ClaimNext == ClaimInv /\ NobodyOversleeps /\ [Next]_vars => ClaimInv'
<1> SUFFICES ASSUME ClaimInv, NobodyOversleeps, [Next]_vars PROVE ClaimInv'
  OBVIOUS
<1>1. CASE Enqueue \/ Destroy
  BY <1>1, ProducerStep
<1>2. ASSUME NEW c \in Consumers, Dequeue(c) PROVE ClaimInv'
  <2>1. CASE Dequeue_Tail(c) \/ Dequeue_Over(c) \/ Dequeue_Count(c)
    BY <2>1, LoadSteps
  <2>2. CASE Dequeue_Claim(c)
    BY <2>2, ClaimStep
  <2>3. CASE Dequeue_Recheck(c)
    BY <2>3, RecheckStep
  <2>4. CASE Dequeue_Give(c)
    BY <2>4, GiveStep
  <2>5. CASE Dequeue_Head(c)
    BY <2>5, HeadStep
  <2>6. CASE GetBlockIndexIndexForIndex(c) \/ TakeElements(c)
    BY <2>6, TakeSteps
  <2> QED
    BY <1>2, <2>1, <2>2, <2>3, <2>4, <2>5, <2>6 DEF Dequeue, ClaimElements
<1>3. CASE UNCHANGED vars
  <2>1. /\ tailIndex' = tailIndex /\ headIndex' = headIndex /\ cpc' = cpc /\ loc' = loc
        /\ dequeueOptimisticCount' = dequeueOptimisticCount
        /\ dequeueOvercommit' = dequeueOvercommit
    BY <1>3 DEF vars, prodVars, consVars
  <2>2. CounterTypes' /\ tailIndex' >= tailIndex
    BY <2>1 DEF ClaimInv, CounterTypes
  <2>3. \A d \in Consumers : ConsumerInv(d)'
    BY <2>1, Unmoved DEF ClaimInv, CounterTypes
  <2>4. \A d \in Consumers : d \in Claimers' <=> d \in Claimers
    BY <2>1 DEF Claimers
  <2> QED
    BY <2>1, <2>2, <2>3, <2>4, ClaimsStay
<1> QED
  BY <1>1, <1>2, <1>3 DEF Next

\* Of the consumers that found something, one has the last claim.
LEMMA LastClaim ==
    ASSUME ClaimInv, NEW rank \in [Consumers -> 0 .. dequeueOptimisticCount], InOrder(rank),
           NEW F \in SUBSET Claimers, F # {}
    PROVE  \E c \in F : \A d \in F \ {c} : rank[d] < rank[c]
<1> DEFINE opt  == dequeueOptimisticCount
           Gaps == {k \in Nat : \E c \in F : k = opt - rank[c]}
<1>1. opt \in Nat /\ \A c \in F : c \in Consumers /\ rank[c] \in 0 .. opt
  BY DEF ClaimInv, CounterTypes, Claimers
<1>2. \A c \in F : opt - rank[c] \in Gaps
  BY <1>1
<1>3. Gaps \subseteq Nat /\ Gaps # {}
  BY <1>2
<1> HIDE DEF Gaps
<1>4. PICK k \in Gaps : \A j \in Gaps : ~(<<j, k>> \in OpToRel(<, Nat))
  BY <1>3, NatLessThanWellFounded, WFMin
<1>5. \A j \in Gaps : ~(j < k)
  BY <1>3, <1>4 DEF OpToRel
<1>6. PICK c \in F : k = opt - rank[c]
  BY DEF Gaps
<1>7. \A d \in F : rank[d] <= rank[c]
  BY <1>1, <1>2, <1>5, <1>6
<1>8. \A d \in F \ {c} : rank[d] # rank[c]
  BY <1>6 DEF InOrder
<1> QED
  BY <1>1, <1>6, <1>7, <1>8

\* The invariant implies the property: what the last claim that was fulfilled
\* found lies behind all the others.
LEMMA ClaimsFit == ClaimInv => HeadNeverPassesTail
<1> SUFFICES ASSUME ClaimInv PROVE headIndex + Total(Found) <= tailIndex
  BY DEF HeadNeverPassesTail, ClaimInv, Counts
<1>1. PICK rank \in [Consumers -> 0 .. dequeueOptimisticCount] : InOrder(rank)
  BY DEF ClaimInv, ClaimsOrdered
<1>2. /\ Claimed \in [Consumers -> Nat] /\ Found \in [Consumers -> Nat]
      /\ \A c \in Consumers : Found[c] <= Claimed[c]
      /\ Total(Found) \in Nat /\ IsFiniteSet(Consumers)
  BY ClaimTypes, ProducerAssumption
<1>3. rank \in [Consumers -> Nat] /\ \A d \in Claimers : d \in Consumers /\ loc[d].n \in Nat
  BY <1>1, OrderTypes
<1>4. headIndex \in Nat /\ tailIndex \in Nat /\ headIndex <= tailIndex
  BY DEF ClaimInv, CounterTypes, Counts
<1> DEFINE F == {c \in Claimers : loc[c].n > 0}
<1>5. \A c \in Consumers : /\ c \notin F => Found[c] = 0
                           /\ c \in F => Found[c] = loc[c].n
  BY <1>3 DEF Found
<1>8. F \in SUBSET Claimers /\ \A c \in F : loc[c].n > 0
  OBVIOUS
<1> HIDE DEF F
<1>6. CASE F = {}
  <2>1. Found \in [Consumers -> {0}]
    BY <1>2, <1>5, <1>6
  <2>2. Total(Found) = 0
    BY <2>1, TotalZero
  <2> QED
    BY <1>4, <2>2
<1>7. CASE F # {}
  <2>2. PICK c \in F : \A d \in F \ {c} : rank[d] < rank[c]
    BY <1>1, <1>7, <1>8, LastClaim
  <2>3. c \in Consumers /\ \A d \in Consumers \ {c} : Found[d] = 0 \/ rank[d] < rank[c]
    BY <1>3, <1>5, <1>8, <2>2
  <2>4. Total(Found) <= Total(Below(Claimed, rank, c)) + Found[c]
    BY <1>2, <1>3, <2>3, BelowBounds
  <2>5. HeadBefore(c, rank) + loc[c].n <= tailIndex
    BY <1>1, <1>8, <2>2 DEF InOrder
  <2>6. Found[c] = loc[c].n /\ Found[c] \in Nat
    BY <1>2, <1>5, <2>2, <2>3
  <2>7. Total(Below(Claimed, rank, c)) \in Nat
    BY <1>2, <1>3, <2>3, BelowType
  <2> QED
    BY <1>2, <1>4, <2>4, <2>5, <2>6, <2>7 DEF HeadBefore
<1> QED
  BY <1>6, <1>7

\* "This will never exceed tail" (dequeue): for any finite set of consumers,
\* any batch and any sizes, the claims that turned out to exist fit between
\* head and tail, and the optimistic count less the overcommit is the head
\* and the open claims, as long as nobody sleeps through 2^63 claims.
THEOREM ClaimsNeverPassTail == Spec /\ []NobodyOversleeps => []HeadNeverPassesTail
<1>1. Init => ClaimInv
  BY ClaimInit
<1>2. ClaimInv /\ NobodyOversleeps /\ [Next]_vars => ClaimInv'
  BY ClaimNext
<1>3. ClaimInv => HeadNeverPassesTail
  BY ClaimsFit
<1> QED
  BY <1>1, <1>2, <1>3, PTL DEF Spec

-----------------------------------------------------------------------------
(* The blocks and the block index.  A block has a number in the order of    *)
(* the blocks' use: Base(k) is the first element of number k.  Like rank,   *)
(* the following are not variables of the code, and the invariant says that *)
(* there are such: n blocks have been used; blk[k] is or was the block with *)
(* number k; number k is, in the index h, at k - org[h] modulo its size;    *)
(* and an index h that has been replaced got the numbers below lim[h].      *)

Base(k) == k * BlockSize

Working == {"index", "cur", "slot", "read", "empty", "null", "free"}
Leaving == {"null", "free"}

\* The elements a consumer is to dequeue, those of them it has not reported
\* empty, and those it has not read.
Mine(c)   == IF cpc[c] \in Working THEN loc[c].idx .. loc[c].last - 1 ELSE {}
Todo(c)   == {i \in Mine(c) : cpc[c] \in Leaving => i >= EndIndex(c)}
Unread(c) == {i \in Mine(c) : cpc[c] \in {"empty", "null", "free"} => i >= EndIndex(c)}

Done(i)   == i < headIndex /\ \A c \in Consumers : i \notin Todo(c)
Taken(i)  == i < headIndex /\ \A c \in Consumers : i \notin Unread(c)
DoneIn(k) == {o \in Offsets : Done(Base(k) + o)}
Full(k)   == \A o \in Offsets : Done(Base(k) + o)

\* Consumer c is at the block with number k.
In(c, k) == Base(k) <= loc[c].idx /\ loc[c].idx < Base(k) + BlockSize
LeftAt(k, places) == \E c \in Consumers : cpc[c] \in places /\ In(c, k)

\* The numbers whose block is in use, those whose entries are, and those whose
\* bases are still in the index.
Used(n, k, places) ==
    /\ k \in 0 .. n - 1
    /\ isExplicit => k >= n - Len(ring)
    /\ ~isExplicit => ~Full(k) \/ LeftAt(k, places)
InUse(n, k) == Used(n, k, Leaving)
Held(n, k)  == Used(n, k, {"null"})
Kept(n, m)  == \E k \in 0 .. m : Held(n, k)

Newest == Len(headers)
Pos(h, k, org) == (k - org[h]) % SizeOf(headers[h])
Id(h, k, org)  == headers[h].slot[Pos(h, k, org)]

\* The numbers whose entries have been written, in all and in index h.
Written(n) == IF ppc = "entry" THEN n - 1 ELSE n
Limit(h, n, lim) == IF h = Newest THEN Written(n) ELSE lim[h]

\* An entry that has a base and, after an enqueue that failed, no block.
Spare(n, org) == entries[Id(Newest, n, org)] = [base |-> Base(n), block |-> NoBlock]

TailInv(n) ==
    /\ ppc = "idle" => Base(n) - BlockSize < tailIndex /\ tailIndex <= Base(n)
    /\ ppc = "tail" => Base(n) - BlockSize <= tailIndex /\ tailIndex < Base(n)
    /\ ppc \in {"entry", "front"} => isExplicit /\ n > 0 /\ tailIndex = Base(n - 1)
    /\ ppc = "block" => ~isExplicit /\ tailIndex = Base(n)

\* The current slot a consumer has read is that of a number not below its own.
CurInv(c, n, org, lim) ==
    \E m \in Nat :
        /\ loc[c].cur = Pos(loc[c].hdr, m, org)
        /\ loc[c].idx < Base(m) + BlockSize
        /\ \/ m < Limit(loc[c].hdr, n, lim)
           \/ /\ m = n /\ loc[c].hdr = Newest /\ ~isExplicit
              /\ tailIndex = Base(n) /\ Spare(n, org)

MineInv(c) ==
    cpc[c] \in Working =>
        /\ loc[c].idx \in Nat /\ loc[c].last \in Nat
        /\ loc[c].idx < loc[c].last /\ loc[c].last <= headIndex
        /\ \A d \in Consumers \ {c} : Mine(c) \cap Mine(d) = {}

\* A consumer's place in the index, and the block it has found.
WayInv(c, n, blk, org, lim) ==
    /\ cpc[c] \in Working \ {"index"} =>
         /\ loc[c].hdr \in 1 .. Newest
         /\ loc[c].hdr < Newest => loc[c].last <= Base(lim[loc[c].hdr])
    /\ cpc[c] = "slot" => CurInv(c, n, org, lim)
    /\ cpc[c] \in {"read", "empty", "null", "free"} =>
         \A k \in Nat : In(c, k) => loc[c].slot = Pos(loc[c].hdr, k, org)
    /\ cpc[c] \in {"empty", "null", "free"} =>
         \A k \in Nat : In(c, k) => loc[c].blk = blk[k]

\* Whoever empties a block last gives it back.
LeaveInv(c) ==
    cpc[c] \in Leaving =>
        /\ ~isExplicit
        /\ \A k \in Nat : In(c, k) =>
             Full(k) /\ \A d \in Consumers \ {c} : cpc[d] \in Leaving => ~In(d, k)

SlotMaps == UNION {[0 .. s - 1 -> Nat] : s \in Nat \ {0}}
HeaderSet == [cur : Int, slot : SlotMaps]
EntrySet == [base : Int, block : Nat]
GoodHeader(h) ==
    /\ \A i \in DOMAIN h.slot : h.slot[i] \in 1 .. Len(entries)
    /\ \A i, j \in DOMAIN h.slot : h.slot[i] = h.slot[j] => i = j

BlockTypes ==
    /\ isExplicit \in BOOLEAN
    /\ ppc \in {"idle", "entry", "front", "block", "tail"}
    /\ ring \in Seq(Blocks)
    /\ elements \in [Blocks -> [Offsets -> Int]]
    /\ emptyFlags \in [Blocks -> SUBSET Offsets]
    /\ elementsCompletelyDequeued \in [Blocks -> Nat]
    /\ home \in [Blocks -> {"pool", "list", "heap", "used"}]
    /\ entries \in Seq(EntrySet)
    /\ headers \in Seq(HeaderSet) /\ Newest # 0

\* The indexes that have been replaced.
OldInv(n, org, lim) ==
    /\ \A h \in 1 .. Newest - 1 :
         lim[h] <= Written(n) /\ headers[h].cur = Pos(h, lim[h] - 1, org)
    /\ isExplicit =>
         \A h \in 1 .. Newest - 1 : \A i \in DOMAIN headers[h].slot : \A j \in DOMAIN Header.slot :
             headers[h].slot[i] # Header.slot[j]
    /\ ~isExplicit =>
         \A h \in 1 .. Newest - 1 : \A m \in 0 .. lim[h] - 1 :
             Kept(n, m) => Id(h, m, org) = Id(Newest, m, org)

\* The one in use.
HeaderInv(n, org) ==
    /\ ppc \in {"idle", "tail"} /\ (~isExplicit \/ n > 0) => Header.cur = Pos(Newest, n - 1, org)
    /\ ppc \in {"entry", "front"} /\ n > 1 => Header.cur = Pos(Newest, n - 2, org)
    /\ ppc = "block" => Header.cur = Pos(Newest, n, org)
    /\ \A k \in Nat : Held(n, k) => (IF ppc = "block" THEN n + 1 ELSE n) - k <= SizeOf(Header)
    /\ isExplicit =>
         /\ pr_blockIndexSlotsUsed = Len(ring)
         /\ Len(ring) <= SizeOf(Header) /\ Len(ring) <= n
         /\ pr_blockIndexFront = Pos(Newest, IF ppc \in {"entry", "front"} THEN n - 1 ELSE n, org)

EntriesInv(n, blk, org, lim) ==
    /\ \A h \in 1 .. Newest : GoodHeader(headers[h])
    /\ \A h \in 1 .. Newest : \A m \in 0 .. Limit(h, n, lim) - 1 :
         /\ Kept(n, m) => entries[Id(h, m, org)].base = Base(m)
         /\ Held(n, m) => entries[Id(h, m, org)].block = blk[m]
    /\ \A e \in 1 .. Len(entries) : entries[e].base = NoBase => entries[e].block = NoBlock
    /\ ppc = "block" => Spare(n, org)

\* What block b holds as number k.
Built == IF ppc = "tail" THEN tailIndex + 1 ELSE tailIndex
Content(i) == IF i < Built /\ ~Taken(i) THEN i ELSE Gone
Holding(k, b) ==
    /\ b \in Blocks /\ home[b] = "used"
    /\ isExplicit => emptyFlags[b] = DoneIn(k)
    /\ ~isExplicit /\ ~Full(k) => elementsCompletelyDequeued[b] = Cardinality(DoneIn(k))
    /\ \A o \in Offsets : elements[b][o] = Content(Base(k) + o)

Vacant(b) == \A o \in Offsets : elements[b][o] = Gone

BlocksInv(n, blk) ==
    /\ \A k \in Nat : InUse(n, k) => Holding(k, blk[k])
    /\ \A j, k \in Nat : InUse(n, j) /\ InUse(n, k) /\ blk[j] = blk[k] => j = k
    /\ \A b \in Blocks : home[b] = "used" => \E k \in Nat : InUse(n, k) /\ blk[k] = b
    /\ \A b \in Blocks : home[b] # "used" => Vacant(b)

RingInv(n, blk) ==
    /\ isExplicit => /\ \A j \in 1 .. Len(ring) : ring[j] = blk[n - Len(ring) + j - 1]
                     /\ \A k \in Nat : k < n - Len(ring) => Full(k)
    /\ ~isExplicit => ring = IF n = 0 THEN <<>> ELSE <<blk[n - 1]>>

Layout(n, blk, org, lim) ==
    /\ BlockTypes /\ TailInv(n)
    /\ \A c \in Consumers : MineInv(c) /\ WayInv(c, n, blk, org, lim) /\ LeaveInv(c)
    /\ OldInv(n, org, lim) /\ HeaderInv(n, org) /\ EntriesInv(n, blk, org, lim)
    /\ BlocksInv(n, blk) /\ RingInv(n, blk)

Ghosts(n, blk, org, lim) ==
    n \in Nat /\ blk \in [Nat -> Nat] /\ org \in [Nat -> Int] /\ lim \in [Nat -> Nat]

BlockInv ==
    /\ alive => \E n, blk, org, lim : Ghosts(n, blk, org, lim) /\ Layout(n, blk, org, lim)
    /\ ~alive => \A c \in Consumers : cpc[c] = "idle"

-----------------------------------------------------------------------------
(* Arithmetic.                                                              *)

LEMMA BlockSizeIs == BlockSize \in Nat /\ BlockSize > 1 /\ Offsets = 0 .. BlockSize - 1
BY ProducerAssumption DEF Offsets

LEMMA BaseIs ==
    ASSUME NEW k \in Int
    PROVE  Base(k) \in Int /\ Base(k + 1) = Base(k) + BlockSize /\ Base(k - 1) = Base(k) - BlockSize
BY BlockSizeIs DEF Base

LEMMA BaseOfNat ==
    ASSUME NEW k \in Nat
    PROVE  Base(k) \in Nat
BY BlockSizeIs DEF Base

\* Blocks come one after the other.
LEMMA BaseOrder ==
    ASSUME NEW j \in Int, NEW k \in Int, j < k
    PROVE  Base(j) + BlockSize <= Base(k)
<1>1. PICK d \in Nat : k = j + 1 + d
  BY k - j - 1 \in Nat
<1>2. d * BlockSize \in Nat
  BY BlockSizeIs
<1>3. k * BlockSize = j * BlockSize + BlockSize + d * BlockSize
  BY <1>1, BlockSizeIs
<1>4. j * BlockSize \in Int
  BY BlockSizeIs
<1> QED
  BY <1>2, <1>3, <1>4, BlockSizeIs DEF Base

\* An element's block and its slot there.
LEMMA OffsetIs ==
    ASSUME NEW k \in Nat, NEW i \in Nat, Base(k) <= i, i < Base(k) + BlockSize
    PROVE  /\ i % BlockSize = i - Base(k) /\ BlockBase(i) = Base(k)
           /\ i - Base(k) \in Offsets
<1>0. Base(k) \in Int /\ BlockSize \in Nat /\ Offsets = 0 .. BlockSize - 1
  <2>1. k \in Int
    OBVIOUS
  <2> QED
    BY <2>1, BaseIs, BlockSizeIs
<1>1. PICK r \in Nat : i = Base(k) + r /\ r < BlockSize
  <2>1. i - Base(k) \in Nat /\ i - Base(k) < BlockSize /\ i = Base(k) + (i - Base(k))
    BY <1>0
  <2> QED
    BY <2>1
<1>2. (BlockSize * k + r) % BlockSize = r
  BY <1>1, BlockSizeIs
<1>3. BlockSize * k = Base(k)
  BY BlockSizeIs DEF Base
<1>4. i % BlockSize = r
  BY <1>1, <1>2, <1>3
<1>5. r = i - Base(k) /\ i - r = Base(k) /\ r \in Offsets
  BY ONLY <1>0, <1>1, i \in Nat
<1>6. BlockBase(i) = i - r
  BY <1>4 DEF BlockBase
<1> QED
  BY ONLY <1>4, <1>5, <1>6

LEMMA NumberOf ==
    ASSUME NEW i \in Nat
    PROVE  \E k \in Nat : Base(k) <= i /\ i < Base(k) + BlockSize
<1>1. BlockSize \in Nat \ {0}
  BY BlockSizeIs
<1>2. i \div BlockSize \in Nat /\ i % BlockSize \in 0 .. BlockSize - 1
      /\ i = BlockSize * (i \div BlockSize) + (i % BlockSize)
  BY <1>1
<1>3. PICK k \in Nat : k = i \div BlockSize
  BY <1>2
<1>4. PICK r \in Nat : r = i % BlockSize
  BY <1>2
<1>5. r \in 0 .. BlockSize - 1 /\ i = BlockSize * k + r
  BY ONLY <1>2, <1>3, <1>4
<1>6. BlockSize * k = k * BlockSize /\ k * BlockSize \in Nat
  BY <1>1
<1> QED
  BY ONLY <1>1, <1>5, <1>6 DEF Base

\* An element is in one block.
LEMMA OneNumber ==
    ASSUME NEW i \in Int, NEW j \in Int, NEW k \in Int,
           Base(j) <= i, i < Base(j) + BlockSize, Base(k) <= i, i < Base(k) + BlockSize
    PROVE  j = k
<1>0. Base(j) \in Int /\ Base(k) \in Int /\ BlockSize \in Nat
  BY BaseIs, BlockSizeIs
<1>1. ~(j < k) /\ ~(k < j)
  <2>1. ASSUME j < k PROVE FALSE
    <3>1. Base(j) + BlockSize <= Base(k)
      BY <2>1, BaseOrder
    <3> QED
      BY <1>0, <3>1
  <2>2. ASSUME k < j PROVE FALSE
    <3>1. Base(k) + BlockSize <= Base(j)
      BY <2>2, BaseOrder
    <3> QED
      BY <1>0, <3>1
  <2> QED
    BY <2>1, <2>2
<1> QED
  BY <1>1

\* How many blocks two bases are apart.
LEMMA Apart ==
    ASSUME NEW j \in Int, NEW k \in Int
    PROVE  (Base(k) - Base(j)) \div BlockSize = k - j
<1>1. PICK d \in Int : d = k - j
  OBVIOUS
<1>2. Base(k) - Base(j) = BlockSize * d
  BY <1>1, BlockSizeIs DEF Base
<1>3. (BlockSize * d) \div BlockSize = d
  BY BlockSizeIs
<1> QED
  BY <1>1, <1>2, <1>3

LEMMA ModIs ==
    ASSUME NEW a \in Int, NEW s \in Nat \ {0}
    PROVE  a % s \in 0 .. s - 1 /\ \E q \in Int : a = s * q + (a % s)
<1>1. a \div s \in Int /\ a % s \in 0 .. s - 1 /\ a = s * (a \div s) + (a % s)
  OBVIOUS
<1> QED
  BY <1>1

LEMMA ModOf ==
    ASSUME NEW q \in Int, NEW r \in Nat, NEW s \in Nat \ {0}, r < s
    PROVE  (s * q + r) % s = r
OBVIOUS

\* Moving on from a slot, however often the count went round.
LEMMA ModAdds ==
    ASSUME NEW a \in Int, NEW b \in Int, NEW s \in Nat \ {0}
    PROVE  ((a % s) + b) % s = (a + b) % s
<1>1. PICK q \in Int : a = s * q + (a % s)
  BY ModIs
<1>2. PICK r \in Nat : r = a % s
  BY ModIs
<1>3. PICK x \in Int : x = r + b
  BY <1>2
<1>4. PICK p \in Int : x = s * p + (x % s)
  BY ModIs
<1>t. PICK t \in Nat : t = x % s /\ t < s
  BY ModIs
<1>5. a + b = s * (q + p) + t
  <2>1. a = s * q + r /\ r + b = s * p + t
    BY <1>1, <1>2, <1>3, <1>4, <1>t
  <2>2. s * (q + p) = s * q + s * p
    BY <1>1, <1>4
  <2>3. s * q \in Int /\ s * p \in Int
    BY <1>1, <1>4
  <2> QED
    BY ONLY <2>1, <2>2, <2>3, r \in Nat, t \in Nat, a \in Int, b \in Int
<1>6. (s * (q + p) + t) % s = t
  <2>1. q + p \in Int /\ t \in Nat /\ t < s
    BY <1>1, <1>4, <1>t
  <2> QED
    BY ONLY <2>1, s \in Nat \ {0}, ModOf
<1> QED
  BY <1>2, <1>3, <1>t, <1>5, <1>6

\* Two numbers less than one round apart have different slots.
LEMMA ModDiffers ==
    ASSUME NEW a \in Int, NEW b \in Int, NEW s \in Nat \ {0}, a < b, b - a < s
    PROVE  a % s # b % s
<1> SUFFICES ASSUME a % s = b % s PROVE FALSE
  OBVIOUS
<1>1. PICK q \in Int : a = s * q + (a % s)
  BY ModIs
<1>2. PICK p \in Int : b = s * p + (b % s)
  BY ModIs
<1>3. PICK r \in Int : a = s * q + r /\ b = s * p + r
  BY <1>1, <1>2, ModIs
<1>4. b - a = s * (p - q)
  BY <1>3
<1>5. p - q <= 0 \/ p - q >= 1
  BY <1>1, <1>2
<1>6. p - q <= 0 => s * (p - q) <= 0
  BY <1>1, <1>2
<1>7. p - q >= 1 => s * (p - q) >= s
  BY <1>1, <1>2
<1> QED
  BY <1>4, <1>5, <1>6, <1>7

-----------------------------------------------------------------------------
(* Places in an index and places in a block.                                *)

LEMMA HeaderIs ==
    ASSUME BlockTypes, NEW h \in 1 .. Newest
    PROVE  /\ SizeOf(headers[h]) \in Nat \ {0}
           /\ DOMAIN headers[h].slot = 0 .. SizeOf(headers[h]) - 1
           /\ headers[h] \in HeaderSet
<1>1. headers[h] \in HeaderSet
  BY DEF BlockTypes, Newest
<1>2. PICK s \in Nat \ {0} : headers[h].slot \in [0 .. s - 1 -> Nat]
  BY <1>1 DEF SlotMaps, HeaderSet
<1>3. Cardinality(0 .. s - 1) = s
  BY FS_Interval
<1> QED
  BY <1>1, <1>2, <1>3 DEF SizeOf

LEMMA NewestIs ==
    ASSUME BlockTypes
    PROVE  Newest \in Nat \ {0} /\ Newest \in 1 .. Newest /\ Header = headers[Newest]
BY DEF BlockTypes, Newest, Header

LEMMA PosIs ==
    ASSUME BlockTypes, NEW h \in 1 .. Newest, NEW org \in [Nat -> Int], NEW k \in Int
    PROVE  /\ Pos(h, k, org) \in DOMAIN headers[h].slot
           /\ Pos(h, k, org) \in 0 .. SizeOf(headers[h]) - 1
           /\ \A b \in Int : (Pos(h, k, org) + b) % SizeOf(headers[h]) = Pos(h, k + b, org)
<1>1. SizeOf(headers[h]) \in Nat \ {0} /\ DOMAIN headers[h].slot = 0 .. SizeOf(headers[h]) - 1
  BY HeaderIs
<1>2. PICK s \in Nat \ {0} : s = SizeOf(headers[h])
  BY <1>1
<1>3. Newest \in Nat
  BY DEF BlockTypes, Newest
<1>4. PICK a \in Int : a = k - org[h]
  BY <1>3
<1>5. a % s \in 0 .. s - 1 /\ \A b \in Int : ((a % s) + b) % s = (a + b) % s
  BY ModIs, ModAdds
<1>6. org[h] \in Int
  BY <1>3
<1>7. ASSUME NEW b \in Int PROVE a + b = (k + b) - org[h]
  BY <1>4, <1>6
<1> QED
  BY <1>1, <1>2, <1>4, <1>5, <1>7 DEF Pos

LEMMA PosDiffers ==
    ASSUME BlockTypes, NEW h \in 1 .. Newest, NEW org \in [Nat -> Int],
           NEW j \in Int, NEW k \in Int, j < k, k - j < SizeOf(headers[h])
    PROVE  Pos(h, j, org) # Pos(h, k, org)
<1>1. SizeOf(headers[h]) \in Nat \ {0}
  BY HeaderIs
<1>2. PICK s \in Nat \ {0} : s = SizeOf(headers[h])
  BY <1>1
<1>3. Newest \in Nat
  BY DEF BlockTypes, Newest
<1>4. org[h] \in Int
  BY <1>3
<1>5. PICK a \in Int : a = j - org[h]
  BY <1>4
<1>6. PICK b \in Int : b = k - org[h]
  BY <1>4
<1>7. a < b /\ b - a < s
  BY <1>2, <1>4, <1>5, <1>6
<1>8. a % s # b % s
  BY <1>7, ModDiffers
<1> QED
  BY <1>2, <1>5, <1>6, <1>8 DEF Pos

LEMMA IdIs ==
    ASSUME BlockTypes, NEW h \in 1 .. Newest, GoodHeader(headers[h]),
           NEW org \in [Nat -> Int], NEW k \in Int
    PROVE  /\ Id(h, k, org) \in 1 .. Len(entries)
           /\ \A j \in Int : j < k /\ k - j < SizeOf(headers[h]) => Id(h, j, org) # Id(h, k, org)
<1>1. Pos(h, k, org) \in DOMAIN headers[h].slot
  BY PosIs
<1>2. ASSUME NEW j \in Int, j < k, k - j < SizeOf(headers[h]) PROVE Id(h, j, org) # Id(h, k, org)
  <2>1. Pos(h, j, org) \in DOMAIN headers[h].slot
    BY PosIs
  <2>2. Pos(h, j, org) # Pos(h, k, org)
    BY <1>2, PosDiffers
  <2> QED
    BY <1>1, <2>1, <2>2 DEF Id, GoodHeader
<1> QED
  BY <1>1, <1>2 DEF Id, GoodHeader

\* A consumer is at one block.
LEMMA PlaceExists ==
    ASSUME NEW c \in Consumers, MineInv(c), cpc[c] \in Working
    PROVE  \E k \in Nat : In(c, k)
BY NumberOf DEF MineInv, In

LEMMA PlaceUnique ==
    ASSUME NEW c \in Consumers, MineInv(c), cpc[c] \in Working, NEW j \in Nat, NEW k \in Nat,
           In(c, j), In(c, k)
    PROVE  j = k
<1>1. loc[c].idx \in Int /\ j \in Int /\ k \in Int
  BY DEF MineInv
<1> QED
  BY <1>1, OneNumber DEF In

\* What it reads and reports there.
LEMMA PlaceIs ==
    ASSUME NEW c \in Consumers, MineInv(c), cpc[c] \in Working, NEW k \in Nat, In(c, k)
    PROVE  /\ BlockBase(loc[c].idx) = Base(k)
           /\ EndIndex(c) = IF loc[c].last <= Base(k) + BlockSize THEN loc[c].last
                            ELSE Base(k) + BlockSize
           /\ EndIndex(c) \in Nat /\ loc[c].idx < EndIndex(c)
           /\ SlotsOf(c) \subseteq Offsets
           /\ \A o \in Offsets : o \in SlotsOf(c) <=> Base(k) + o \in InBlock(c)
           /\ \A i \in InBlock(c) : i \in Nat /\ i % BlockSize = i - Base(k) /\ i - Base(k) \in Offsets
<1>1. /\ loc[c].idx \in Nat /\ loc[c].last \in Nat /\ loc[c].idx < loc[c].last
      /\ Base(k) <= loc[c].idx /\ loc[c].idx < Base(k) + BlockSize
  BY DEF MineInv, In
<1>2. Base(k) \in Nat /\ BlockSize \in Nat /\ Offsets = 0 .. BlockSize - 1
  BY BaseOfNat, BlockSizeIs
<1>3. BlockBase(loc[c].idx) = Base(k)
  BY <1>1, OffsetIs
<1>4. EndIndex(c) = IF loc[c].last <= Base(k) + BlockSize THEN loc[c].last ELSE Base(k) + BlockSize
  <2>1. loc[c].last \in Int /\ Base(k) + BlockSize \in Int
    BY <1>1, <1>2
  <2> QED
    BY <1>3, <2>1, MinOfTwo DEF EndIndex
<1>5. EndIndex(c) \in Nat /\ loc[c].idx < EndIndex(c) /\ EndIndex(c) <= Base(k) + BlockSize
  BY <1>1, <1>2, <1>4
<1>6. \A i \in InBlock(c) : i \in Nat /\ Base(k) <= i /\ i < Base(k) + BlockSize
  BY <1>1, <1>2, <1>5 DEF InBlock
<1>7. \A i \in InBlock(c) : i \in Nat /\ i % BlockSize = i - Base(k) /\ i - Base(k) \in Offsets
  BY <1>6, OffsetIs
<1>8. SlotsOf(c) = {i - Base(k) : i \in InBlock(c)}
  BY <1>7 DEF SlotsOf
<1>9. SlotsOf(c) \subseteq Offsets
  BY <1>7, <1>8
<1>10. \A o \in Offsets : o \in SlotsOf(c) <=> Base(k) + o \in InBlock(c)
  <2> SUFFICES ASSUME NEW o \in Offsets PROVE o \in SlotsOf(c) <=> Base(k) + o \in InBlock(c)
    OBVIOUS
  <2>1. ASSUME o \in SlotsOf(c) PROVE Base(k) + o \in InBlock(c)
    <3>1. PICK i \in InBlock(c) : o = i - Base(k)
      BY <1>8, <2>1
    <3>2. Base(k) + o = i
      BY <1>2, <1>6, <3>1
    <3> QED
      BY <3>1, <3>2
  <2>2. ASSUME Base(k) + o \in InBlock(c) PROVE o \in SlotsOf(c)
    <3>1. o = (Base(k) + o) - Base(k)
      BY <1>2
    <3> QED
      BY <1>8, <2>2, <3>1
  <2> QED
    BY <2>1, <2>2
<1> QED
  BY <1>3, <1>4, <1>5, <1>7, <1>9, <1>10

\* The tail is in or behind the last block.
LEMMA TailIs ==
    ASSUME ClaimInv, NEW n \in Nat, BlockTypes, TailInv(n)
    PROVE  /\ headIndex \in Nat /\ tailIndex \in Nat /\ headIndex <= tailIndex
           /\ tailIndex <= Base(n) /\ Base(n) \in Nat
           /\ ppc \in {"entry", "front"} => n - 1 \in Nat /\ tailIndex = Base(n - 1)
           /\ Written(n) \in Nat /\ tailIndex <= Base(Written(n))
<1>1. headIndex \in Nat /\ tailIndex \in Nat /\ headIndex <= tailIndex
  BY DEF ClaimInv, CounterTypes, Counts
<1>2. Base(n) \in Nat /\ Base(n - 1) = Base(n) - BlockSize /\ BlockSize \in Nat
  BY BaseOfNat, BaseIs, BlockSizeIs
<1>3. tailIndex <= Base(n)
  BY <1>1, <1>2 DEF TailInv, BlockTypes
<1> QED
  BY <1>1, <1>2, <1>3 DEF TailInv, Written

\* What lies before the base of a number is in a block with a lower one.
LEMMA NumberBelow ==
    ASSUME NEW i \in Nat, NEW k \in Nat, NEW m \in Int, Base(k) <= i, i < Base(m)
    PROVE  k < m
<1>1. Base(k) \in Int /\ Base(m) \in Int /\ BlockSize \in Nat
  BY BaseIs, BlockSizeIs
<1>2. ASSUME m < k PROVE FALSE
  <2>1. Base(m) + BlockSize <= Base(k)
    BY <1>2, BaseOrder
  <2> QED
    BY <1>1, <2>1
<1>3. m # k
  BY <1>1
<1> QED
  BY <1>2, <1>3

\* A consumer's block is not full, and in the index.
LEMMA AtWork ==
    ASSUME ClaimInv, NEW n, NEW blk, NEW org, NEW lim, Ghosts(n, blk, org, lim),
           Layout(n, blk, org, lim), NEW c \in Consumers, cpc[c] \in Working \ Leaving,
           NEW k \in Nat, In(c, k)
    PROVE  /\ ~Full(k) /\ Held(n, k) /\ Kept(n, k) /\ InUse(n, k)
           /\ k < Written(n)
           /\ cpc[c] # "index" => k < Limit(loc[c].hdr, n, lim)
<1>1. MineInv(c) /\ cpc[c] \in Working /\ n \in Nat
  BY DEF Layout, Ghosts
<1>2. loc[c].idx \in Nat /\ loc[c].idx < loc[c].last /\ loc[c].last <= headIndex
      /\ loc[c].last \in Nat
  BY <1>1 DEF MineInv
<1>3. loc[c].idx \in Todo(c)
  BY <1>1, <1>2 DEF Todo, Mine
<1>4. loc[c].idx - Base(k) \in Offsets /\ loc[c].idx = Base(k) + (loc[c].idx - Base(k))
  <2>1. Base(k) \in Nat
    BY BaseOfNat
  <2> QED
    BY <1>2, <2>1, OffsetIs DEF In
<1>5. ~Full(k)
  BY <1>3, <1>4 DEF Full, Done
<1>6. /\ headIndex \in Nat /\ tailIndex \in Nat /\ headIndex <= tailIndex
      /\ tailIndex <= Base(n) /\ Base(n) \in Nat
      /\ Written(n) \in Nat /\ tailIndex <= Base(Written(n))
  BY <1>1, TailIs DEF Layout
<1>7. k < n /\ k < Written(n)
  <2>1. Base(Written(n)) \in Nat
    BY <1>6, BaseOfNat
  <2>2. loc[c].idx < Base(n) /\ loc[c].idx < Base(Written(n))
    BY <1>2, <1>6, <2>1
  <2> QED
    BY <1>1, <1>2, <1>6, <2>2, NumberBelow DEF In
<1>8. isExplicit => k >= n - Len(ring)
  <2>1. Len(ring) \in Nat
    BY DEF Layout, BlockTypes
  <2> QED
    BY <1>1, <1>5, <2>1 DEF Layout, RingInv
<1>9. Held(n, k) /\ InUse(n, k)
  BY <1>1, <1>5, <1>7, <1>8 DEF Held, InUse, Used
<1>10. Kept(n, k)
  BY <1>9 DEF Kept
<1>11. ASSUME cpc[c] # "index" PROVE k < Limit(loc[c].hdr, n, lim)
  <2>1. CASE loc[c].hdr = Newest
    BY <1>7, <2>1 DEF Limit
  <2>2. CASE loc[c].hdr # Newest
    <3>1. loc[c].hdr \in 1 .. Newest /\ (loc[c].hdr < Newest => loc[c].last <= Base(lim[loc[c].hdr]))
      BY <1>1, <1>11 DEF Layout, WayInv
    <3>2. Newest \in Nat
      BY DEF Layout, BlockTypes, Newest
    <3>3. lim[loc[c].hdr] \in Nat /\ loc[c].last <= Base(lim[loc[c].hdr])
      BY <2>2, <3>1, <3>2 DEF Ghosts
    <3>4. Base(lim[loc[c].hdr]) \in Nat
      BY <3>3, BaseOfNat
    <3>5. loc[c].idx < Base(lim[loc[c].hdr])
      BY <1>2, <3>3, <3>4
    <3> QED
      BY <1>2, <2>2, <3>3, <3>5, NumberBelow DEF In, Limit
  <2> QED
    BY <2>1, <2>2
<1> QED
  BY <1>5, <1>7, <1>9, <1>10, <1>11

-----------------------------------------------------------------------------
(* What the invariant gives.                                                *)

LEMMA FoundElement ==
    ASSUME ClaimInv, NEW n, NEW blk, NEW org, NEW lim, Ghosts(n, blk, org, lim),
           Layout(n, blk, org, lim), NEW c \in Consumers, cpc[c] = "read",
           NEW k \in Nat, In(c, k)
    PROVE  /\ entries[EntryOf(c)] = [base |-> Base(k), block |-> blk[k]]
           /\ InUse(n, k) /\ Holding(k, blk[k]) /\ EntryOf(c) \in 1 .. Len(entries)
           /\ \A i \in InBlock(c) : elements[blk[k]][i % BlockSize] = i
<1>1. /\ Held(n, k) /\ Kept(n, k) /\ InUse(n, k) /\ k < Limit(loc[c].hdr, n, lim)
  BY AtWork DEF Working, Leaving
<1>2. loc[c].hdr \in 1 .. Newest /\ loc[c].slot = Pos(loc[c].hdr, k, org)
  BY DEF Layout, WayInv, Working
<1>3. EntryOf(c) = Id(loc[c].hdr, k, org)
  BY <1>2 DEF EntryOf, Id
<1>4. BlockTypes /\ EntriesInv(n, blk, org, lim) /\ org \in [Nat -> Int]
  BY DEF Layout, Ghosts
<1>5. Id(loc[c].hdr, k, org) \in 1 .. Len(entries)
  <2>1. GoodHeader(headers[loc[c].hdr]) /\ k \in Int
    BY <1>2, <1>4 DEF EntriesInv
  <2> QED
    BY <1>2, <1>4, <2>1, IdIs
<1>6. entries[EntryOf(c)].base = Base(k) /\ entries[EntryOf(c)].block = blk[k]
  <2>1. Limit(loc[c].hdr, n, lim) \in Int
    <3>1. loc[c].hdr \in Nat /\ n \in Nat /\ lim \in [Nat -> Nat]
      BY <1>2, NewestIs DEF Ghosts, Layout
    <3> QED
      BY <3>1 DEF Limit, Written
  <2>2. k \in 0 .. Limit(loc[c].hdr, n, lim) - 1
    BY <1>1, <2>1
  <2> QED
    BY <1>1, <1>2, <1>3, <1>4, <2>2 DEF EntriesInv
<1>7. entries[EntryOf(c)] \in EntrySet
  BY <1>3, <1>4, <1>5 DEF BlockTypes
<1>8. Holding(k, blk[k])
  BY <1>1 DEF Layout, BlocksInv
<1>9. ASSUME NEW i \in InBlock(c) PROVE elements[blk[k]][i % BlockSize] = i
  <2>1. MineInv(c) /\ cpc[c] \in Working
    BY DEF Layout, Working
  <2>2. i \in Nat /\ i % BlockSize = i - Base(k) /\ i - Base(k) \in Offsets
    BY <2>1, PlaceIs
  <2>3. Base(k) \in Nat /\ Base(k) + (i - Base(k)) = i
    BY <2>2, BaseOfNat
  <2>4. elements[blk[k]][i % BlockSize] = Content(i)
    BY <1>8, <2>2, <2>3 DEF Holding
  <2>5. i \in Mine(c) /\ i < headIndex
    <3>1. /\ EndIndex(c) = IF loc[c].last <= Base(k) + BlockSize THEN loc[c].last
                            ELSE Base(k) + BlockSize
          /\ EndIndex(c) \in Nat
      BY <2>1, PlaceIs
    <3>2. loc[c].idx \in Nat /\ loc[c].last \in Nat /\ loc[c].last <= headIndex
      BY <2>1 DEF MineInv
    <3>3. headIndex \in Nat /\ BlockSize \in Nat
      BY BlockSizeIs DEF ClaimInv, CounterTypes
    <3> QED
      BY <2>1, <2>3, <3>1, <3>2, <3>3 DEF InBlock, Mine
  <2>6. i \in Unread(c)
    BY <2>5 DEF Unread
  <2>7. i < Built /\ ~Taken(i)
    BY <2>2, <2>5, <2>6, TailIs DEF Built, Taken, Layout, Ghosts, ClaimInv, CounterTypes, Counts
  <2> QED
    BY <2>4, <2>7 DEF Content
<1>10. entries[EntryOf(c)] = [base |-> Base(k), block |-> blk[k]]
  BY <1>6, <1>7 DEF EntrySet
<1> QED
  BY <1>1, <1>3, <1>5, <1>8, <1>9, <1>10

-----------------------------------------------------------------------------
(* What a step leaves alone.                                                *)

\* What is reported empty has been read.
LEMMA DoneIsTaken ==
    ASSUME NEW i, Done(i)
    PROVE  Taken(i)
BY DEF Done, Taken, Todo, Unread, Leaving

\* A step that does not touch the consumers.
LEMMA WorkStays ==
    ASSUME cpc' = cpc, loc' = loc, headIndex' = headIndex, isExplicit' = isExplicit
    PROVE  /\ \A i : Done(i)' <=> Done(i)
           /\ \A i : Taken(i)' <=> Taken(i)
           /\ \A k, places : LeftAt(k, places)' <=> LeftAt(k, places)
           /\ \A c \in Consumers : MineInv(c)' <=> MineInv(c)
           /\ \A c \in Consumers : LeaveInv(c)' <=> LeaveInv(c)
<1>1. \A i : (Done(i)' <=> Done(i)) /\ (Taken(i)' <=> Taken(i))
  BY DEF Done, Taken, Todo, Unread, Mine, EndIndex
<1>2. \A k, places : LeftAt(k, places)' <=> LeftAt(k, places)
  BY DEF LeftAt, In
<1>3. \A c \in Consumers : MineInv(c)' <=> MineInv(c)
  BY DEF MineInv, Mine
<1>4. \A k : Full(k)' <=> Full(k)
  BY <1>1 DEF Full
<1>5. \A c \in Consumers : LeaveInv(c)' <=> LeaveInv(c)
  BY <1>4 DEF LeaveInv, In
<1> QED
  BY <1>1, <1>2, <1>3, <1>5

\* What is done decides which blocks are in use.
LEMMA ElementIs ==
    ASSUME NEW k \in Nat, NEW o \in Offsets
    PROVE  Base(k) + o \in Nat /\ Base(k) <= Base(k) + o /\ Base(k) + o < Base(k) + BlockSize
<1>1. Base(k) \in Nat
  BY BaseOfNat
<1> QED
  BY <1>1, BlockSizeIs

LEMMA FullStays ==
    ASSUME \A i \in Nat : Done(i)' <=> Done(i)
    PROVE  \A k \in Nat : (Full(k)' <=> Full(k)) /\ DoneIn(k)' = DoneIn(k)
<1>1. \A k \in Nat : \A o \in Offsets : Base(k) + o \in Nat
  BY ElementIs
<1> QED
  BY <1>1 DEF Full, DoneIn

LEMMA UseStays ==
    ASSUME isExplicit' = isExplicit, isExplicit => ring' = ring,
           ~isExplicit => \A k \in Nat : Full(k)' <=> Full(k),
           ~isExplicit => \A k \in Nat : LeftAt(k, Leaving)' <=> LeftAt(k, Leaving),
           ~isExplicit => \A k \in Nat : LeftAt(k, {"null"})' <=> LeftAt(k, {"null"})
    PROVE  \A n \in Nat : \A k \in Nat : /\ InUse(n, k)' <=> InUse(n, k)
                                         /\ Held(n, k)' <=> Held(n, k)
                                         /\ Kept(n, k)' <=> Kept(n, k)
<1>1. \A n \in Nat : \A k \in Nat : /\ InUse(n, k)' <=> InUse(n, k)
                                    /\ Held(n, k)' <=> Held(n, k)
  BY DEF InUse, Held, Used
<1>2. \A n \in Nat : \A k \in Nat : Kept(n, k)' <=> Kept(n, k)
  BY <1>1 DEF Kept
<1> QED
  BY <1>1, <1>2

LEMMA KeptShrinks ==
    ASSUME NEW n \in Nat, NEW p \in Nat, \A k \in Nat : k < n => (Held(p, k)' => Held(n, k))
    PROVE  \A m \in Nat : m < n => (Kept(p, m)' => Kept(n, m))
BY DEF Kept

\* The slots of every index are where they were.
LEMMA SlotsStay ==
    ASSUME BlockTypes, Newest' = Newest, \A h \in 1 .. Newest : headers'[h].slot = headers[h].slot
    PROVE  \A h \in 1 .. Newest : /\ SizeOf(headers[h])' = SizeOf(headers[h])
                                  /\ \A k, org : Pos(h, k, org)' = Pos(h, k, org)
                                  /\ \A k, org : Id(h, k, org)' = Id(h, k, org)
<1>1. \A h \in 1 .. Newest : SizeOf(headers[h])' = SizeOf(headers[h])
  BY DEF SizeOf
<1>2. \A h \in 1 .. Newest : \A k, org : Pos(h, k, org)' = Pos(h, k, org)
  BY <1>1 DEF Pos
<1>3. \A h \in 1 .. Newest : \A k, org : Id(h, k, org)' = Id(h, k, org)
  BY <1>2 DEF Id
<1> QED
  BY <1>1, <1>2, <1>3

\* Only the current slot of the newest index moves.
LEMMA CurMoves ==
    ASSUME BlockTypes, NEW x \in Int, headers' = [headers EXCEPT ![Len(headers)].cur = x]
    PROVE  /\ headers' \in Seq(HeaderSet) /\ Newest' = Newest
           /\ \A h \in 1 .. Newest : headers'[h].slot = headers[h].slot
           /\ Header'.cur = x /\ \A h \in 1 .. Newest - 1 : headers'[h] = headers[h]
<1>1. headers \in Seq(HeaderSet) /\ Len(headers) \in Nat \ {0}
  BY DEF BlockTypes, Newest
<1>2. headers[Len(headers)] \in HeaderSet
  BY <1>1
<1>3. [headers[Len(headers)] EXCEPT !.cur = x] \in HeaderSet
  BY <1>2 DEF HeaderSet
<1>4. headers' = [headers EXCEPT ![Len(headers)] = [headers[Len(headers)] EXCEPT !.cur = x]]
  OBVIOUS
<1>5. headers' \in Seq(HeaderSet) /\ Len(headers') = Len(headers)
  BY <1>1, <1>3, <1>4
<1>6. [headers[Len(headers)] EXCEPT !.cur = x].slot = headers[Len(headers)].slot
      /\ [headers[Len(headers)] EXCEPT !.cur = x].cur = x
  BY <1>2 DEF HeaderSet
<1>7. headers'[Len(headers)] = [headers[Len(headers)] EXCEPT !.cur = x]
      /\ \A h \in 1 .. Len(headers) : h # Len(headers) => headers'[h] = headers[h]
  BY <1>1, <1>4
<1> QED
  BY <1>1, <1>5, <1>6, <1>7 DEF Newest, Header

\* The places of a producer that does not insert a block.
Settled == {"idle", "tail"}

\* A step that leaves the headers alone, and one that leaves the index alone.
LEMMA HeadersStay ==
    ASSUME NEW n \in Nat, NEW org, NEW lim, BlockTypes,
           OldInv(n, org, lim), HeaderInv(n, org),
           isExplicit' = isExplicit, ring' = ring, headers' = headers,
           pr_blockIndexSlotsUsed' = pr_blockIndexSlotsUsed,
           pr_blockIndexFront' = pr_blockIndexFront,
           ppc' = ppc \/ {ppc, ppc'} \subseteq Settled,
           \A k \in Nat : k < n => (Held(n, k)' => Held(n, k))
    PROVE  /\ OldInv(n, org, lim)' /\ HeaderInv(n, org)'
           /\ Newest' = Newest /\ Newest \in 1 .. Newest
           /\ \A h \in 1 .. Newest : \A k : Id(h, k, org)' = Id(h, k, org)
           /\ \A h : Limit(h, n, lim)' = Limit(h, n, lim)
           /\ ppc' = "block" <=> ppc = "block"
           /\ \A k \in Nat : (Held(n, k)' => Held(n, k)) /\ (Kept(n, k)' => Kept(n, k))
<1>1. Newest' = Newest /\ Header' = Header /\ Newest \in Nat
  BY DEF Newest, Header, BlockTypes
<1>2. \A h \in 1 .. Newest : /\ SizeOf(headers[h])' = SizeOf(headers[h])
                             /\ \A k : Pos(h, k, org)' = Pos(h, k, org)
                             /\ \A k : Id(h, k, org)' = Id(h, k, org)
  BY <1>1, SlotsStay
<1>3. Written(n)' = Written(n) /\ \A h : Limit(h, n, lim)' = Limit(h, n, lim)
  BY <1>1 DEF Written, Limit, Settled
<1>4. /\ ppc' = "block" <=> ppc = "block"
      /\ ppc' \in {"entry", "front"} <=> ppc \in {"entry", "front"}
      /\ ppc' \in {"idle", "tail"} <=> ppc \in {"idle", "tail"}
  BY DEF Settled
<1>5. \A k \in Nat : Held(n, k)' => Held(n, k)
  BY DEF Held, Used
<1>6. \A m \in Nat : Kept(n, m)' => Kept(n, m)
  BY <1>5 DEF Kept
<1>7. \A h \in 1 .. Newest - 1 : h \in 1 .. Newest
  BY <1>1
<1>8. Newest \in 1 .. Newest /\ Header = headers[Newest] /\ SizeOf(Header)' = SizeOf(Header)
  BY <1>1, <1>2, NewestIs
<1>9. OldInv(n, org, lim)'
  <2>1. \A h \in 1 .. Newest - 1 : \A m \in 0 .. lim[h] - 1 : m \in Nat
    OBVIOUS
  <2> QED
    BY <1>1, <1>2, <1>3, <1>6, <1>7, <1>8, <2>1 DEF OldInv
<1>10. HeaderInv(n, org)'
  BY <1>1, <1>2, <1>4, <1>5, <1>8 DEF HeaderInv
<1> QED
  BY <1>1, <1>2, <1>3, <1>4, <1>5, <1>6, <1>8, <1>9, <1>10

LEMMA IndexStays ==
    ASSUME NEW n \in Nat, NEW blk, NEW org, NEW lim, BlockTypes,
           OldInv(n, org, lim), HeaderInv(n, org), EntriesInv(n, blk, org, lim),
           isExplicit' = isExplicit, ring' = ring, headers' = headers, entries' = entries,
           pr_blockIndexSlotsUsed' = pr_blockIndexSlotsUsed,
           pr_blockIndexFront' = pr_blockIndexFront,
           ppc' = ppc \/ {ppc, ppc'} \subseteq Settled,
           \A k \in Nat : k < n => (Held(n, k)' => Held(n, k))
    PROVE  OldInv(n, org, lim)' /\ HeaderInv(n, org)' /\ EntriesInv(n, blk, org, lim)'
<1>1. /\ OldInv(n, org, lim)' /\ HeaderInv(n, org)'
      /\ Newest' = Newest /\ Newest \in 1 .. Newest
      /\ \A h \in 1 .. Newest : \A k : Id(h, k, org)' = Id(h, k, org)
      /\ \A h : Limit(h, n, lim)' = Limit(h, n, lim)
      /\ ppc' = "block" <=> ppc = "block"
      /\ \A k \in Nat : (Held(n, k)' => Held(n, k)) /\ (Kept(n, k)' => Kept(n, k))
  BY HeadersStay
<1>2. EntriesInv(n, blk, org, lim)'
  <2>1. \A h \in 1 .. Newest : GoodHeader(headers[h])'
    BY DEF EntriesInv, GoodHeader
  <2>2. ppc' = "block" => Spare(n, org)'
    BY <1>1 DEF EntriesInv, Spare
  <2>3. \A h \in 1 .. Newest : \A m \in 0 .. Limit(h, n, lim) - 1 :
          /\ Kept(n, m)' => entries[Id(h, m, org)].base = Base(m)
          /\ Held(n, m)' => entries[Id(h, m, org)].block = blk[m]
    BY <1>1 DEF EntriesInv
  <2> QED
    BY <1>1, <2>1, <2>2, <2>3 DEF EntriesInv
<1> QED
  BY <1>1, <1>2

\* A consumer that does not move, while the indexes' slots stay where they are.
LEMMA WayStays ==
    ASSUME NEW n \in Nat, NEW blk, NEW org, NEW lim, BlockTypes, NEW p \in Nat, NEW blkp,
           NEW c \in Consumers, WayInv(c, n, blk, org, lim),
           cpc'[c] = cpc[c], loc'[c] = loc[c], Newest' = Newest,
           \A h \in 1 .. Newest : headers'[h].slot = headers[h].slot,
           \A k \in Nat : cpc[c] \in Working /\ In(c, k) => blkp[k] = blk[k],
           cpc[c] = "slot" /\ CurInv(c, n, org, lim) => CurInv(c, p, org, lim)'
    PROVE  WayInv(c, p, blkp, org, lim)'
<1>1. \A h \in 1 .. Newest : \A k : Pos(h, k, org)' = Pos(h, k, org)
  BY SlotsStay
<1>2. \A k : In(c, k)' <=> In(c, k)
  BY DEF In
<1>3. cpc[c] \in Working \ {"index"} => loc[c].hdr \in 1 .. Newest
  BY DEF WayInv
<1>4. cpc[c] \in {"read", "empty", "null", "free"} => cpc[c] \in Working \ {"index"}
  BY DEF Working
<1> QED
  BY <1>1, <1>2, <1>3, <1>4 DEF WayInv

LEMMA CurStays ==
    ASSUME NEW n \in Nat, NEW org, NEW lim, BlockTypes, NEW c \in Consumers,
           NEW h \in 1 .. Newest, loc[c].hdr = h, CurInv(c, n, org, lim), loc'[c] = loc[c],
           Newest' = Newest, \A g \in 1 .. Newest : headers'[g].slot = headers[g].slot,
           NEW p \in Nat, Limit(h, n, lim) \in Int, Limit(h, p, lim)' \in Int,
           Limit(h, n, lim) <= Limit(h, p, lim)',
           isExplicit' = isExplicit,
           ~isExplicit /\ tailIndex = Base(n) /\ Spare(n, org) =>
               \/ h = Newest => n < Limit(h, p, lim)'
               \/ p = n /\ tailIndex' = tailIndex /\ Spare(n, org)'
    PROVE  CurInv(c, p, org, lim)'
<1>1. \A k : Pos(h, k, org)' = Pos(h, k, org)
  BY SlotsStay
<1>2. PICK m \in Nat : /\ loc[c].cur = Pos(h, m, org)
                       /\ loc[c].idx < Base(m) + BlockSize
                       /\ \/ m < Limit(h, n, lim)
                          \/ /\ m = n /\ h = Newest /\ ~isExplicit
                             /\ tailIndex = Base(n) /\ Spare(n, org)
  BY DEF CurInv
<1>3. loc'[c].cur = Pos(h, m, org)' /\ loc'[c].idx < Base(m) + BlockSize /\ loc'[c].hdr = h
  BY <1>1, <1>2
<1>4. CASE m < Limit(h, p, lim)'
  BY <1>3, <1>4 DEF CurInv
<1>5. CASE m = n /\ h = Newest /\ ~isExplicit /\ p = n /\ tailIndex' = tailIndex
           /\ tailIndex = Base(n) /\ Spare(n, org)'
  BY <1>3, <1>5 DEF CurInv
<1> QED
  BY <1>2, <1>4, <1>5

\* The blocks, when neither they nor what is taken out of them changes.
LEMMA BlocksStay ==
    ASSUME NEW n \in Nat, NEW blk, BlocksInv(n, blk), isExplicit' = isExplicit,
           elements' = elements, emptyFlags' = emptyFlags,
           elementsCompletelyDequeued' = elementsCompletelyDequeued, home' = home,
           Built' = Built, \A i \in Nat : Taken(i)' <=> Taken(i),
           \A i \in Nat : Done(i)' <=> Done(i),
           \A k \in Nat : InUse(n, k)' <=> InUse(n, k)
    PROVE  BlocksInv(n, blk)'
<1>1. \A k \in Nat : (Full(k)' <=> Full(k)) /\ DoneIn(k)' = DoneIn(k)
  BY FullStays
<1>2. \A i \in Nat : Content(i)' = Content(i)
  BY DEF Content
<1>3. \A k \in Nat : \A o \in Offsets : Base(k) + o \in Nat
  BY ElementIs
<1>4. \A k \in Nat : \A b : Holding(k, b)' <=> Holding(k, b)
  BY <1>1, <1>2, <1>3 DEF Holding
<1>5. \A b : Vacant(b)' <=> Vacant(b)
  BY DEF Vacant
<1> QED
  BY <1>4, <1>5 DEF BlocksInv

LEMMA RingStays ==
    ASSUME NEW n \in Nat, NEW blk, RingInv(n, blk), isExplicit' = isExplicit, ring' = ring,
           \A k \in Nat : Full(k) => Full(k)'
    PROVE  RingInv(n, blk)'
BY DEF RingInv

-----------------------------------------------------------------------------
(* The steps of a consumer.                                                 *)

\* What is left to show when consumer c moves.
LEMMA ConsumerMoves ==
    ASSUME ClaimInv, NEW n, NEW blk, NEW org, NEW lim, Ghosts(n, blk, org, lim),
           Layout(n, blk, org, lim), NEW c \in Consumers,
           \A d \in Consumers \ {c} : cpc'[d] = cpc[d] /\ loc'[d] = loc[d],
           isExplicit' = isExplicit, UNCHANGED prodVars, BlockTypes', BlocksInv(n, blk)',
           headIndex' \in Nat, headIndex' >= headIndex,
           MineInv(c)', WayInv(c, n, blk, org, lim)', LeaveInv(c)',
           OldInv(n, org, lim)', HeaderInv(n, org)', EntriesInv(n, blk, org, lim)',
           Spare(n, org) => Spare(n, org)',
           \A k \in Nat : Full(k) => Full(k)',
           cpc'[c] \in Leaving =>
               \A k \in Nat : In(c, k)' => ~Full(k) \/ (cpc[c] \in Leaving /\ In(c, k))
    PROVE  Layout(n, blk, org, lim)'
<1>1. /\ n \in Nat /\ BlockTypes /\ TailInv(n) /\ RingInv(n, blk) /\ headIndex \in Nat
      /\ \A d \in Consumers : MineInv(d) /\ WayInv(d, n, blk, org, lim) /\ LeaveInv(d)
  BY DEF Layout, Ghosts, ClaimInv, CounterTypes
<1>2. /\ tailIndex' = tailIndex /\ ring' = ring /\ ppc' = ppc /\ headers' = headers
      /\ Newest' = Newest
  BY DEF prodVars, Newest
<1>3. TailInv(n)'
  BY <1>1, <1>2 DEF TailInv
<1>4. RingInv(n, blk)'
  BY <1>1, <1>2, RingStays
<1>5. ASSUME NEW d \in Consumers \ {c} PROVE MineInv(d)'
  <2>1. Mine(d)' = Mine(d) /\ cpc'[d] = cpc[d] /\ loc'[d] = loc[d]
    BY DEF Mine
  <2>2. \A e \in Consumers \ {c, d} : Mine(e)' = Mine(e)
    BY DEF Mine
  <2>3. Mine(c)' \cap Mine(d)' = {}
    BY DEF MineInv, Mine
  <2>4. cpc[d] \in Working => \A e \in Consumers \ {d} : Mine(d)' \cap Mine(e)' = {}
    BY <1>1, <2>1, <2>2, <2>3 DEF MineInv
  <2>5. MineInv(d)
    BY <1>1
  <2>6. cpc[d] \in Working =>
           /\ loc[d].idx \in Nat /\ loc[d].last \in Nat
           /\ loc[d].idx < loc[d].last /\ loc[d].last <= headIndex'
    BY <1>1, <2>5 DEF MineInv
  <2> QED
    BY <2>1, <2>4, <2>6 DEF MineInv
<1>6. ASSUME NEW d \in Consumers \ {c} PROVE WayInv(d, n, blk, org, lim)'
  <2>1. cpc[d] = "slot" => loc[d].hdr \in 1 .. Newest
    BY <1>1 DEF WayInv, Working
  <2>2. Written(n)' = Written(n) /\ \A h : Limit(h, n, lim)' = Limit(h, n, lim)
    BY <1>2 DEF Written, Limit
  <2>3. ASSUME cpc[d] = "slot", CurInv(d, n, org, lim) PROVE CurInv(d, n, org, lim)'
    <3>1. PICK h \in 1 .. Newest : loc[d].hdr = h
      BY <2>1, <2>3
    <3>2. h \in Nat /\ lim \in [Nat -> Nat]
      BY NewestIs, <1>1 DEF Ghosts
    <3>3. Limit(h, n, lim) \in Int
      BY <1>1, <3>2 DEF Limit, Written
    <3> QED
      BY <1>1, <1>2, <2>2, <2>3, <3>1, <3>3, CurStays
  <2> QED
    BY <1>1, <1>2, <2>3, WayStays
<1>7. ASSUME NEW d \in Consumers \ {c} PROVE LeaveInv(d)'
  <2> SUFFICES ASSUME cpc[d] \in Leaving, NEW k \in Nat, In(d, k)
               PROVE  /\ ~isExplicit /\ Full(k)'
                      /\ \A e \in Consumers \ {d} : cpc'[e] \in Leaving => ~In(e, k)'
    BY <1>1 DEF LeaveInv, In
  <2>1. ~isExplicit /\ Full(k) /\ \A e \in Consumers \ {d} : cpc[e] \in Leaving => ~In(e, k)
    BY <1>1 DEF LeaveInv
  <2>2. \A e \in Consumers \ {c} : In(e, k)' <=> In(e, k)
    BY DEF In
  <2> QED
    BY <2>1, <2>2
<1> QED
  BY <1>3, <1>4, <1>5, <1>6, <1>7 DEF Layout

\* What a step of c that does not touch the index has to show.
LEMMA ConsumerActs ==
    ASSUME ClaimInv, NEW n, NEW blk, NEW org, NEW lim, Ghosts(n, blk, org, lim),
           Layout(n, blk, org, lim), NEW c \in Consumers,
           \A d \in Consumers \ {c} : cpc'[d] = cpc[d] /\ loc'[d] = loc[d],
           isExplicit' = isExplicit, UNCHANGED prodVars, entries' = entries,
           BlockTypes', BlocksInv(n, blk)', headIndex' \in Nat, headIndex' >= headIndex,
           MineInv(c)', WayInv(c, n, blk, org, lim)', LeaveInv(c)',
           \A k \in Nat : Full(k) => Full(k)',
           \A k \in Nat : k < n => (Held(n, k)' => Held(n, k)),
           cpc'[c] \in Leaving =>
               \A k \in Nat : In(c, k)' => ~Full(k) \/ (cpc[c] \in Leaving /\ In(c, k))
    PROVE  Layout(n, blk, org, lim)'
<1>1. n \in Nat /\ BlockTypes
  BY DEF Ghosts, Layout
<1>2. OldInv(n, org, lim)' /\ HeaderInv(n, org)' /\ EntriesInv(n, blk, org, lim)'
  BY <1>1, IndexStays DEF prodVars, Layout
<1>3. Spare(n, org) => Spare(n, org)'
  BY DEF Spare, prodVars, Id, Pos, Newest, SizeOf
<1> QED
  BY <1>2, <1>3, ConsumerMoves

LEMMA ConsumerWorks ==
    ASSUME ClaimInv, NEW n, NEW blk, NEW org, NEW lim, Ghosts(n, blk, org, lim),
           Layout(n, blk, org, lim), NEW c \in Consumers, NEW from, NEW to, NEW l,
           ConsumerStep(c, from, to, l), entries' = entries,
           BlockTypes', BlocksInv(n, blk)', headIndex' \in Nat, headIndex' >= headIndex,
           MineInv(c)', WayInv(c, n, blk, org, lim)', LeaveInv(c)',
           \A k \in Nat : Full(k) => Full(k)',
           \A k \in Nat : k < n => (Held(n, k)' => Held(n, k)),
           to \in Leaving =>
               \A k \in Nat : In(c, k)' => ~Full(k) \/ (cpc[c] \in Leaving /\ In(c, k))
    PROVE  Layout(n, blk, org, lim)'
<1>1. CounterTypes
  BY DEF ClaimInv
<1>2. cpc'[c] = to /\ \A d \in Consumers \ {c} : cpc'[d] = cpc[d] /\ loc'[d] = loc[d]
  BY <1>1, Moved
<1>3. isExplicit' = isExplicit /\ UNCHANGED prodVars
  BY DEF ConsumerStep
<1> QED
  BY <1>2, <1>3, ConsumerActs

LEMMA OthersStay ==
    ASSUME NEW d \in Consumers, cpc'[d] = cpc[d], loc'[d] = loc[d]
    PROVE  /\ Mine(d)' = Mine(d) /\ Todo(d)' = Todo(d) /\ Unread(d)' = Unread(d)
           /\ \A k : In(d, k)' <=> In(d, k)
BY DEF Mine, Todo, Unread, EndIndex, In

\* A step of c that takes nothing and gives nothing back.
LEMMA QuietStep ==
    ASSUME ClaimInv, NEW n, NEW blk, NEW org, NEW lim, Ghosts(n, blk, org, lim),
           Layout(n, blk, org, lim), NEW c \in Consumers, NEW from, NEW to, NEW l,
           ConsumerStep(c, from, to, l), entries' = entries, UNCHANGED blockVars,
           from \notin Leaving, to \notin Leaving, headIndex' \in Nat, headIndex' >= headIndex,
           \A i \in Nat : Done(i)' <=> Done(i), \A i \in Nat : Taken(i)' <=> Taken(i),
           MineInv(c)', WayInv(c, n, blk, org, lim)'
    PROVE  Layout(n, blk, org, lim)'
<1>1. CounterTypes /\ n \in Nat /\ BlockTypes /\ BlocksInv(n, blk)
  BY DEF ClaimInv, Ghosts, Layout
<1>2. /\ cpc[c] = from /\ cpc'[c] = to
      /\ \A d \in Consumers \ {c} : cpc'[d] = cpc[d] /\ loc'[d] = loc[d]
  BY <1>1, Moved
<1>3. /\ isExplicit' = isExplicit /\ ring' = ring /\ ppc' = ppc /\ headers' = headers
      /\ tailIndex' = tailIndex
  BY DEF ConsumerStep, prodVars
<1>4. \A k \in Nat : Full(k)' <=> Full(k)
  BY FullStays
<1>5. \A k : /\ LeftAt(k, Leaving)' <=> LeftAt(k, Leaving)
             /\ LeftAt(k, {"null"})' <=> LeftAt(k, {"null"})
  BY <1>2 DEF LeftAt, In, Leaving
<1>6. \A k \in Nat : (InUse(n, k)' <=> InUse(n, k)) /\ (Held(n, k)' <=> Held(n, k))
  BY <1>1, <1>3, <1>4, <1>5, UseStays
<1>7. BlockTypes'
  BY <1>1, <1>3 DEF BlockTypes, blockVars, Newest
<1>8. Built' = Built
  BY <1>3 DEF Built
<1>9. BlocksInv(n, blk)'
  BY <1>1, <1>3, <1>6, <1>8, BlocksStay DEF blockVars
<1>10. LeaveInv(c)'
  BY <1>2 DEF LeaveInv
<1> QED
  BY <1>4, <1>6, <1>7, <1>9, <1>10, ConsumerWorks

\* Before it has elements to dequeue.
LEMMA EarlyStep ==
    ASSUME ClaimInv, NEW n, NEW blk, NEW org, NEW lim, Ghosts(n, blk, org, lim),
           Layout(n, blk, org, lim), NEW c \in Consumers, NEW from, NEW to, NEW l,
           ConsumerStep(c, from, to, l), entries' = entries, UNCHANGED blockVars,
           headIndex' = headIndex, from \notin Working, to \notin Working
    PROVE  Layout(n, blk, org, lim)'
<1>1. CounterTypes /\ headIndex \in Nat
  BY DEF ClaimInv, CounterTypes
<1>2. /\ cpc[c] = from /\ cpc'[c] = to
      /\ \A d \in Consumers \ {c} : cpc'[d] = cpc[d] /\ loc'[d] = loc[d]
  BY <1>1, Moved
<1>3. \A d \in Consumers : Todo(d)' = Todo(d) /\ Unread(d)' = Unread(d)
  <2>1. Todo(c)' = Todo(c) /\ Unread(c)' = Unread(c)
    BY <1>2 DEF Todo, Unread, Mine
  <2> QED
    BY <1>2, <2>1, OthersStay
<1>4. \A i : (Done(i)' <=> Done(i)) /\ (Taken(i)' <=> Taken(i))
  BY <1>3 DEF Done, Taken
<1>5. MineInv(c)'
  BY <1>2 DEF MineInv
<1>6. WayInv(c, n, blk, org, lim)'
  BY <1>2 DEF WayInv, Working
<1>7. from \notin Leaving /\ to \notin Leaving
  BY DEF Leaving, Working
<1> QED
  BY <1>1, <1>4, <1>5, <1>6, <1>7, QuietStep

LEMMA EarlySteps ==
    ASSUME ClaimInv, NEW n, NEW blk, NEW org, NEW lim, Ghosts(n, blk, org, lim),
           Layout(n, blk, org, lim), NEW c \in Consumers,
           \/ Dequeue_Tail(c) \/ Dequeue_Over(c) \/ Dequeue_Count(c) \/ Dequeue_Claim(c)
           \/ Dequeue_Recheck(c) \/ Dequeue_Give(c)
    PROVE  Layout(n, blk, org, lim)'
<1>0. entries' = entries /\ UNCHANGED blockVars /\ headIndex' = headIndex
  BY DEF Dequeue_Tail, Dequeue_Over, Dequeue_Count, Dequeue_Claim, Dequeue_Recheck, Dequeue_Give
<1>1. \E from, to, l : /\ ConsumerStep(c, from, to, l)
                       /\ from \in {"idle", "over", "count", "claim", "recheck", "give"}
                       /\ to \in {"idle", "over", "count", "claim", "recheck", "give", "head"}
  <2>1. CASE Dequeue_Tail(c)
    BY <2>1 DEF Dequeue_Tail
  <2>2. CASE Dequeue_Over(c)
    BY <2>2 DEF Dequeue_Over
  <2>3. CASE Dequeue_Count(c)
    BY <2>3 DEF Dequeue_Count
  <2>4. CASE Dequeue_Claim(c)
    BY <2>4 DEF Dequeue_Claim
  <2>5. CASE Dequeue_Recheck(c)
    BY <2>5 DEF Dequeue_Recheck
  <2>6. CASE Dequeue_Give(c)
    BY <2>6 DEF Dequeue_Give
  <2> QED
    BY <2>1, <2>2, <2>3, <2>4, <2>5, <2>6
<1>2. PICK from, to, l : /\ ConsumerStep(c, from, to, l)
                         /\ from \in {"idle", "over", "count", "claim", "recheck", "give"}
                         /\ to \in {"idle", "over", "count", "claim", "recheck", "give", "head"}
  BY <1>1
<1>3. from \notin Working /\ to \notin Working
  BY <1>2 DEF Working
<1> QED
  BY <1>0, <1>2, <1>3, EarlyStep

\* The fetch_add on the head: the elements c gets are nobody else's.
LEMMA TakesHead ==
    ASSUME ClaimInv, NEW n, NEW blk, NEW org, NEW lim, Ghosts(n, blk, org, lim),
           Layout(n, blk, org, lim), NEW c \in Consumers, Dequeue_Head(c)
    PROVE  Layout(n, blk, org, lim)'
<1> DEFINE l == [NoLocals EXCEPT !.idx = headIndex, !.last = headIndex + loc[c].n]
<1>1. CounterTypes /\ headIndex \in Nat /\ ConsumerInv(c)
  BY DEF ClaimInv, CounterTypes
<1>2. /\ ConsumerStep(c, "head", "index", l) /\ entries' = entries /\ UNCHANGED blockVars
      /\ headIndex' = headIndex + loc[c].n
  BY DEF Dequeue_Head
<1>3. /\ cpc[c] = "head" /\ cpc'[c] = "index" /\ loc'[c] = l
      /\ \A d \in Consumers \ {c} : cpc'[d] = cpc[d] /\ loc'[d] = loc[d]
  BY <1>1, <1>2, Moved
<1>4. l.idx = headIndex /\ l.last = headIndex + loc[c].n
  BY DEF NoLocals
<1> HIDE DEF l
<1>5. loc[c].n \in Nat \ {0}
  BY <1>1, <1>3 DEF ConsumerInv
<1>6. /\ Mine(c) = {} /\ Todo(c) = {} /\ Unread(c) = {}
      /\ Mine(c)' = headIndex .. headIndex' - 1 /\ Todo(c)' = Mine(c)' /\ Unread(c)' = Mine(c)'
  BY <1>2, <1>3, <1>4 DEF Mine, Todo, Unread, Working, Leaving
<1>7. \A d \in Consumers \ {c} : Mine(d)' = Mine(d) /\ Todo(d)' = Todo(d) /\ Unread(d)' = Unread(d)
  BY <1>3, OthersStay
<1>8. \A d \in Consumers : \A i \in Mine(d) : i \in Int /\ i < headIndex
  <2> SUFFICES ASSUME NEW d \in Consumers, NEW i \in Mine(d) PROVE i \in Int /\ i < headIndex
    OBVIOUS
  <2>1. MineInv(d) /\ cpc[d] \in Working /\ i \in loc[d].idx .. loc[d].last - 1
    BY DEF Layout, Mine
  <2> QED
    BY <1>1, <2>1 DEF MineInv
<1>9. headIndex' \in Nat /\ headIndex' > headIndex
  BY <1>1, <1>2, <1>5
<1>10. \A i \in Nat : Done(i)' <=> Done(i)
  BY <1>1, <1>2, <1>5, <1>6, <1>7 DEF Done
<1>11. \A i \in Nat : Taken(i)' <=> Taken(i)
  BY <1>1, <1>2, <1>5, <1>6, <1>7 DEF Taken
<1>12. MineInv(c)'
  <2>1. \A d \in Consumers \ {c} : Mine(c)' \cap Mine(d)' = {}
    BY <1>1, <1>6, <1>7, <1>8
  <2> QED
    BY <1>1, <1>2, <1>3, <1>4, <1>5, <1>9, <2>1 DEF MineInv
<1>13. WayInv(c, n, blk, org, lim)'
  BY <1>3 DEF WayInv
<1>14. "head" \notin Leaving /\ "index" \notin Leaving /\ headIndex' >= headIndex
  BY <1>1, <1>9 DEF Leaving
<1> QED
  BY <1>2, <1>9, <1>10, <1>11, <1>12, <1>13, <1>14, QuietStep

\* The steps that find the slot move nothing.
LEMMA FindingStep ==
    ASSUME ClaimInv, NEW n, NEW blk, NEW org, NEW lim, Ghosts(n, blk, org, lim),
           Layout(n, blk, org, lim), NEW c \in Consumers, NEW from, NEW to, NEW l,
           ConsumerStep(c, from, to, l), entries' = entries, UNCHANGED blockVars,
           headIndex' = headIndex,
           from \in {"index", "cur", "slot"}, to \in {"index", "cur", "slot", "read"},
           l.idx = loc[c].idx, l.last = loc[c].last, WayInv(c, n, blk, org, lim)'
    PROVE  Layout(n, blk, org, lim)'
<1>1. CounterTypes /\ headIndex \in Nat /\ MineInv(c)
  BY DEF ClaimInv, CounterTypes, Layout
<1>2. /\ cpc[c] = from /\ cpc'[c] = to /\ loc'[c] = l
      /\ \A d \in Consumers \ {c} : cpc'[d] = cpc[d] /\ loc'[d] = loc[d]
  BY <1>1, Moved
<1>3. \A d \in Consumers : Mine(d)' = Mine(d) /\ Todo(d)' = Todo(d) /\ Unread(d)' = Unread(d)
  <2>1. Mine(c)' = Mine(c) /\ Todo(c)' = Todo(c) /\ Unread(c)' = Unread(c)
    BY <1>2 DEF Todo, Unread, Mine, Working, Leaving
  <2> QED
    BY <1>2, <2>1, OthersStay
<1>4. \A i : (Done(i)' <=> Done(i)) /\ (Taken(i)' <=> Taken(i))
  BY <1>3 DEF Done, Taken
<1>5. MineInv(c)'
  BY <1>1, <1>2, <1>3 DEF MineInv, Working
<1>6. from \notin Leaving /\ to \notin Leaving
  BY DEF Leaving
<1> QED
  BY <1>1, <1>4, <1>5, <1>6, QuietStep

\* The load of the index.
LEMMA TakesIndex ==
    ASSUME ClaimInv, NEW n, NEW blk, NEW org, NEW lim, Ghosts(n, blk, org, lim),
           Layout(n, blk, org, lim), NEW c \in Consumers, Dequeue_Index(c)
    PROVE  Layout(n, blk, org, lim)'
<1> DEFINE l == [loc[c] EXCEPT !.hdr = Len(headers)]
<1>1. CounterTypes /\ BlockTypes /\ DOMAIN loc[c] = Fields
  BY DEF ClaimInv, CounterTypes, Layout, ConsumerInv
<1>2. /\ ConsumerStep(c, "index", "cur", l) /\ entries' = entries /\ UNCHANGED blockVars
      /\ headIndex' = headIndex
  BY DEF Dequeue_Index
<1>3. cpc'[c] = "cur" /\ loc'[c] = l /\ headers' = headers
  BY <1>1, <1>2, Moved DEF ConsumerStep, prodVars
<1>4. l.idx = loc[c].idx /\ l.last = loc[c].last /\ l.hdr = Newest
  BY <1>1 DEF Fields, Newest
<1> HIDE DEF l
<1>5. Newest' = Newest /\ Newest \in 1 .. Newest
  BY <1>1, <1>3, NewestIs DEF Newest
<1>6. WayInv(c, n, blk, org, lim)'
  BY <1>1, <1>3, <1>4, <1>5, NewestIs DEF WayInv
<1> QED
  BY <1>2, <1>4, <1>6, FindingStep

\* Where the current slot points.
LEMMA CurrentNumber ==
    ASSUME ClaimInv, NEW n, NEW blk, NEW org, NEW lim, Ghosts(n, blk, org, lim),
           Layout(n, blk, org, lim), NEW c \in Consumers, cpc[c] = "cur",
           NEW h \in 1 .. Newest, loc[c].hdr = h
    PROVE  \E m \in Nat :
              /\ headers[h].cur = Pos(h, m, org)
              /\ loc[c].idx < Base(m) + BlockSize
              /\ \/ m < Limit(h, n, lim)
                 \/ /\ m = n /\ h = Newest /\ ~isExplicit
                    /\ tailIndex = Base(n) /\ Spare(n, org)
<1>1. /\ BlockTypes /\ MineInv(c) /\ cpc[c] \in Working \ Leaving /\ n \in Nat
      /\ OldInv(n, org, lim) /\ HeaderInv(n, org) /\ EntriesInv(n, blk, org, lim) /\ TailInv(n)
  BY DEF Layout, Working, Leaving, Ghosts
<1>2. PICK k \in Nat : In(c, k)
  BY <1>1, PlaceExists
<1>3. k < Written(n) /\ k < Limit(h, n, lim)
  BY <1>1, <1>2, AtWork
<1>4. loc[c].idx \in Nat /\ loc[c].idx < headIndex /\ loc[c].idx < Base(k) + BlockSize
      /\ Base(k) <= loc[c].idx
  BY <1>1, <1>2 DEF MineInv, In, ClaimInv, CounterTypes, Working
<1>5. \A m \in Nat : k <= m => loc[c].idx < Base(m) + BlockSize
  <2> SUFFICES ASSUME NEW m \in Nat, k < m PROVE loc[c].idx < Base(m) + BlockSize
    BY <1>4
  <2>1. Base(k) + BlockSize <= Base(m)
    BY BaseOrder
  <2>2. Base(k) \in Nat /\ Base(m) \in Nat /\ BlockSize \in Nat
    BY BaseOfNat, BlockSizeIs
  <2> QED
    BY <1>4, <2>1, <2>2
<1>6. Newest \in Nat /\ h \in Nat /\ lim \in [Nat -> Nat]
  BY <1>1, NewestIs DEF Ghosts
<1>7. CASE h # Newest
  <2>1. h \in 1 .. Newest - 1
    BY <1>6, <1>7
  <2>2. headers[h].cur = Pos(h, lim[h] - 1, org) /\ Limit(h, n, lim) = lim[h]
    BY <1>1, <1>7, <2>1 DEF OldInv, Limit
  <2>3. lim[h] - 1 \in Nat /\ k <= lim[h] - 1 /\ lim[h] - 1 < Limit(h, n, lim)
    BY <1>3, <1>6, <2>2
  <2> QED
    BY <1>5, <2>2, <2>3
<1>8. CASE h = Newest
  <2>0. Header = headers[h] /\ Limit(h, n, lim) = Written(n)
    BY <1>1, <1>8, NewestIs DEF Limit
  <2>1. CASE ppc \in {"idle", "tail"}
    <3>1. Written(n) = n /\ n - 1 \in Nat /\ k <= n - 1 /\ n > 0
      BY <1>1, <1>3, <2>1 DEF Written
    <3>2. headers[h].cur = Pos(h, n - 1, org)
      BY <1>1, <1>8, <2>0, <2>1, <3>1 DEF HeaderInv
    <3>3. n - 1 < Limit(h, n, lim)
      BY <1>1, <2>0, <3>1
    <3> QED
      BY <1>5, <3>1, <3>2, <3>3
  <2>2. CASE ppc \in {"entry", "front"}
    <3>1. n - 1 \in Nat /\ tailIndex = Base(n - 1) /\ headIndex <= tailIndex
      BY <1>1, <2>2, TailIs
    <3>2. loc[c].idx < Base(n - 1)
      BY <1>4, <3>1 DEF ClaimInv, CounterTypes
    <3>3. k < n - 1
      BY <1>4, <3>1, <3>2, NumberBelow
    <3>4. n - 2 \in Nat /\ k <= n - 2 /\ n > 1 /\ n - 2 < Written(n)
      BY <1>1, <3>3 DEF Written
    <3>5. headers[h].cur = Pos(h, n - 2, org)
      BY <1>1, <1>8, <2>0, <2>2, <3>4 DEF HeaderInv
    <3> QED
      BY <1>5, <2>0, <3>4, <3>5
  <2>3. CASE ppc = "block"
    <3>1. headers[h].cur = Pos(h, n, org) /\ ~isExplicit /\ tailIndex = Base(n) /\ Spare(n, org)
      BY <1>1, <1>8, <2>0, <2>3 DEF HeaderInv, TailInv, EntriesInv
    <3>2. k <= n
      BY <1>1, <1>3 DEF Written
    <3> QED
      BY <1>1, <1>5, <1>8, <3>1, <3>2
  <2> QED
    BY <1>1, <2>1, <2>2, <2>3 DEF BlockTypes
<1> QED
  BY <1>7, <1>8

\* The load of the current slot.
LEMMA TakesCur ==
    ASSUME ClaimInv, NEW n, NEW blk, NEW org, NEW lim, Ghosts(n, blk, org, lim),
           Layout(n, blk, org, lim), NEW c \in Consumers, Dequeue_Cur(c)
    PROVE  Layout(n, blk, org, lim)'
<1> DEFINE l == [loc[c] EXCEPT !.cur = headers[loc[c].hdr].cur]
<1>1. CounterTypes /\ BlockTypes /\ DOMAIN loc[c] = Fields /\ WayInv(c, n, blk, org, lim)
  BY DEF ClaimInv, CounterTypes, Layout, ConsumerInv
<1>2. /\ ConsumerStep(c, "cur", "slot", l) /\ entries' = entries /\ UNCHANGED blockVars
      /\ headIndex' = headIndex
  BY DEF Dequeue_Cur
<1>3. /\ cpc[c] = "cur" /\ cpc'[c] = "slot" /\ loc'[c] = l /\ headers' = headers
      /\ isExplicit' = isExplicit /\ ppc' = ppc /\ tailIndex' = tailIndex
  BY <1>1, <1>2, Moved DEF ConsumerStep, prodVars
<1>4. l.idx = loc[c].idx /\ l.last = loc[c].last /\ l.hdr = loc[c].hdr
      /\ l.cur = headers[loc[c].hdr].cur
  BY <1>1 DEF Fields
<1> HIDE DEF l
<1>5. PICK h \in 1 .. Newest : loc[c].hdr = h
  BY <1>1, <1>3 DEF WayInv, Working
<1>6. PICK m \in Nat :
              /\ headers[h].cur = Pos(h, m, org)
              /\ loc[c].idx < Base(m) + BlockSize
              /\ \/ m < Limit(h, n, lim)
                 \/ /\ m = n /\ h = Newest /\ ~isExplicit
                    /\ tailIndex = Base(n) /\ Spare(n, org)
  BY <1>3, <1>5, CurrentNumber
<1>7. /\ Newest' = Newest /\ Pos(h, m, org)' = Pos(h, m, org)
      /\ Limit(h, n, lim)' = Limit(h, n, lim) /\ Spare(n, org)' = Spare(n, org)
  BY <1>2, <1>3 DEF Newest, Pos, SizeOf, Limit, Written, Spare, Id
<1>8. CurInv(c, n, org, lim)'
  <2>1. /\ loc'[c].cur = Pos(h, m, org)' /\ loc'[c].idx < Base(m) + BlockSize /\ loc'[c].hdr = h
        /\ \/ m < Limit(h, n, lim)'
           \/ /\ m = n /\ h = Newest' /\ ~isExplicit'
              /\ tailIndex' = Base(n) /\ Spare(n, org)'
    BY <1>3, <1>4, <1>5, <1>6, <1>7
  <2> QED
    BY <2>1 DEF CurInv
<1>9. WayInv(c, n, blk, org, lim)'
  BY <1>1, <1>3, <1>4, <1>7, <1>8 DEF WayInv, Working
<1> QED
  BY <1>2, <1>4, <1>9, FindingStep

\* The slot counted from the current one is that of the first element's block.
LEMMA TakesSlot ==
    ASSUME ClaimInv, NEW n, NEW blk, NEW org, NEW lim, Ghosts(n, blk, org, lim),
           Layout(n, blk, org, lim), NEW c \in Consumers, Dequeue_Slot(c)
    PROVE  Layout(n, blk, org, lim)'
<1> DEFINE g == headers[loc[c].hdr]
           offset == (BlockBase(loc[c].idx) - entries[g.slot[loc[c].cur]].base) \div BlockSize
           l == [loc[c] EXCEPT !.slot = (loc[c].cur + offset) % SizeOf(g), !.cur = 0]
<1>1. /\ CounterTypes /\ BlockTypes /\ DOMAIN loc[c] = Fields /\ WayInv(c, n, blk, org, lim)
      /\ EntriesInv(n, blk, org, lim) /\ MineInv(c)
  BY DEF ClaimInv, CounterTypes, Layout, ConsumerInv
<1>2. /\ ConsumerStep(c, "slot", "read", l) /\ entries' = entries /\ UNCHANGED blockVars
      /\ headIndex' = headIndex
  BY DEF Dequeue_Slot
<1>3. /\ cpc[c] = "slot" /\ cpc'[c] = "read" /\ loc'[c] = l /\ headers' = headers
  BY <1>1, <1>2, Moved DEF ConsumerStep, prodVars
<1>4. l.idx = loc[c].idx /\ l.last = loc[c].last /\ l.hdr = loc[c].hdr
      /\ l.slot = (loc[c].cur + offset) % SizeOf(g)
  BY <1>1 DEF Fields
<1> HIDE DEF l
<1>5. cpc[c] \in Working \ Leaving /\ cpc[c] \in Working \ {"index"}
  BY <1>3 DEF Working, Leaving
<1>6. PICK k \in Nat : In(c, k)
  BY <1>1, <1>5, PlaceExists
<1>7. Held(n, k) /\ k < Limit(loc[c].hdr, n, lim) /\ BlockBase(loc[c].idx) = Base(k)
  <2>1. cpc[c] # "index"
    BY <1>5
  <2> QED
    BY <1>1, <1>5, <1>6, <2>1, AtWork, PlaceIs
<1>8. PICK h \in 1 .. Newest : loc[c].hdr = h
  BY <1>1, <1>5 DEF WayInv
<1>9. PICK m \in Nat :
              /\ loc[c].cur = Pos(h, m, org)
              /\ loc[c].idx < Base(m) + BlockSize
              /\ \/ m < Limit(h, n, lim)
                 \/ /\ m = n /\ h = Newest /\ ~isExplicit
                    /\ tailIndex = Base(n) /\ Spare(n, org)
  BY <1>1, <1>3, <1>8 DEF WayInv, CurInv
<1>10. k <= m
  <2>1. Base(m + 1) = Base(m) + BlockSize /\ m + 1 \in Int
    BY BaseIs
  <2>2. loc[c].idx \in Nat /\ Base(k) <= loc[c].idx
    BY <1>1, <1>5, <1>6 DEF MineInv, In
  <2>3. k < m + 1
    BY <1>9, <2>1, <2>2, NumberBelow
  <2> QED
    BY <2>3
<1>11. entries[Id(h, m, org)].base = Base(m)
  <2>1. CASE m < Limit(h, n, lim)
    <3>1. Kept(n, m)
      BY <1>7, <1>10 DEF Kept
    <3>2. Limit(h, n, lim) \in Int
      BY <1>1, <1>8, NewestIs DEF Limit, Written, Ghosts
    <3>3. m \in 0 .. Limit(h, n, lim) - 1
      BY <2>1, <3>2
    <3> QED
      BY <1>1, <3>1, <3>3 DEF EntriesInv
  <2>2. CASE h = Newest /\ m = n /\ Spare(n, org)
    BY <2>2 DEF Spare
  <2> QED
    BY <1>9, <2>1, <2>2
<1>12. offset = k - m
  <2>1. entries[g.slot[loc[c].cur]].base = Base(m)
    BY <1>8, <1>9, <1>11 DEF Id
  <2>2. (Base(k) - Base(m)) \div BlockSize = k - m
    BY Apart
  <2> QED
    BY <1>7, <2>1, <2>2
<1>13. l.slot = Pos(h, k, org)
  <2>0. org \in [Nat -> Int] /\ m \in Int /\ k - m \in Int /\ m + (k - m) = k
    BY DEF Ghosts
  <2>1. (Pos(h, m, org) + (k - m)) % SizeOf(headers[h]) = Pos(h, m + (k - m), org)
    BY <1>1, <2>0, PosIs
  <2> HIDE DEF offset
  <2> QED
    BY <1>4, <1>8, <1>9, <1>12, <2>0, <2>1
<1>14. /\ Newest' = Newest /\ Pos(h, k, org)' = Pos(h, k, org)
  BY <1>3 DEF Newest, Pos, SizeOf
<1>15. \A j \in Nat : In(c, j)' => j = k
  <2>1. \A j \in Nat : In(c, j)' => In(c, j)
    BY <1>3, <1>4 DEF In
  <2> QED
    BY <1>1, <1>5, <1>6, <2>1, PlaceUnique
<1>16. loc'[c].hdr = h /\ loc'[c].slot = Pos(h, k, org)' /\ loc'[c].last = loc[c].last
  BY <1>3, <1>4, <1>8, <1>13, <1>14
<1>17. WayInv(c, n, blk, org, lim)'
  <2>1. \A j \in Nat : In(c, j)' => loc'[c].slot = Pos(loc[c].hdr, j, org)'
    BY <1>15, <1>16
  <2>2. h < Newest => loc[c].last <= Base(lim[h])
    BY <1>1, <1>5, <1>8 DEF WayInv
  <2> QED
    BY <1>3, <1>8, <1>14, <1>16, <2>1, <2>2 DEF WayInv
<1> QED
  BY <1>2, <1>4, <1>17, FindingStep

\* The elements of c in one block.
LEMMA InBlockIs ==
    ASSUME ClaimInv, NEW c \in Consumers, MineInv(c), cpc[c] \in Working, NEW k \in Nat, In(c, k)
    PROVE  /\ \A i \in InBlock(c) : /\ i \in Nat /\ i \in Mine(c) /\ i < headIndex
                                    /\ Base(k) <= i /\ i < Base(k) + BlockSize
           /\ \A i \in Mine(c) : i \in InBlock(c) <=> ~(i >= EndIndex(c))
           /\ \A j \in Nat : \A o \in Offsets : Base(j) + o \in InBlock(c) => j = k
<1>1. /\ EndIndex(c) = IF loc[c].last <= Base(k) + BlockSize THEN loc[c].last
                        ELSE Base(k) + BlockSize
      /\ EndIndex(c) \in Nat
  BY PlaceIs
<1>2. /\ loc[c].idx \in Nat /\ loc[c].last \in Nat /\ loc[c].last <= headIndex
      /\ Base(k) <= loc[c].idx
  BY DEF MineInv, In
<1>3. headIndex \in Nat /\ BlockSize \in Nat /\ Base(k) \in Nat
  BY BlockSizeIs, BaseOfNat DEF ClaimInv, CounterTypes
<1>4. Mine(c) = loc[c].idx .. loc[c].last - 1
  BY DEF Mine
<1>5. \A i \in InBlock(c) : /\ i \in Nat /\ i \in Mine(c) /\ i < headIndex
                            /\ Base(k) <= i /\ i < Base(k) + BlockSize
  <2>1. \A i \in InBlock(c) : i \in Nat /\ loc[c].idx <= i /\ i < EndIndex(c)
    BY <1>1, <1>2 DEF InBlock
  <2>2. EndIndex(c) <= loc[c].last /\ EndIndex(c) <= Base(k) + BlockSize
    BY <1>1, <1>2, <1>3
  <2> QED
    BY <1>1, <1>2, <1>3, <1>4, <2>1, <2>2
<1>6. \A i \in Mine(c) : i \in InBlock(c) <=> ~(i >= EndIndex(c))
  BY <1>1, <1>2, <1>3, <1>4 DEF InBlock
<1>7. ASSUME NEW j \in Nat, NEW o \in Offsets, Base(j) + o \in InBlock(c) PROVE j = k
  <2>1. PICK i \in Nat : i = Base(j) + o /\ Base(j) <= i /\ i < Base(j) + BlockSize
    BY ElementIs
  <2>2. Base(k) <= i /\ i < Base(k) + BlockSize /\ i \in Int /\ j \in Int /\ k \in Int
    BY <1>5, <1>7, <2>1
  <2> QED
    BY <2>1, <2>2, OneNumber
<1> QED
  BY <1>5, <1>6, <1>7

\* Moving the elements out of the block.
LEMMA TakesElements ==
    ASSUME ClaimInv, NEW n, NEW blk, NEW org, NEW lim, Ghosts(n, blk, org, lim),
           Layout(n, blk, org, lim), NEW c \in Consumers, Dequeue_Read(c)
    PROVE  Layout(n, blk, org, lim)'
<1> DEFINE l == [loc[c] EXCEPT !.blk = entries[EntryOf(c)].block]
<1>1. /\ CounterTypes /\ BlockTypes /\ DOMAIN loc[c] = Fields /\ WayInv(c, n, blk, org, lim)
      /\ EntriesInv(n, blk, org, lim) /\ MineInv(c) /\ BlocksInv(n, blk) /\ n \in Nat
      /\ headIndex \in Nat
  BY DEF ClaimInv, CounterTypes, Layout, ConsumerInv, Ghosts
<1>2. /\ ConsumerStep(c, "read", "empty", l) /\ entries' = entries
      /\ headIndex' = headIndex /\ emptyFlags' = emptyFlags /\ home' = home
      /\ elementsCompletelyDequeued' = elementsCompletelyDequeued
  BY DEF Dequeue_Read
<1>3. /\ cpc[c] = "read" /\ cpc'[c] = "empty" /\ loc'[c] = l /\ headers' = headers
      /\ isExplicit' = isExplicit /\ ring' = ring /\ ppc' = ppc /\ tailIndex' = tailIndex
      /\ \A d \in Consumers \ {c} : cpc'[d] = cpc[d] /\ loc'[d] = loc[d]
  BY <1>1, <1>2, Moved DEF ConsumerStep, prodVars
<1>4. l.idx = loc[c].idx /\ l.last = loc[c].last /\ l.hdr = loc[c].hdr
      /\ l.slot = loc[c].slot /\ l.blk = entries[EntryOf(c)].block
  BY <1>1 DEF Fields
<1> HIDE DEF l
<1>5. cpc[c] \in Working /\ cpc[c] \notin Leaving
  BY <1>3 DEF Working, Leaving
<1>6. PICK k \in Nat : In(c, k)
  BY <1>1, <1>5, PlaceExists
<1>7. entries[EntryOf(c)].block = blk[k] /\ InUse(n, k) /\ Holding(k, blk[k])
  <2>1. /\ entries[EntryOf(c)] = [base |-> Base(k), block |-> blk[k]]
        /\ InUse(n, k) /\ Holding(k, blk[k])
    BY <1>3, <1>6, FoundElement
  <2> QED
    BY <2>1
<1>8. PICK b \in Blocks : b = blk[k] /\ home[b] = "used"
  BY <1>7 DEF Holding
<1>9. elements' = [elements EXCEPT ![b] =
                     [o \in Offsets |-> IF o \in SlotsOf(c) THEN Gone ELSE elements[b][o]]]
  BY <1>7, <1>8 DEF Dequeue_Read
<1>10. /\ elements' \in [Blocks -> [Offsets -> Int]]
       /\ \A a \in Blocks : a # b => elements'[a] = elements[a]
       /\ \A o \in Offsets : elements'[b][o] = IF o \in SlotsOf(c) THEN Gone ELSE elements[b][o]
  BY <1>1, <1>9 DEF BlockTypes, Gone
<1>11. /\ \A i \in InBlock(c) : /\ i \in Nat /\ i \in Mine(c) /\ i < headIndex
                                /\ Base(k) <= i /\ i < Base(k) + BlockSize
       /\ \A i \in Mine(c) : i \in InBlock(c) <=> ~(i >= EndIndex(c))
       /\ \A j \in Nat : \A o \in Offsets : Base(j) + o \in InBlock(c) => j = k
       /\ \A o \in Offsets : o \in SlotsOf(c) <=> Base(k) + o \in InBlock(c)
  BY <1>1, <1>5, <1>6, InBlockIs, PlaceIs
<1>12. /\ Mine(c)' = Mine(c) /\ Todo(c) = Mine(c) /\ Todo(c)' = Mine(c)
       /\ Unread(c) = Mine(c) /\ Unread(c)' = Mine(c) \ InBlock(c)
  <2>1. Mine(c)' = Mine(c) /\ EndIndex(c)' = EndIndex(c)
    BY <1>3, <1>4 DEF Mine, Working, EndIndex
  <2>2. Todo(c) = Mine(c) /\ Unread(c) = Mine(c)
    BY <1>3 DEF Todo, Unread, Leaving
  <2>3. Todo(c)' = Mine(c)
    BY <1>3, <2>1 DEF Todo, Leaving
  <2>4. Unread(c)' = {i \in Mine(c) : i >= EndIndex(c)}
    BY <1>3, <2>1 DEF Unread
  <2> QED
    BY <1>11, <2>1, <2>2, <2>3, <2>4
<1>13. \A d \in Consumers \ {c} : Mine(d)' = Mine(d) /\ Todo(d)' = Todo(d) /\ Unread(d)' = Unread(d)
  BY <1>3, OthersStay
<1>14. \A i \in Nat : Done(i)' <=> Done(i)
  BY <1>2, <1>12, <1>13 DEF Done
<1>15. \A i \in Nat : Taken(i)' <=> Taken(i) \/ i \in InBlock(c)
  <2>1. \A d \in Consumers \ {c} : Mine(c) \cap Mine(d) = {} /\ Unread(d) \subseteq Mine(d)
    BY <1>1, <1>5 DEF MineInv, Unread
  <2> QED
    BY <1>2, <1>11, <1>12, <1>13, <2>1 DEF Taken
<1>16. \A k1 \in Nat : (Full(k1)' <=> Full(k1)) /\ DoneIn(k1)' = DoneIn(k1)
  BY <1>14, FullStays
<1>17. \A k1 : /\ LeftAt(k1, Leaving)' <=> LeftAt(k1, Leaving)
               /\ LeftAt(k1, {"null"})' <=> LeftAt(k1, {"null"})
  BY <1>3 DEF LeftAt, In, Leaving
<1>18. \A j \in Nat : (InUse(n, j)' <=> InUse(n, j)) /\ (Held(n, j)' <=> Held(n, j))
  BY <1>1, <1>3, <1>16, <1>17, UseStays
<1>19. BlocksInv(n, blk)'
  <2>1. \A i \in Nat : Content(i)' = IF i \in InBlock(c) THEN Gone ELSE Content(i)
    BY <1>3, <1>15 DEF Content, Built
  <2>2. ASSUME NEW j \in Nat, InUse(n, j) PROVE Holding(j, blk[j])'
    <3>1. Holding(j, blk[j]) /\ (blk[j] = b => j = k)
      BY <1>1, <1>7, <1>8, <2>2 DEF BlocksInv
    <3>2. PICK a \in Blocks : a = blk[j] /\ home[a] = "used"
      BY <3>1 DEF Holding
    <3>3. \A o \in Offsets : elements'[a][o] = Content(Base(j) + o)'
      <4> SUFFICES ASSUME NEW o \in Offsets PROVE elements'[a][o] = Content(Base(j) + o)'
        OBVIOUS
      <4>1. PICK i \in Nat : i = Base(j) + o
        BY ElementIs
      <4>2. elements[a][o] = Content(i)
        BY <3>1, <3>2, <4>1 DEF Holding
      <4>3. CASE j = k
        <5>1. a = b /\ (o \in SlotsOf(c) <=> i \in InBlock(c))
          BY <1>8, <1>11, <3>2, <4>1, <4>3
        <5> QED
          BY <1>10, <2>1, <4>1, <4>2, <5>1
      <4>4. CASE j # k
        <5>1. a # b /\ i \notin InBlock(c)
          BY <1>11, <3>1, <3>2, <4>1, <4>4
        <5> QED
          BY <1>10, <2>1, <4>1, <4>2, <5>1
      <4> QED
        BY <4>3, <4>4
    <3>4. Holding(j, a)
      BY <3>1, <3>2
    <3>5. Holding(j, a)'
      BY <1>2, <1>3, <1>16, <3>2, <3>3, <3>4 DEF Holding
    <3> QED
      BY <3>2, <3>5
  <2>3. \A a \in Blocks : home[a] # "used" => Vacant(a)'
    BY <1>1, <1>8, <1>10 DEF BlocksInv, Vacant
  <2> QED
    BY <1>1, <1>2, <1>18, <2>2, <2>3 DEF BlocksInv
<1>20. BlockTypes'
  BY <1>1, <1>2, <1>3, <1>10 DEF BlockTypes, Newest
<1>21. MineInv(c)'
  BY <1>1, <1>2, <1>3, <1>4, <1>5, <1>12, <1>13 DEF MineInv
<1>22. LeaveInv(c)'
  BY <1>3 DEF LeaveInv, Leaving
<1>23. WayInv(c, n, blk, org, lim)'
  <2>1. \A j \in Nat : In(c, j)' <=> In(c, j)
    BY <1>3, <1>4 DEF In
  <2>2. \A j \in Nat : In(c, j) => j = k
    BY <1>1, <1>5, <1>6, PlaceUnique
  <2>3. PICK h \in 1 .. Newest : loc[c].hdr = h
    BY <1>1, <1>3 DEF WayInv, Working
  <2>4. Newest' = Newest /\ \A j : Pos(h, j, org)' = Pos(h, j, org)
    BY <1>3 DEF Newest, Pos, SizeOf
  <2>5. loc[c].slot = Pos(h, k, org) /\ (h < Newest => loc[c].last <= Base(lim[h]))
    BY <1>1, <1>3, <1>6, <2>3 DEF WayInv, Working
  <2>6. /\ loc'[c].hdr = h /\ loc'[c].last = loc[c].last /\ loc'[c].slot = Pos(h, k, org)'
        /\ loc'[c].blk = blk[k]
    BY <1>3, <1>4, <1>7, <2>3, <2>4, <2>5
  <2> QED
    BY <1>3, <2>1, <2>2, <2>3, <2>4, <2>5, <2>6 DEF WayInv
<1> QED
  BY <1>1, <1>2, <1>16, <1>18, <1>19, <1>20, <1>21, <1>22, <1>23, ConsumerWorks DEF Leaving

\* On to the next block, or done.
LEMMA MovesOn ==
    ASSUME ClaimInv, NEW n, NEW blk, NEW org, NEW lim, Ghosts(n, blk, org, lim),
           Layout(n, blk, org, lim), NEW c \in Consumers, NEW from, NextBlockOr(c, from),
           from \in {"empty", "free"}, headIndex' = headIndex
    PROVE  /\ cpc[c] = from /\ cpc'[c] \in {"idle", "read"}
           /\ \A d \in Consumers \ {c} : cpc'[d] = cpc[d] /\ loc'[d] = loc[d]
           /\ isExplicit' = isExplicit /\ UNCHANGED prodVars
           /\ Mine(c)' = Mine(c) \ InBlock(c) /\ Todo(c)' = Mine(c)' /\ Unread(c)' = Mine(c)'
           /\ MineInv(c)' /\ WayInv(c, n, blk, org, lim)' /\ LeaveInv(c)'
<1> DEFINE l == [loc[c] EXCEPT !.idx = EndIndex(c), !.slot = (@ + 1) % SizeOf(headers[loc[c].hdr]),
                               !.blk = NoBlock]
<1>1. /\ CounterTypes /\ BlockTypes /\ DOMAIN loc[c] = Fields /\ WayInv(c, n, blk, org, lim)
      /\ MineInv(c) /\ headIndex \in Nat
  BY DEF ClaimInv, CounterTypes, Layout, ConsumerInv
<1>2. \E to, m : ConsumerStep(c, from, to, m)
  BY DEF NextBlockOr
<1>3. /\ cpc[c] = from /\ isExplicit' = isExplicit /\ UNCHANGED prodVars
      /\ \A d \in Consumers \ {c} : cpc'[d] = cpc[d] /\ loc'[d] = loc[d]
  BY <1>1, <1>2, Moved DEF ConsumerStep
<1>4. cpc[c] \in Working /\ headers' = headers /\ cpc[c] \in Working \ {"index"}
  BY <1>3 DEF Working, prodVars
<1>5. PICK k \in Nat : In(c, k)
  BY <1>1, <1>4, PlaceExists
<1>6. /\ EndIndex(c) = IF loc[c].last <= Base(k) + BlockSize THEN loc[c].last
                        ELSE Base(k) + BlockSize
      /\ EndIndex(c) \in Nat /\ loc[c].idx < EndIndex(c)
      /\ \A i \in Mine(c) : i \in InBlock(c) <=> ~(i >= EndIndex(c))
  BY <1>1, <1>4, <1>5, PlaceIs, InBlockIs
<1>7. /\ loc[c].idx \in Nat /\ loc[c].last \in Nat /\ loc[c].last <= headIndex
      /\ Mine(c) = loc[c].idx .. loc[c].last - 1
      /\ \A d \in Consumers \ {c} : Mine(c) \cap Mine(d) = {}
  BY <1>1, <1>4 DEF MineInv, Mine
<1>8. Mine(c) \ InBlock(c) = {i \in Mine(c) : i >= EndIndex(c)}
  BY <1>6
<1>9. \A d \in Consumers \ {c} : Mine(d)' = Mine(d)
  BY <1>3, OthersStay
<1>10. CASE EndIndex(c) = loc[c].last
  <2>1. cpc'[c] = "idle"
    BY <1>1, <1>10, Moved DEF NextBlockOr
  <2>2. Mine(c)' = {} /\ Todo(c)' = {} /\ Unread(c)' = {}
    BY <2>1 DEF Mine, Todo, Unread, Working
  <2>3. Mine(c) \ InBlock(c) = {}
    BY <1>7, <1>8, <1>10
  <2>4. MineInv(c)' /\ WayInv(c, n, blk, org, lim)' /\ LeaveInv(c)'
    BY <2>1 DEF MineInv, WayInv, LeaveInv, Working, Leaving
  <2> QED
    BY <1>3, <2>1, <2>2, <2>3, <2>4
<1>11. CASE EndIndex(c) # loc[c].last
  <2>1. ConsumerStep(c, from, "read", l)
    BY <1>11 DEF NextBlockOr
  <2>2. cpc'[c] = "read" /\ loc'[c] = l
    BY <1>1, <2>1, Moved
  <2>3. /\ l.idx = EndIndex(c) /\ l.last = loc[c].last /\ l.hdr = loc[c].hdr
        /\ l.slot = (loc[c].slot + 1) % SizeOf(headers[loc[c].hdr])
    BY <1>1 DEF Fields
  <2> HIDE DEF l
  <2>4. Mine(c)' = EndIndex(c) .. loc[c].last - 1 /\ Todo(c)' = Mine(c)' /\ Unread(c)' = Mine(c)'
    BY <2>2, <2>3 DEF Mine, Todo, Unread, Working, Leaving
  <2>5. Mine(c)' = Mine(c) \ InBlock(c)
    BY <1>6, <1>7, <1>8, <2>4
  <2>6. EndIndex(c) = Base(k) + BlockSize /\ EndIndex(c) < loc[c].last
    <3>1. Base(k) \in Nat /\ BlockSize \in Nat
      BY BaseOfNat, BlockSizeIs
    <3> QED
      BY <1>6, <1>7, <1>11, <3>1
  <2>7. MineInv(c)'
    <3>1. \A d \in Consumers \ {c} : Mine(c)' \cap Mine(d)' = {}
      BY <1>7, <1>9, <2>5
    <3> QED
      BY <1>6, <1>7, <2>2, <2>3, <2>6, <3>1 DEF MineInv
  <2>8. LeaveInv(c)'
    BY <2>2 DEF LeaveInv, Leaving
  <2>9. PICK h \in 1 .. Newest : loc[c].hdr = h
    BY <1>1, <1>4 DEF WayInv
  <2>10. loc[c].slot = Pos(h, k, org) /\ (h < Newest => loc[c].last <= Base(lim[h]))
    BY <1>1, <1>3, <1>4, <1>5, <2>9 DEF WayInv
  <2>11. l.slot = Pos(h, k + 1, org)
    <3>1. org \in [Nat -> Int] /\ k \in Int /\ 1 \in Int
      BY DEF Ghosts
    <3>2. (Pos(h, k, org) + 1) % SizeOf(headers[h]) = Pos(h, k + 1, org)
      BY <1>1, <3>1, PosIs
    <3> QED
      BY <2>3, <2>9, <2>10, <3>2
  <2>12. Newest' = Newest /\ \A j : Pos(h, j, org)' = Pos(h, j, org)
    BY <1>4 DEF Newest, Pos, SizeOf
  <2>13. ASSUME NEW j \in Nat, In(c, j)' PROVE j = k + 1
    <3>1. Base(k + 1) = Base(k) + BlockSize /\ Base(k + 1) \in Int /\ k + 1 \in Int /\ j \in Int
      BY BaseIs
    <3>2. EndIndex(c) \in Int /\ Base(j) <= EndIndex(c) /\ EndIndex(c) < Base(j) + BlockSize
      BY <1>6, <2>2, <2>3, <2>13 DEF In
    <3>3. Base(k + 1) <= EndIndex(c) /\ EndIndex(c) < Base(k + 1) + BlockSize
      BY <2>6, <3>1, BlockSizeIs
    <3>4. PICK i \in Int : i = EndIndex(c)
      BY <3>2
    <3> QED
      BY <3>1, <3>2, <3>3, <3>4, OneNumber
  <2>14. loc'[c].hdr = h /\ loc'[c].last = loc[c].last /\ loc'[c].slot = Pos(h, k + 1, org)'
    BY <2>2, <2>3, <2>9, <2>11, <2>12
  <2>15. WayInv(c, n, blk, org, lim)'
    BY <2>2, <2>9, <2>10, <2>12, <2>13, <2>14 DEF WayInv
  <2> QED
    BY <1>3, <2>2, <2>4, <2>5, <2>7, <2>8, <2>15
<1> QED
  BY <1>10, <1>11

\* The slots c reports are not yet reported, and there is room for them.
LEMMA AtEmpty ==
    ASSUME ClaimInv, NEW n, NEW blk, NEW org, NEW lim, Ghosts(n, blk, org, lim),
           Layout(n, blk, org, lim), NEW c \in Consumers, cpc[c] = "empty",
           NEW k \in Nat, In(c, k)
    PROVE  ~Full(k) /\ InUse(n, k) /\ Held(n, k) /\ loc[c].blk = blk[k] /\ Holding(k, blk[k])
<1>1. cpc[c] \in Working \ Leaving
  BY DEF Working, Leaving
<1>2. ~Full(k) /\ InUse(n, k) /\ Held(n, k)
  BY <1>1, AtWork
<1>3. loc[c].blk = blk[k] /\ Holding(k, blk[k])
  BY <1>2 DEF Layout, WayInv, BlocksInv
<1> QED
  BY <1>2, <1>3

LEMMA RoomAtEmpty ==
    ASSUME ClaimInv, NEW c \in Consumers, MineInv(c), cpc[c] = "empty", NEW k \in Nat, In(c, k)
    PROVE  /\ DoneIn(k) \cap SlotsOf(c) = {}
           /\ Cardinality(DoneIn(k)) \in Nat /\ Cardinality(SlotsOf(c)) \in Nat
           /\ Cardinality(DoneIn(k) \cup SlotsOf(c)) =
                Cardinality(DoneIn(k)) + Cardinality(SlotsOf(c))
           /\ Cardinality(DoneIn(k)) + Cardinality(SlotsOf(c)) <= BlockSize
           /\ Cardinality(DoneIn(k)) + Cardinality(SlotsOf(c)) = BlockSize
                <=> DoneIn(k) \cup SlotsOf(c) = Offsets
<1>1. cpc[c] \in Working
  BY DEF Working
<1>4. /\ SlotsOf(c) \subseteq Offsets
      /\ \A o \in Offsets : o \in SlotsOf(c) <=> Base(k) + o \in InBlock(c)
      /\ \A i \in InBlock(c) : i \in Mine(c)
  BY <1>1, PlaceIs, InBlockIs
<1>5. \A i \in Mine(c) : ~Done(i)
  BY DEF Done, Todo, Leaving
<1>6. DoneIn(k) \cap SlotsOf(c) = {} /\ DoneIn(k) \subseteq Offsets
  BY <1>4, <1>5 DEF DoneIn
<1>7. IsFiniteSet(Offsets) /\ Cardinality(Offsets) = BlockSize
  BY FS_Interval, BlockSizeIs
<1>8. IsFiniteSet(DoneIn(k)) /\ IsFiniteSet(SlotsOf(c))
  BY <1>4, <1>6, <1>7, FS_Subset
<1>9. Cardinality(DoneIn(k)) \in Nat /\ Cardinality(SlotsOf(c)) \in Nat
  BY <1>8, FS_CardinalityType
<1>10. Cardinality(DoneIn(k) \cup SlotsOf(c)) =
          Cardinality(DoneIn(k)) + Cardinality(SlotsOf(c)) - Cardinality(DoneIn(k) \cap SlotsOf(c))
  BY <1>8, FS_Union
<1>11. Cardinality(DoneIn(k) \cap SlotsOf(c)) = 0
  BY <1>6, FS_EmptySet
<1>12. Cardinality(DoneIn(k) \cup SlotsOf(c)) =
          Cardinality(DoneIn(k)) + Cardinality(SlotsOf(c))
  BY <1>9, <1>10, <1>11
<1>13. DoneIn(k) \cup SlotsOf(c) \subseteq Offsets
  BY <1>4, <1>6
<1>14. /\ Cardinality(DoneIn(k) \cup SlotsOf(c)) <= Cardinality(Offsets)
       /\ Cardinality(DoneIn(k) \cup SlotsOf(c)) = Cardinality(Offsets) =>
             DoneIn(k) \cup SlotsOf(c) = Offsets
  BY <1>7, <1>13, FS_Subset
<1> QED
  BY <1>6, <1>7, <1>9, <1>12, <1>14

\* What is done once c has reported its slots.
LEMMA Reports ==
    ASSUME ClaimInv, NEW n, NEW blk, NEW org, NEW lim, Ghosts(n, blk, org, lim),
           Layout(n, blk, org, lim), NEW c \in Consumers, cpc[c] = "empty",
           NEW k \in Nat, In(c, k), headIndex' = headIndex,
           \A d \in Consumers \ {c} : cpc'[d] = cpc[d] /\ loc'[d] = loc[d],
           Todo(c)' = Mine(c) \ InBlock(c), Unread(c)' = Mine(c) \ InBlock(c)
    PROVE  /\ \A i \in Nat : Taken(i)' <=> Taken(i)
           /\ DoneIn(k)' = DoneIn(k) \cup SlotsOf(c)
           /\ Full(k)' <=> DoneIn(k) \cup SlotsOf(c) = Offsets
           /\ \A j \in Nat \ {k} : DoneIn(j)' = DoneIn(j) /\ (Full(j)' <=> Full(j))
           /\ \A j \in Nat : Full(j) => Full(j)'
<1>1. cpc[c] \in Working /\ MineInv(c) /\ headIndex \in Nat
  BY DEF Working, Layout, ClaimInv, CounterTypes
<1>2. /\ \A i \in InBlock(c) : i \in Nat /\ i \in Mine(c) /\ i < headIndex
      /\ \A i \in Mine(c) : i \in InBlock(c) <=> ~(i >= EndIndex(c))
      /\ \A j \in Nat : \A o \in Offsets : Base(j) + o \in InBlock(c) => j = k
      /\ \A o \in Offsets : o \in SlotsOf(c) <=> Base(k) + o \in InBlock(c)
      /\ SlotsOf(c) \subseteq Offsets
  BY <1>1, InBlockIs, PlaceIs
<1>3. Todo(c) = Mine(c) /\ Unread(c) = Mine(c) \ InBlock(c)
  BY <1>2 DEF Todo, Unread, Leaving
<1>4. \A d \in Consumers \ {c} : /\ Todo(d)' = Todo(d) /\ Unread(d)' = Unread(d)
                                 /\ Mine(c) \cap Mine(d) = {} /\ Todo(d) \subseteq Mine(d)
  BY <1>1, OthersStay DEF MineInv, Todo
<1>5. \A i \in Nat : Taken(i)' <=> Taken(i)
  BY <1>3, <1>4 DEF Taken
<1>6. \A i \in Nat : Done(i)' <=> Done(i) \/ i \in InBlock(c)
  BY <1>2, <1>3, <1>4 DEF Done
<1>7. \A j \in Nat : \A o \in Offsets :
        Done(Base(j) + o)' <=> Done(Base(j) + o) \/ Base(j) + o \in InBlock(c)
  BY <1>6, ElementIs
<1>8. DoneIn(k)' = DoneIn(k) \cup SlotsOf(c)
  BY <1>2, <1>7 DEF DoneIn
<1>9. Full(k)' <=> DoneIn(k)' = Offsets
  BY DEF Full, DoneIn
<1>10. \A j \in Nat \ {k} : DoneIn(j)' = DoneIn(j) /\ (Full(j)' <=> Full(j))
  BY <1>2, <1>7 DEF DoneIn, Full
<1>11. \A j \in Nat : Full(j) => Full(j)'
  BY <1>7 DEF Full
<1> QED
  BY <1>5, <1>8, <1>9, <1>10, <1>11

\* The flags or the counter of the block c was at, after it has reported.
LEMMA BlocksReported ==
    ASSUME ClaimInv, NEW n, NEW blk, NEW org, NEW lim, Ghosts(n, blk, org, lim),
           Layout(n, blk, org, lim), NEW c \in Consumers, cpc[c] = "empty",
           NEW k \in Nat, In(c, k), headIndex' = headIndex,
           \A d \in Consumers \ {c} : cpc'[d] = cpc[d] /\ loc'[d] = loc[d],
           Todo(c)' = Mine(c) \ InBlock(c), Unread(c)' = Mine(c) \ InBlock(c),
           isExplicit' = isExplicit, Built' = Built, elements' = elements, home' = home,
           \A j \in Nat : InUse(n, j)' <=> InUse(n, j),
           \A b \in Blocks : b # blk[k] =>
               /\ emptyFlags'[b] = emptyFlags[b]
               /\ elementsCompletelyDequeued'[b] = elementsCompletelyDequeued[b],
           isExplicit => emptyFlags'[blk[k]] = emptyFlags[blk[k]] \cup SlotsOf(c),
           ~isExplicit => elementsCompletelyDequeued'[blk[k]] =
                            elementsCompletelyDequeued[blk[k]] + Cardinality(SlotsOf(c))
    PROVE  BlocksInv(n, blk)'
<1>1. /\ \A i \in Nat : Taken(i)' <=> Taken(i)
      /\ DoneIn(k)' = DoneIn(k) \cup SlotsOf(c)
      /\ \A j \in Nat \ {k} : DoneIn(j)' = DoneIn(j) /\ (Full(j)' <=> Full(j))
      /\ \A j \in Nat : Full(j) => Full(j)'
  BY Reports
<1>2. /\ ~Full(k) /\ InUse(n, k) /\ Holding(k, blk[k])
      /\ Cardinality(DoneIn(k) \cup SlotsOf(c)) =
                Cardinality(DoneIn(k)) + Cardinality(SlotsOf(c))
  <2>1. MineInv(c)
    BY DEF Layout
  <2> QED
    BY <2>1, AtEmpty, RoomAtEmpty
<1>3. \A i \in Nat : Content(i)' = Content(i)
  BY <1>1 DEF Content
<1>4. BlocksInv(n, blk)
  BY DEF Layout
<1>5. ASSUME NEW j \in Nat, InUse(n, j) PROVE Holding(j, blk[j])'
  <2>1. Holding(j, blk[j]) /\ (blk[j] = blk[k] => j = k)
    BY <1>2, <1>4, <1>5 DEF BlocksInv
  <2>2. PICK a \in Blocks : a = blk[j] /\ home[a] = "used" /\ Holding(j, a)
    BY <2>1 DEF Holding
  <2>3. \A o \in Offsets : elements'[a][o] = Content(Base(j) + o)'
    <3>1. \A o \in Offsets : Base(j) + o \in Nat
      BY ElementIs
    <3> QED
      BY <1>3, <2>2, <3>1 DEF Holding
  <2>4. isExplicit => emptyFlags'[a] = DoneIn(j)'
    BY <1>1, <2>1, <2>2 DEF Holding
  <2>5. ~isExplicit /\ ~Full(j)' => elementsCompletelyDequeued'[a] = Cardinality(DoneIn(j))'
    BY <1>1, <1>2, <2>1, <2>2 DEF Holding
  <2>6. Holding(j, a)'
    BY <2>2, <2>3, <2>4, <2>5 DEF Holding
  <2> QED
    BY <2>2, <2>6
<1>6. \A a : Vacant(a)' <=> Vacant(a)
  BY DEF Vacant
<1> QED
  BY <1>4, <1>5, <1>6 DEF BlocksInv

\* set_many_empty: the block stays in the ring.
LEMMA EmptiesExplicit ==
    ASSUME ClaimInv, NEW n, NEW blk, NEW org, NEW lim, Ghosts(n, blk, org, lim),
           Layout(n, blk, org, lim), NEW c \in Consumers, Dequeue_Empty_Explicit(c)
    PROVE  Layout(n, blk, org, lim)'
<1>1. /\ isExplicit /\ NextBlockOr(c, "empty") /\ headIndex' = headIndex /\ elements' = elements
      /\ emptyFlags' = [emptyFlags EXCEPT ![loc[c].blk] = @ \cup SlotsOf(c)]
      /\ elementsCompletelyDequeued' = elementsCompletelyDequeued
      /\ home' = home /\ entries' = entries
  BY DEF Dequeue_Empty_Explicit
<1>2. /\ cpc[c] = "empty" /\ cpc'[c] \in {"idle", "read"}
      /\ \A d \in Consumers \ {c} : cpc'[d] = cpc[d] /\ loc'[d] = loc[d]
      /\ isExplicit' = isExplicit /\ UNCHANGED prodVars
      /\ Mine(c)' = Mine(c) \ InBlock(c) /\ Todo(c)' = Mine(c)' /\ Unread(c)' = Mine(c)'
      /\ MineInv(c)' /\ WayInv(c, n, blk, org, lim)' /\ LeaveInv(c)'
  BY <1>1, MovesOn
<1>3. /\ BlockTypes /\ MineInv(c) /\ n \in Nat /\ headIndex \in Nat /\ cpc[c] \in Working
  BY <1>2 DEF Layout, Ghosts, ClaimInv, CounterTypes, Working
<1>4. PICK k \in Nat : In(c, k)
  BY <1>3, PlaceExists
<1>5. loc[c].blk = blk[k] /\ blk[k] \in Blocks
  <2>1. cpc[c] = "empty"
    BY <1>2
  <2>2. loc[c].blk = blk[k] /\ Holding(k, blk[k])
    BY <1>4, <2>1, AtEmpty
  <2> QED
    BY <2>2 DEF Holding
<1>6. SlotsOf(c) \subseteq Offsets
  BY <1>3, <1>4, PlaceIs
<1>7. /\ emptyFlags' \in [Blocks -> SUBSET Offsets]
      /\ emptyFlags'[blk[k]] = emptyFlags[blk[k]] \cup SlotsOf(c)
      /\ \A b \in Blocks : b # blk[k] => emptyFlags'[b] = emptyFlags[b]
  BY <1>1, <1>3, <1>5, <1>6 DEF BlockTypes
<1>8. BlockTypes'
  BY <1>1, <1>2, <1>3, <1>7 DEF BlockTypes, Newest, prodVars
<1>9. \A j \in Nat : (InUse(n, j)' <=> InUse(n, j)) /\ (Held(n, j)' <=> Held(n, j))
  BY <1>1, <1>2 DEF InUse, Held, Used, prodVars
<1>10. Built' = Built
  BY <1>2 DEF Built, prodVars
<1>11. BlocksInv(n, blk)'
  BY <1>1, <1>2, <1>4, <1>7, <1>9, <1>10, BlocksReported
<1>12. \A j \in Nat : Full(j) => Full(j)'
  BY <1>1, <1>2, <1>4, Reports
<1>13. cpc'[c] \notin Leaving /\ headIndex' \in Nat /\ headIndex' >= headIndex
  BY <1>1, <1>2, <1>3 DEF Leaving
<1> QED
  BY <1>1, <1>2, <1>8, <1>9, <1>11, <1>12, <1>13, ConsumerActs

\* The counter of the block: whoever reports its last slot gives it back.
LEMMA EmptiesImplicit ==
    ASSUME ClaimInv, NEW n, NEW blk, NEW org, NEW lim, Ghosts(n, blk, org, lim),
           Layout(n, blk, org, lim), NEW c \in Consumers, Dequeue_Empty_Implicit(c)
    PROVE  Layout(n, blk, org, lim)'
<1> DEFINE total == elementsCompletelyDequeued[loc[c].blk] + Cardinality(SlotsOf(c))
<1>1. /\ ~isExplicit /\ cpc[c] = "empty" /\ headIndex' = headIndex /\ elements' = elements
      /\ total = BlockSize => ConsumerStep(c, "empty", "null", loc[c])
      /\ total # BlockSize => NextBlockOr(c, "empty")
      /\ elementsCompletelyDequeued' = [elementsCompletelyDequeued EXCEPT ![loc[c].blk] = total]
      /\ emptyFlags' = emptyFlags /\ home' = home /\ entries' = entries
  BY DEF Dequeue_Empty_Implicit
<1>2. /\ BlockTypes /\ MineInv(c) /\ n \in Nat /\ headIndex \in Nat /\ CounterTypes
      /\ cpc[c] \in Working /\ WayInv(c, n, blk, org, lim)
      /\ \A d \in Consumers : LeaveInv(d)
  BY <1>1 DEF Layout, Ghosts, ClaimInv, CounterTypes, Working
<1>3. PICK k \in Nat : In(c, k)
  BY <1>2, PlaceExists
<1>4. /\ ~Full(k) /\ InUse(n, k) /\ Held(n, k) /\ loc[c].blk = blk[k] /\ Holding(k, blk[k])
      /\ Cardinality(DoneIn(k)) \in Nat /\ Cardinality(SlotsOf(c)) \in Nat
      /\ Cardinality(DoneIn(k)) + Cardinality(SlotsOf(c)) = BlockSize
                <=> DoneIn(k) \cup SlotsOf(c) = Offsets
  <2>1. cpc[c] = "empty"
    BY <1>1
  <2>2. ~Full(k) /\ InUse(n, k) /\ Held(n, k) /\ loc[c].blk = blk[k] /\ Holding(k, blk[k])
    BY <1>3, <2>1, AtEmpty
  <2>3. /\ Cardinality(DoneIn(k)) \in Nat /\ Cardinality(SlotsOf(c)) \in Nat
        /\ Cardinality(DoneIn(k)) + Cardinality(SlotsOf(c)) = BlockSize
                <=> DoneIn(k) \cup SlotsOf(c) = Offsets
    BY <1>2, <1>3, <2>1, RoomAtEmpty
  <2> QED
    BY <2>2, <2>3
<1>5. blk[k] \in Blocks /\ elementsCompletelyDequeued[blk[k]] = Cardinality(DoneIn(k))
  BY <1>1, <1>4 DEF Holding
<1>6. total \in Nat /\ (total = BlockSize <=> DoneIn(k) \cup SlotsOf(c) = Offsets)
  BY <1>4, <1>5
<1>7. /\ elementsCompletelyDequeued' \in [Blocks -> Nat]
      /\ elementsCompletelyDequeued'[blk[k]] =
            elementsCompletelyDequeued[blk[k]] + Cardinality(SlotsOf(c))
      /\ \A b \in Blocks : b # blk[k] => elementsCompletelyDequeued'[b] = elementsCompletelyDequeued[b]
  <2>1. total = elementsCompletelyDequeued[blk[k]] + Cardinality(SlotsOf(c))
    BY <1>4
  <2> HIDE DEF total
  <2> QED
    BY <1>1, <1>2, <1>4, <1>5, <1>6, <2>1 DEF BlockTypes
<1>8. /\ \A d \in Consumers \ {c} : cpc'[d] = cpc[d] /\ loc'[d] = loc[d]
      /\ isExplicit' = isExplicit /\ UNCHANGED prodVars
      /\ Todo(c)' = Mine(c) \ InBlock(c) /\ Unread(c)' = Mine(c) \ InBlock(c)
      /\ MineInv(c)' /\ WayInv(c, n, blk, org, lim)'
      /\ total # BlockSize => cpc'[c] \in {"idle", "read"}
      /\ total = BlockSize => cpc'[c] = "null" /\ loc'[c] = loc[c]
  <2> HIDE DEF total
  <2>1. CASE total # BlockSize
    BY <1>1, <2>1, MovesOn
  <2>2. CASE total = BlockSize
    <3>1. ConsumerStep(c, "empty", "null", loc[c])
      BY <1>1, <2>2
    <3>2. /\ \A d \in Consumers \ {c} : cpc'[d] = cpc[d] /\ loc'[d] = loc[d]
          /\ cpc'[c] = "null" /\ loc'[c] = loc[c]
          /\ isExplicit' = isExplicit /\ UNCHANGED prodVars
      BY <1>2, <3>1, Moved DEF ConsumerStep
    <3>3. Mine(c)' = Mine(c) /\ EndIndex(c)' = EndIndex(c)
      BY <1>1, <3>2 DEF Mine, Working, EndIndex
    <3>4. Todo(c)' = Mine(c) \ InBlock(c) /\ Unread(c)' = Mine(c) \ InBlock(c)
      <4>1. \A i \in Mine(c) : i \in InBlock(c) <=> ~(i >= EndIndex(c))
        BY <1>2, <1>3, InBlockIs
      <4> QED
        BY <3>2, <3>3, <4>1 DEF Todo, Unread, Leaving
    <3>5. MineInv(c)'
      <4>1. \A d \in Consumers \ {c} : Mine(d)' = Mine(d)
        BY <3>2, OthersStay
      <4> QED
        BY <1>1, <1>2, <3>2, <3>3, <4>1 DEF MineInv
    <3>6. WayInv(c, n, blk, org, lim)'
      <4>1. PICK h \in 1 .. Newest : loc[c].hdr = h
        BY <1>1, <1>2 DEF WayInv, Working
      <4>2. Newest' = Newest /\ \A j : Pos(h, j, org)' = Pos(h, j, org)
        BY <3>2 DEF Newest, Pos, SizeOf, prodVars
      <4>3. \A j : In(c, j)' <=> In(c, j)
        BY <3>2 DEF In
      <4> QED
        BY <1>1, <1>2, <3>2, <4>1, <4>2, <4>3 DEF WayInv, Working
    <3> QED
      BY <2>2, <3>2, <3>4, <3>5, <3>6
  <2> QED
    BY <2>1, <2>2
<1>9. /\ Full(k)' <=> total = BlockSize
      /\ \A j \in Nat \ {k} : Full(j)' <=> Full(j)
      /\ \A j \in Nat : Full(j) => Full(j)'
  BY <1>1, <1>3, <1>6, <1>8, Reports
<1> HIDE DEF total
<1>10. \A j \in Nat : In(c, j)' /\ cpc'[c] \in Leaving => j = k /\ total = BlockSize
  <2>1. \A j \in Nat : In(c, j) => j = k
    BY <1>2, <1>3, PlaceUnique
  <2> QED
    BY <1>8, <2>1 DEF In, Leaving
<1>11. total = BlockSize => cpc'[c] = "null" /\ In(c, k)'
  BY <1>3, <1>8 DEF In
<1>12. \A j \in Nat \ {k} : /\ LeftAt(j, Leaving)' <=> LeftAt(j, Leaving)
                            /\ LeftAt(j, {"null"})' <=> LeftAt(j, {"null"})
  BY <1>1, <1>8, <1>10 DEF LeftAt, In, Leaving
<1>13. total = BlockSize => LeftAt(k, Leaving)' /\ LeftAt(k, {"null"})'
  BY <1>11 DEF LeftAt, Leaving
<1>14. \A j \in Nat : (InUse(n, j)' <=> InUse(n, j)) /\ (Held(n, j)' <=> Held(n, j))
  BY <1>1, <1>4, <1>8, <1>9, <1>12, <1>13 DEF InUse, Held, Used
<1>15. LeaveInv(c)'
  <2> SUFFICES ASSUME cpc'[c] \in Leaving, NEW j \in Nat, In(c, j)'
               PROVE  Full(j)' /\ \A d \in Consumers \ {c} : cpc'[d] \in Leaving => ~In(d, j)'
    BY <1>1, <1>8 DEF LeaveInv
  <2>1. j = k /\ Full(k)'
    BY <1>9, <1>10
  <2>2. \A d \in Consumers \ {c} : cpc[d] \in Leaving => ~In(d, k)
    BY <1>2, <1>4 DEF LeaveInv
  <2> QED
    BY <1>8, <2>1, <2>2 DEF In
<1>16. BlockTypes'
  BY <1>1, <1>2, <1>7, <1>8 DEF BlockTypes, Newest, prodVars
<1>17. Built' = Built
  BY <1>8 DEF Built, prodVars
<1>18. BlocksInv(n, blk)'
  BY <1>1, <1>3, <1>7, <1>8, <1>14, <1>17, BlocksReported
<1>19. headIndex' \in Nat /\ headIndex' >= headIndex
  BY <1>1, <1>2
<1>20. cpc'[c] \in Leaving => \A j \in Nat : In(c, j)' => ~Full(j)
  BY <1>4, <1>10
<1> QED
  BY <1>1, <1>8, <1>9, <1>14, <1>15, <1>16, <1>18, <1>19, <1>20, ConsumerActs

\* A consumer that gives its block back: the block and its entry are its own.
LEMMA AtLeaving ==
    ASSUME ClaimInv, NEW n, NEW blk, NEW org, NEW lim, Ghosts(n, blk, org, lim),
           Layout(n, blk, org, lim), NEW c \in Consumers, cpc[c] \in Leaving,
           NEW k \in Nat, In(c, k)
    PROVE  /\ ~isExplicit /\ Full(k) /\ k < n /\ InUse(n, k) /\ k < Limit(loc[c].hdr, n, lim)
           /\ loc[c].blk = blk[k] /\ Holding(k, blk[k]) /\ Written(n) = n
           /\ \A d \in Consumers \ {c} : cpc[d] \in Leaving => ~In(d, k)
<1>1. /\ MineInv(c) /\ cpc[c] \in Working /\ n \in Nat /\ LeaveInv(c) /\ TailInv(n) /\ BlockTypes
      /\ cpc[c] \in {"empty", "null", "free"} /\ cpc[c] \in Working \ {"index"}
      /\ WayInv(c, n, blk, org, lim)
  BY DEF Layout, Ghosts, Working, Leaving
<1>2. ~isExplicit /\ Full(k) /\ \A d \in Consumers \ {c} : cpc[d] \in Leaving => ~In(d, k)
  BY <1>1 DEF LeaveInv
<1>3. /\ loc[c].idx \in Nat /\ loc[c].idx < loc[c].last /\ loc[c].last <= headIndex
      /\ loc[c].last \in Nat /\ Base(k) <= loc[c].idx
  BY <1>1 DEF MineInv, In
<1>4. headIndex \in Nat /\ tailIndex \in Nat /\ headIndex <= tailIndex /\ tailIndex <= Base(n)
      /\ Base(n) \in Nat
  BY <1>1, TailIs
<1>5. k < n
  <2>1. loc[c].idx < Base(n)
    BY <1>3, <1>4
  <2> QED
    BY <1>1, <1>3, <2>1, NumberBelow
<1>6. Written(n) = n
  BY <1>1, <1>2 DEF TailInv, Written
<1>7. InUse(n, k)
  BY <1>1, <1>2, <1>5 DEF InUse, Used, LeftAt
<1>8. k < Limit(loc[c].hdr, n, lim)
  <2>1. CASE loc[c].hdr = Newest
    BY <1>5, <1>6, <2>1 DEF Limit
  <2>2. CASE loc[c].hdr # Newest
    <3>1. loc[c].hdr \in 1 .. Newest /\ (loc[c].hdr < Newest => loc[c].last <= Base(lim[loc[c].hdr]))
      BY <1>1 DEF WayInv
    <3>2. lim[loc[c].hdr] \in Nat /\ loc[c].last <= Base(lim[loc[c].hdr])
      BY <1>1, <2>2, <3>1, NewestIs DEF Ghosts
    <3>3. Base(lim[loc[c].hdr]) \in Nat
      BY <3>2, BaseOfNat
    <3>4. loc[c].idx < Base(lim[loc[c].hdr])
      BY <1>3, <3>2, <3>3
    <3> QED
      BY <1>3, <2>2, <3>2, <3>4, NumberBelow DEF Limit
  <2> QED
    BY <2>1, <2>2
<1>9. loc[c].blk = blk[k] /\ Holding(k, blk[k])
  BY <1>1, <1>7 DEF Layout, WayInv, BlocksInv
<1> QED
  BY <1>2, <1>5, <1>6, <1>7, <1>8, <1>9

\* In the implicit producer's indexes, numbers whose bases are kept have one entry each.
LEMMA OneEntry ==
    ASSUME NEW n, NEW blk, NEW org, NEW lim, Ghosts(n, blk, org, lim),
           Layout(n, blk, org, lim), ~isExplicit,
           NEW h \in 1 .. Newest, NEW m \in Nat, m < Limit(h, n, lim), Kept(n, m)
    PROVE  Id(h, m, org) = Id(Newest, m, org) /\ n - m <= SizeOf(Header) /\ m < n
<1>1. /\ OldInv(n, org, lim) /\ HeaderInv(n, org) /\ BlockTypes /\ n \in Nat /\ lim \in [Nat -> Nat]
  BY DEF Layout, Ghosts
<1>2. Newest \in Nat /\ h \in Nat /\ Newest \in 1 .. Newest /\ Header = headers[Newest]
  BY <1>1, NewestIs
<1>3. SizeOf(Header) \in Nat
  BY <1>1, <1>2, HeaderIs
<1>4. Id(h, m, org) = Id(Newest, m, org)
  <2>1. CASE h # Newest
    <3>1. h \in 1 .. Newest - 1 /\ m \in 0 .. lim[h] - 1
      BY <1>1, <1>2, <2>1 DEF Limit
    <3> QED
      BY <1>1, <3>1 DEF OldInv
  <2> QED
    BY <2>1
<1>5. n - m <= SizeOf(Header)
  <2>1. PICK k \in 0 .. m : Held(n, k)
    BY DEF Kept
  <2>2. (IF ppc = "block" THEN n + 1 ELSE n) - k <= SizeOf(Header)
    BY <1>1, <2>1 DEF HeaderInv
  <2> QED
    BY <1>1, <1>3, <2>1, <2>2
<1>6. m < n
  <2>1. Limit(h, n, lim) <= n
    <3>1. CASE h = Newest
      BY <1>1, <3>1 DEF Limit, Written
    <3>2. CASE h # Newest
      <4>1. h \in 1 .. Newest - 1 /\ lim[h] \in Nat
        BY <1>1, <1>2, <3>2
      <4>2. lim[h] <= Written(n)
        BY <1>1, <4>1 DEF OldInv
      <4> QED
        BY <1>1, <3>2, <4>1, <4>2 DEF Limit, Written
    <3> QED
      BY <3>1, <3>2
  <2>2. Limit(h, n, lim) \in Int
    BY <1>1, <1>2 DEF Limit, Written
  <2> QED
    BY <1>1, <2>1, <2>2
<1> QED
  BY <1>4, <1>5, <1>6

\* The entry of a number in an index, and that of two numbers less than a round apart.
LEMMA EntryIs ==
    ASSUME NEW n, NEW blk, NEW org, NEW lim, Ghosts(n, blk, org, lim),
           Layout(n, blk, org, lim), NEW h \in 1 .. Newest, NEW k \in Int
    PROVE  Id(h, k, org) \in 1 .. Len(entries)
<1>1. BlockTypes /\ GoodHeader(headers[h]) /\ org \in [Nat -> Int]
  BY DEF Layout, EntriesInv, Ghosts
<1> QED
  BY <1>1, IdIs

LEMMA EntriesDiffer ==
    ASSUME NEW n, NEW blk, NEW org, NEW lim, Ghosts(n, blk, org, lim),
           Layout(n, blk, org, lim), NEW h \in 1 .. Newest, NEW j \in Int, NEW k \in Int,
           j < k, k - j < SizeOf(headers[h])
    PROVE  Id(h, j, org) # Id(h, k, org)
<1>1. BlockTypes /\ GoodHeader(headers[h]) /\ org \in [Nat -> Int]
  BY DEF Layout, EntriesInv, Ghosts
<1> QED
  BY <1>1, IdIs

\* One entry changes.
LEMMA EntryChanges ==
    ASSUME entries \in Seq(EntrySet), NEW e \in 1 .. Len(entries), NEW v \in EntrySet,
           entries' = [entries EXCEPT ![e] = v]
    PROVE  /\ entries' \in Seq(EntrySet) /\ Len(entries') = Len(entries)
           /\ \A g \in 1 .. Len(entries) : entries[g] \in EntrySet /\ entries'[g] \in EntrySet
           /\ entries'[e] = v /\ \A g \in 1 .. Len(entries) : g # e => entries'[g] = entries[g]
<1>1. entries' \in Seq(EntrySet) /\ Len(entries') = Len(entries)
  OBVIOUS
<1>2. \A g \in 1 .. Len(entries) : entries[g] \in EntrySet /\ entries'[g] \in EntrySet
  BY <1>1
<1>3. entries'[e] = v /\ \A g \in 1 .. Len(entries) : g # e => entries'[g] = entries[g]
  OBVIOUS
<1> QED
  BY <1>1, <1>2, <1>3

\* The entry of the block gives it up before the block does.
LEMMA NullsEntry ==
    ASSUME ClaimInv, NEW n, NEW blk, NEW org, NEW lim, Ghosts(n, blk, org, lim),
           Layout(n, blk, org, lim), NEW c \in Consumers, Dequeue_Null(c)
    PROVE  Layout(n, blk, org, lim)'
<1>1. /\ ConsumerStep(c, "null", "free", loc[c]) /\ headIndex' = headIndex /\ UNCHANGED blockVars
      /\ entries' = [entries EXCEPT ![EntryOf(c)].block = NoBlock]
  BY DEF Dequeue_Null
<1>2. /\ BlockTypes /\ MineInv(c) /\ n \in Nat /\ headIndex \in Nat /\ CounterTypes
      /\ WayInv(c, n, blk, org, lim) /\ BlocksInv(n, blk) /\ org \in [Nat -> Int]
      /\ OldInv(n, org, lim) /\ HeaderInv(n, org) /\ EntriesInv(n, blk, org, lim)
      /\ lim \in [Nat -> Nat]
  BY DEF Layout, Ghosts, ClaimInv, CounterTypes
<1>3. /\ \A d \in Consumers \ {c} : cpc'[d] = cpc[d] /\ loc'[d] = loc[d]
      /\ cpc[c] = "null" /\ cpc'[c] = "free" /\ loc'[c] = loc[c]
      /\ isExplicit' = isExplicit /\ UNCHANGED prodVars
  BY <1>1, <1>2, Moved DEF ConsumerStep
<1>4. cpc[c] \in Working /\ cpc[c] \in Leaving /\ cpc[c] \in Working \ {"index"}
      /\ cpc'[c] \in Working /\ cpc'[c] \in Leaving
  BY <1>3 DEF Working, Leaving
<1>5. PICK k \in Nat : In(c, k)
  BY <1>2, <1>4, PlaceExists
<1>6. /\ ~isExplicit /\ Full(k) /\ k < n /\ k < Limit(loc[c].hdr, n, lim)
      /\ \A d \in Consumers \ {c} : cpc[d] \in Leaving => ~In(d, k)
  BY <1>4, <1>5, AtLeaving
<1>7. \A d \in Consumers : Mine(d)' = Mine(d) /\ Todo(d)' = Todo(d) /\ Unread(d)' = Unread(d)
  <2>1. Mine(c)' = Mine(c) /\ Todo(c)' = Todo(c) /\ Unread(c)' = Unread(c)
    BY <1>3, <1>4 DEF Mine, Todo, Unread, EndIndex
  <2> QED
    BY <1>3, <2>1, OthersStay
<1>8. \A i \in Nat : (Done(i)' <=> Done(i)) /\ (Taken(i)' <=> Taken(i))
  BY <1>1, <1>7 DEF Done, Taken
<1>9. \A j \in Nat : Full(j)' <=> Full(j)
  BY <1>8, FullStays
<1>10. \A d \in Consumers : \A j : In(d, j)' <=> In(d, j)
  BY <1>3 DEF In
<1>11. \A j \in Nat : In(c, j) => j = k
  BY <1>2, <1>4, <1>5, PlaceUnique
<1>12. \A j \in Nat : LeftAt(j, Leaving)' <=> LeftAt(j, Leaving)
  BY <1>3, <1>4, <1>10 DEF LeftAt
<1>13. \A j \in Nat : LeftAt(j, {"null"})' <=> LeftAt(j, {"null"}) /\ j # k
  BY <1>3, <1>6, <1>10, <1>11 DEF LeftAt, Leaving
<1>14. \A j \in Nat : (InUse(n, j)' <=> InUse(n, j)) /\ (Held(n, j)' => Held(n, j) /\ j # k)
  BY <1>3, <1>6, <1>9, <1>12, <1>13 DEF InUse, Held, Used
<1>15. BlocksInv(n, blk)'
  <2>1. Built' = Built
    BY <1>3 DEF Built, prodVars
  <2> QED
    BY <1>1, <1>2, <1>3, <1>8, <1>14, <2>1, BlocksStay DEF blockVars
<1>16. PICK h \in 1 .. Newest : loc[c].hdr = h
  BY <1>2, <1>4 DEF WayInv
<1>17. Held(n, k) /\ Kept(n, k)
  <2>1. Held(n, k)
    <3>1. k \in 0 .. n - 1 /\ LeftAt(k, {"null"})
      BY <1>2, <1>3, <1>5, <1>6 DEF LeftAt
    <3> QED
      BY <1>6, <3>1 DEF Held, Used
  <2> QED
    BY <2>1 DEF Kept
<1>18. PICK e : e = Id(Newest, k, org) /\ e = EntryOf(c) /\ n - k <= SizeOf(Header)
  <2>1. loc[c].slot = Pos(h, k, org)
    BY <1>2, <1>3, <1>5, <1>16 DEF WayInv
  <2>2. EntryOf(c) = Id(h, k, org)
    BY <1>16, <2>1 DEF EntryOf, Id
  <2>3. Id(h, k, org) = Id(Newest, k, org) /\ n - k <= SizeOf(Header)
    BY <1>6, <1>16, <1>17, OneEntry
  <2> QED
    BY <2>2, <2>3
<1>19. /\ Newest \in 1 .. Newest /\ GoodHeader(headers[Newest]) /\ Header = headers[Newest]
       /\ SizeOf(Header) \in Nat \ {0} /\ Newest \in Nat
  BY <1>2, NewestIs, HeaderIs DEF EntriesInv
<1>20. e \in 1 .. Len(entries)
  <2>1. k \in Int /\ Newest \in 1 .. Newest
    BY <1>19
  <2>2. Id(Newest, k, org) \in 1 .. Len(entries)
    BY <2>1, EntryIs
  <2> QED
    BY <1>18, <2>2
<1>21. /\ entries' \in Seq(EntrySet) /\ Len(entries') = Len(entries)
       /\ \A g \in 1 .. Len(entries) :
            /\ entries'[g].base = entries[g].base
            /\ entries'[g].block = IF g = e THEN NoBlock ELSE entries[g].block
            /\ entries[g] \in EntrySet /\ entries'[g] \in EntrySet
  <2>1. entries \in Seq(EntrySet) /\ entries[e] \in EntrySet
    <3>1. entries \in Seq(EntrySet)
      BY <1>2 DEF BlockTypes
    <3> QED
      BY ONLY <1>20, <3>1
  <2>2. /\ [entries[e] EXCEPT !.block = NoBlock] \in EntrySet
        /\ [entries[e] EXCEPT !.block = NoBlock].base = entries[e].base
        /\ [entries[e] EXCEPT !.block = NoBlock].block = NoBlock
    BY <2>1 DEF EntrySet, NoBlock
  <2>3. PICK v \in EntrySet : v = [entries[e] EXCEPT !.block = NoBlock]
    BY <2>2
  <2>4. v.base = entries[e].base /\ v.block = NoBlock
    BY <2>2, <2>3
  <2>5. entries' = [entries EXCEPT ![e] = v]
    BY <1>1, <1>18, <2>3
  <2>6. /\ entries' \in Seq(EntrySet) /\ Len(entries') = Len(entries)
        /\ \A g \in 1 .. Len(entries) : entries[g] \in EntrySet /\ entries'[g] \in EntrySet
        /\ entries'[e] = v /\ \A g \in 1 .. Len(entries) : g # e => entries'[g] = entries[g]
    BY ONLY <1>20, <2>1, <2>5, v \in EntrySet, EntryChanges
  <2> QED
    BY ONLY <1>20, <2>4, <2>6
<1>22. BlockTypes'
  BY <1>1, <1>2, <1>3, <1>21 DEF BlockTypes, blockVars, prodVars, Newest
<1>23. /\ OldInv(n, org, lim)' /\ HeaderInv(n, org)'
       /\ Newest' = Newest
       /\ \A g \in 1 .. Newest : \A j : Id(g, j, org)' = Id(g, j, org)
       /\ \A g : Limit(g, n, lim)' = Limit(g, n, lim)
       /\ ppc' = "block" <=> ppc = "block"
       /\ \A j \in Nat : (Held(n, j)' => Held(n, j)) /\ (Kept(n, j)' => Kept(n, j))
  BY <1>2, <1>3, <1>14, HeadersStay DEF prodVars
<1>24. Spare(n, org) => Spare(n, org)'
  <2>1. Id(Newest, n, org) \in 1 .. Len(entries)
    BY <1>2, <1>19, EntryIs
  <2>2. PICK g \in 1 .. Len(entries) : g = Id(Newest, n, org)
    BY <2>1
  <2>3. Id(Newest, n, org)' = g
    BY <1>19, <1>23, <2>2
  <2>4. entries[g] = [base |-> Base(n), block |-> NoBlock] =>
          entries'[g] = [base |-> Base(n), block |-> NoBlock]
    BY <1>21 DEF EntrySet
  <2> QED
    BY <2>2, <2>3, <2>4 DEF Spare
<1>25. EntriesInv(n, blk, org, lim)'
  <2>1. \A g \in 1 .. Newest : GoodHeader(headers[g])'
    BY <1>2, <1>3, <1>21 DEF EntriesInv, GoodHeader, prodVars
  <2>2. ASSUME NEW g \in 1 .. Newest, NEW m \in 0 .. Limit(g, n, lim) - 1
        PROVE  /\ Kept(n, m)' => entries'[Id(g, m, org)].base = Base(m)
               /\ Held(n, m)' => entries'[Id(g, m, org)].block = blk[m]
    <3>0. m \in Nat /\ m < Limit(g, n, lim)
      <4>1. Limit(g, n, lim) \in Int
        BY <1>2, <1>19 DEF Limit, Written
      <4> QED
        BY <4>1
    <3>1. Id(g, m, org) \in 1 .. Len(entries)
      BY <3>0, EntryIs
    <3>2. Kept(n, m) => entries[Id(g, m, org)].base = Base(m)
      BY <1>2 DEF EntriesInv
    <3>3. Held(n, m) => entries[Id(g, m, org)].block = blk[m]
      BY <1>2 DEF EntriesInv
    <3>4. ASSUME Held(n, m)' PROVE Id(g, m, org) # e
      <4>1. Held(n, m) /\ m # k
        BY <1>14, <3>0, <3>4
      <4>2. Kept(n, m)
        BY <3>0, <4>1 DEF Kept
      <4>3. Id(g, m, org) = Id(Newest, m, org) /\ n - m <= SizeOf(Header) /\ m < n
        BY <1>6, <3>0, <4>2, OneEntry
      <4>4. CASE m < k
        <5>1. k - m < SizeOf(headers[Newest])
          BY <1>2, <1>6, <1>19, <3>0, <4>3, <4>4
        <5>2. Id(Newest, m, org) # Id(Newest, k, org)
          BY <1>19, <3>0, <4>4, <5>1, EntriesDiffer
        <5> QED
          BY <1>18, <4>3, <5>2
      <4>5. CASE k < m
        <5>1. m - k < SizeOf(headers[Newest])
          BY <1>2, <1>18, <1>19, <3>0, <4>3, <4>5
        <5>2. Id(Newest, k, org) # Id(Newest, m, org)
          BY <1>19, <3>0, <4>5, <5>1, EntriesDiffer
        <5> QED
          BY <1>18, <4>3, <5>2
      <4> QED
        BY <3>0, <4>1, <4>4, <4>5
    <3> QED
      BY <1>21, <1>23, <3>0, <3>1, <3>2, <3>3, <3>4
  <2>3. \A g \in 1 .. Len(entries') : entries'[g].base = NoBase => entries'[g].block = NoBlock
    BY <1>2, <1>21 DEF EntriesInv
  <2>4. ppc' = "block" => Spare(n, org)'
    BY <1>2, <1>23, <1>24 DEF EntriesInv
  <2> QED
    BY <1>23, <2>1, <2>2, <2>3, <2>4 DEF EntriesInv
<1>26. MineInv(c)'
  BY <1>1, <1>2, <1>3, <1>4, <1>7 DEF MineInv
<1>27. LeaveInv(c)'
  BY <1>3, <1>6, <1>9, <1>10, <1>11 DEF LeaveInv
<1>28. WayInv(c, n, blk, org, lim)'
  <2>1. \A j : Pos(h, j, org)' = Pos(h, j, org)
    BY <1>3 DEF Pos, SizeOf, prodVars
  <2> QED
    BY <1>2, <1>3, <1>4, <1>10, <1>16, <1>23, <2>1 DEF WayInv
<1>29. headIndex' \in Nat /\ headIndex' >= headIndex
  BY <1>1, <1>2
<1>30. \A j \in Nat : In(c, j)' => In(c, j)
  BY <1>10
<1> QED
  BY <1>3, <1>4, <1>9, <1>15, <1>22, <1>23, <1>24, <1>25, <1>26, <1>27, <1>28, <1>29, <1>30, ConsumerMoves

\* The block goes back to the free list or the heap, and nothing is left in it.
LEMMA FreesBlock ==
    ASSUME ClaimInv, NEW n, NEW blk, NEW org, NEW lim, Ghosts(n, blk, org, lim),
           Layout(n, blk, org, lim), NEW c \in Consumers, Dequeue_Free(c)
    PROVE  Layout(n, blk, org, lim)'
<1>1. /\ NextBlockOr(c, "free") /\ headIndex' = headIndex /\ entries' = entries
      /\ home' = [home EXCEPT ![loc[c].blk] = AddBlockToFreeList(loc[c].blk)]
      /\ elements' = elements /\ emptyFlags' = emptyFlags
      /\ elementsCompletelyDequeued' = elementsCompletelyDequeued
  BY DEF Dequeue_Free
<1>2. /\ cpc[c] = "free" /\ cpc'[c] \in {"idle", "read"}
      /\ \A d \in Consumers \ {c} : cpc'[d] = cpc[d] /\ loc'[d] = loc[d]
      /\ isExplicit' = isExplicit /\ UNCHANGED prodVars
      /\ Mine(c)' = Mine(c) \ InBlock(c) /\ Todo(c)' = Mine(c)' /\ Unread(c)' = Mine(c)'
      /\ MineInv(c)' /\ WayInv(c, n, blk, org, lim)' /\ LeaveInv(c)'
  BY <1>1, MovesOn
<1>3. /\ BlockTypes /\ MineInv(c) /\ n \in Nat /\ headIndex \in Nat /\ BlocksInv(n, blk)
      /\ cpc[c] \in Working /\ cpc[c] \in Leaving
  BY <1>2 DEF Layout, Ghosts, ClaimInv, CounterTypes, Working, Leaving
<1>4. PICK k \in Nat : In(c, k)
  BY <1>3, PlaceExists
<1>5. /\ ~isExplicit /\ Full(k) /\ k < n /\ InUse(n, k)
      /\ loc[c].blk = blk[k] /\ Holding(k, blk[k])
      /\ \A d \in Consumers \ {c} : cpc[d] \in Leaving => ~In(d, k)
  BY <1>3, <1>4, AtLeaving
<1>6. \A d \in Consumers : Todo(d)' = Todo(d) /\ Unread(d)' = Unread(d)
  <2>1. \A i \in Mine(c) : i \in InBlock(c) <=> ~(i >= EndIndex(c))
    BY <1>3, <1>4, InBlockIs
  <2>2. Todo(c) = Mine(c) \ InBlock(c) /\ Unread(c) = Mine(c) \ InBlock(c)
    BY <1>2, <1>3, <2>1 DEF Todo, Unread
  <2> QED
    BY <1>2, <2>2, OthersStay
<1>7. \A i \in Nat : (Done(i)' <=> Done(i)) /\ (Taken(i)' <=> Taken(i))
  BY <1>1, <1>6 DEF Done, Taken
<1>8. \A j \in Nat : (Full(j)' <=> Full(j)) /\ DoneIn(j)' = DoneIn(j)
  BY <1>7, FullStays
<1>9. \A j \in Nat : In(c, j) => j = k
  BY <1>3, <1>4, PlaceUnique
<1>10. \A j \in Nat : /\ LeftAt(j, {"null"})' <=> LeftAt(j, {"null"})
                      /\ LeftAt(j, Leaving)' <=> LeftAt(j, Leaving) /\ j # k
  BY <1>2, <1>5, <1>9 DEF LeftAt, In, Leaving
<1>11. \A j \in Nat : (InUse(n, j)' <=> InUse(n, j) /\ j # k) /\ (Held(n, j)' <=> Held(n, j))
  BY <1>2, <1>5, <1>8, <1>10 DEF InUse, Held, Used
<1>12. PICK b \in Blocks : b = blk[k] /\ home[b] = "used" /\ Holding(k, b)
  BY <1>5 DEF Holding
<1>13. /\ home' \in [Blocks -> {"pool", "list", "heap", "used"}]
       /\ home'[b] # "used" /\ \A a \in Blocks : a # b => home'[a] = home[a]
  BY <1>1, <1>3, <1>5, <1>12 DEF BlockTypes, AddBlockToFreeList
<1>14. Vacant(b)
  <2> SUFFICES ASSUME NEW o \in Offsets PROVE elements[b][o] = Gone
    BY DEF Vacant
  <2>1. Taken(Base(k) + o)
    BY <1>5, DoneIsTaken DEF Full
  <2> QED
    BY <1>12, <2>1 DEF Holding, Content
<1>15. BlocksInv(n, blk)'
  <2>1. \A i \in Nat : Content(i)' = Content(i)
    BY <1>2, <1>7 DEF Content, Built, prodVars
  <2>2. ASSUME NEW j \in Nat, InUse(n, j), j # k PROVE Holding(j, blk[j])' /\ blk[j] # b
    <3>1. Holding(j, blk[j]) /\ blk[j] # b
      BY <1>3, <1>5, <1>12, <2>2 DEF BlocksInv
    <3>2. PICK a \in Blocks : a = blk[j] /\ home[a] = "used" /\ Holding(j, a)
      BY <3>1 DEF Holding
    <3>3. \A o \in Offsets : Base(j) + o \in Nat
      BY ElementIs
    <3>4. Holding(j, a)'
      BY <1>1, <1>2, <1>8, <1>13, <2>1, <3>1, <3>2, <3>3 DEF Holding
    <3> QED
      BY <3>1, <3>2, <3>4
  <2>3. \A a \in Blocks : home'[a] # "used" => Vacant(a)'
    BY <1>1, <1>3, <1>13, <1>14 DEF BlocksInv, Vacant
  <2>4. \A a \in Blocks : home'[a] = "used" => \E j \in Nat : InUse(n, j)' /\ blk[j] = a
    BY <1>3, <1>11, <1>12, <1>13 DEF BlocksInv
  <2>5. \A j, m \in Nat : InUse(n, j)' /\ InUse(n, m)' /\ blk[j] = blk[m] => j = m
    BY <1>3, <1>11 DEF BlocksInv
  <2>6. \A j \in Nat : InUse(n, j)' => Holding(j, blk[j])'
    BY <1>11, <2>2
  <2> QED
    BY <2>3, <2>4, <2>5, <2>6 DEF BlocksInv
<1>16. BlockTypes'
  BY <1>1, <1>2, <1>3, <1>13 DEF BlockTypes, Newest, prodVars
<1>17. headIndex' \in Nat /\ headIndex' >= headIndex /\ cpc'[c] \notin Leaving
  BY <1>1, <1>2, <1>3 DEF Leaving
<1> QED
  BY <1>1, <1>2, <1>8, <1>11, <1>15, <1>16, <1>17, ConsumerActs

\* Every step of a consumer.
LEMMA DequeueKeeps ==
    ASSUME ClaimInv, NEW n, NEW blk, NEW org, NEW lim, Ghosts(n, blk, org, lim),
           Layout(n, blk, org, lim), NEW c \in Consumers, Dequeue(c)
    PROVE  Layout(n, blk, org, lim)'
<1>1. CASE Dequeue_Tail(c) \/ Dequeue_Over(c) \/ Dequeue_Count(c) \/ Dequeue_Claim(c)
           \/ Dequeue_Recheck(c) \/ Dequeue_Give(c)
  BY <1>1, EarlySteps
<1>2. CASE Dequeue_Head(c)
  BY <1>2, TakesHead
<1>3. CASE Dequeue_Index(c)
  BY <1>3, TakesIndex
<1>4. CASE Dequeue_Cur(c)
  BY <1>4, TakesCur
<1>5. CASE Dequeue_Slot(c)
  BY <1>5, TakesSlot
<1>6. CASE Dequeue_Read(c)
  BY <1>6, TakesElements
<1>7. CASE Dequeue_Empty_Explicit(c)
  BY <1>7, EmptiesExplicit
<1>8. CASE Dequeue_Empty_Implicit(c)
  BY <1>8, EmptiesImplicit
<1>9. CASE Dequeue_Null(c)
  BY <1>9, NullsEntry
<1>10. CASE Dequeue_Free(c)
  BY <1>10, FreesBlock
<1> QED
  BY <1>1, <1>2, <1>3, <1>4, <1>5, <1>6, <1>7, <1>8, <1>9, <1>10
     DEF Dequeue, ClaimElements, GetBlockIndexIndexForIndex, TakeElements

-----------------------------------------------------------------------------
(* The steps of the producer.                                               *)

\* What is left to show when the producer moves.
LEMMA ProducerMoves ==
    ASSUME NEW n, NEW blk, NEW org, NEW lim, Layout(n, blk, org, lim),
           NEW p, NEW blkp, NEW orgp, NEW limp,
           cpc' = cpc, loc' = loc, headIndex' = headIndex, isExplicit' = isExplicit,
           BlockTypes', TailInv(p)', OldInv(p, orgp, limp)', HeaderInv(p, orgp)',
           EntriesInv(p, blkp, orgp, limp)', BlocksInv(p, blkp)', RingInv(p, blkp)',
           \A c \in Consumers : WayInv(c, p, blkp, orgp, limp)'
    PROVE  Layout(p, blkp, orgp, limp)'
<1>1. \A c \in Consumers : (MineInv(c)' <=> MineInv(c)) /\ (LeaveInv(c)' <=> LeaveInv(c))
  BY WorkStays
<1> QED
  BY <1>1 DEF Layout

\* The blocks the consumers are at.
LEMMA PlaceBelow ==
    ASSUME ClaimInv, NEW n, NEW blk, NEW org, NEW lim, Ghosts(n, blk, org, lim),
           Layout(n, blk, org, lim), NEW c \in Consumers, cpc[c] \in Working,
           NEW k \in Nat, In(c, k)
    PROVE  k < n /\ k < Written(n)
<1>1. MineInv(c) /\ n \in Nat /\ TailInv(n) /\ BlockTypes
  BY DEF Layout, Ghosts
<1>2. /\ headIndex \in Nat /\ tailIndex \in Nat /\ headIndex <= tailIndex
      /\ Written(n) \in Nat /\ tailIndex <= Base(Written(n)) /\ Base(Written(n)) \in Nat
  BY <1>1, TailIs, BaseOfNat
<1>3. loc[c].idx \in Nat /\ loc[c].idx < headIndex /\ Base(k) <= loc[c].idx
  BY <1>1, <1>2 DEF MineInv, In
<1>4. loc[c].idx < Base(Written(n))
  BY <1>2, <1>3
<1>5. k < Written(n)
  BY <1>2, <1>3, <1>4, NumberBelow
<1> QED
  BY <1>1, <1>2, <1>5 DEF Written

LEMMA WaysStay ==
    ASSUME ClaimInv, NEW n, NEW blk, NEW org, NEW lim, Ghosts(n, blk, org, lim),
           Layout(n, blk, org, lim), NEW p \in Nat, NEW blkp,
           \A k \in Nat : k < n => blkp[k] = blk[k],
           cpc' = cpc, loc' = loc, isExplicit' = isExplicit,
           Newest' = Newest, \A h \in 1 .. Newest : headers'[h].slot = headers[h].slot,
           Written(p)' \in Int, Written(n) <= Written(p)',
           ~isExplicit /\ tailIndex = Base(n) /\ Spare(n, org) =>
               \/ n < Written(p)'
               \/ p = n /\ tailIndex' = tailIndex /\ Spare(n, org)'
    PROVE  \A c \in Consumers : WayInv(c, p, blkp, org, lim)'
<1> SUFFICES ASSUME NEW c \in Consumers PROVE WayInv(c, p, blkp, org, lim)'
  OBVIOUS
<1>1. WayInv(c, n, blk, org, lim) /\ BlockTypes /\ n \in Nat /\ lim \in [Nat -> Nat]
  BY DEF Layout, Ghosts
<1>2. cpc'[c] = cpc[c] /\ loc'[c] = loc[c]
  OBVIOUS
<1>3. \A k \in Nat : cpc[c] \in Working /\ In(c, k) => blkp[k] = blk[k]
  BY PlaceBelow
<1>4. ASSUME cpc[c] = "slot", CurInv(c, n, org, lim) PROVE CurInv(c, p, org, lim)'
  <2>1. PICK h \in 1 .. Newest : loc[c].hdr = h
    BY <1>1, <1>4 DEF WayInv, Working
  <2>2. h \in Nat /\ Newest \in Nat
    BY <1>1, NewestIs
  <2>3. /\ Limit(h, n, lim) \in Int /\ Limit(h, p, lim)' \in Int
        /\ Limit(h, n, lim) <= Limit(h, p, lim)'
    BY <1>1, <2>2 DEF Limit, Written
  <2>4. h = Newest => Limit(h, p, lim)' = Written(p)'
    BY DEF Limit
  <2> QED
    BY <1>1, <1>2, <1>4, <2>1, <2>3, <2>4, CurStays
<1> QED
  BY <1>1, <1>2, <1>3, <1>4, WayStays

\* The last block is in use while there is room in it.
LEMMA LastBlock ==
    ASSUME ClaimInv, NEW n, NEW blk, NEW org, NEW lim, Ghosts(n, blk, org, lim),
           Layout(n, blk, org, lim), n > 0, Base(n - 1) <= tailIndex, tailIndex < Base(n)
    PROVE  /\ n - 1 \in Nat /\ ~Full(n - 1) /\ InUse(n, n - 1) /\ Holding(n - 1, blk[n - 1])
           /\ ring # <<>> /\ Last(ring) = blk[n - 1] /\ Len(ring) > 0
           /\ tailIndex \in Nat /\ tailIndex % BlockSize = tailIndex - Base(n - 1)
           /\ tailIndex - Base(n - 1) \in Offsets
<1>1. BlockTypes /\ TailInv(n) /\ RingInv(n, blk) /\ BlocksInv(n, blk) /\ n \in Nat
  BY DEF Layout, Ghosts
<1>2. /\ headIndex \in Nat /\ tailIndex \in Nat /\ headIndex <= tailIndex
  BY <1>1, TailIs
<1>3. n - 1 \in Nat /\ Base(n) = Base(n - 1) + BlockSize /\ Base(n - 1) \in Nat
  <2>1. n - 1 \in Nat /\ n - 1 \in Int /\ (n - 1) + 1 = n
    BY <1>1
  <2> QED
    BY <2>1, BaseIs, BaseOfNat
<1>4. tailIndex % BlockSize = tailIndex - Base(n - 1) /\ tailIndex - Base(n - 1) \in Offsets
  BY <1>2, <1>3, OffsetIs
<1>5. ~Full(n - 1)
  <2>1. Base(n - 1) + (tailIndex - Base(n - 1)) = tailIndex
    BY <1>2, <1>3
  <2>2. ~Done(tailIndex)
    BY <1>2 DEF Done
  <2> QED
    BY <1>4, <2>1, <2>2 DEF Full
<1>6. ring \in Seq(Blocks) /\ Len(ring) \in Nat
  BY <1>1 DEF BlockTypes
<1>7. isExplicit => ~(n - 1 < n - Len(ring))
  BY <1>1, <1>3, <1>5 DEF RingInv
<1>8. Len(ring) > 0
  <2>1. CASE isExplicit
    BY <1>1, <1>6, <1>7, <2>1
  <2>2. CASE ~isExplicit
    <3>1. ring = <<blk[n - 1]>>
      BY <1>1, <2>2 DEF RingInv
    <3> QED
      BY <3>1
  <2> QED
    BY <2>1, <2>2
<1>9. Last(ring) = blk[n - 1]
  <2>1. CASE isExplicit
    <3>1. Len(ring) \in 1 .. Len(ring) /\ n - Len(ring) + Len(ring) - 1 = n - 1
      BY <1>1, <1>6, <1>8
    <3>2. ring[Len(ring)] = blk[n - Len(ring) + Len(ring) - 1]
      BY <1>1, <2>1, <3>1 DEF RingInv
    <3> QED
      BY <3>1, <3>2 DEF Last
  <2>2. CASE ~isExplicit
    BY <1>1, <2>2 DEF RingInv, Last
  <2> QED
    BY <2>1, <2>2
<1>10. InUse(n, n - 1)
  BY <1>1, <1>3, <1>5, <1>6, <1>7 DEF InUse, Used
<1>11. Holding(n - 1, blk[n - 1])
  BY <1>1, <1>3, <1>10 DEF BlocksInv
<1> QED
  BY <1>2, <1>3, <1>4, <1>5, <1>6, <1>8, <1>9, <1>10, <1>11

\* The element is constructed in the last block.
LEMMA Builds ==
    ASSUME ClaimInv, NEW n, NEW blk, NEW org, NEW lim, Ghosts(n, blk, org, lim),
           Layout(n, blk, org, lim), n > 0, Base(n - 1) <= tailIndex, tailIndex < Base(n),
           cpc' = cpc, loc' = loc, headIndex' = headIndex, isExplicit' = isExplicit,
           tailIndex' = tailIndex, ring' = ring, ppc # "tail", ppc' = "tail",
           emptyFlags' = emptyFlags, elementsCompletelyDequeued' = elementsCompletelyDequeued,
           home' = home, elements' = Construct(Last(ring))
    PROVE  BlocksInv(n, blk)' /\ RingInv(n, blk)' /\ elements' \in [Blocks -> [Offsets -> Int]]
<1>1. /\ n - 1 \in Nat /\ ~Full(n - 1) /\ InUse(n, n - 1) /\ Holding(n - 1, blk[n - 1])
      /\ Last(ring) = blk[n - 1]
      /\ tailIndex \in Nat /\ tailIndex % BlockSize = tailIndex - Base(n - 1)
      /\ tailIndex - Base(n - 1) \in Offsets
  BY LastBlock
<1>2. BlockTypes /\ BlocksInv(n, blk) /\ RingInv(n, blk) /\ n \in Nat /\ headIndex \in Nat
      /\ headIndex <= tailIndex
  BY DEF Layout, Ghosts, ClaimInv, CounterTypes, Counts
<1>3. PICK b \in Blocks : b = blk[n - 1] /\ home[b] = "used" /\ Holding(n - 1, b)
  BY <1>1 DEF Holding
<1>4. PICK q \in Offsets : q = tailIndex - Base(n - 1) /\ Base(n - 1) + q = tailIndex
  <2>1. Base(n - 1) \in Nat
    BY <1>1, BaseOfNat
  <2> QED
    BY <1>1, <2>1
<1>5. elements' = [elements EXCEPT ![b][q] = tailIndex]
  BY <1>1, <1>3, <1>4 DEF Construct
<1>6. /\ elements' \in [Blocks -> [Offsets -> Int]]
      /\ \A a \in Blocks : a # b => elements'[a] = elements[a]
      /\ \A o \in Offsets : elements'[b][o] = IF o = q THEN tailIndex ELSE elements[b][o]
  <2>1. elements \in [Blocks -> [Offsets -> Int]] /\ elements[b] \in [Offsets -> Int]
    BY <1>2 DEF BlockTypes
  <2>2. PICK f : f = [elements[b] EXCEPT ![q] = tailIndex]
    OBVIOUS
  <2>3. f \in [Offsets -> Int] /\ \A o \in Offsets : f[o] = IF o = q THEN tailIndex ELSE elements[b][o]
    BY <1>1, <2>1, <2>2
  <2>4. elements' = [elements EXCEPT ![b] = f]
    BY <1>5, <2>2
  <2>5. elements' \in [Blocks -> [Offsets -> Int]] /\ elements'[b] = f
        /\ \A a \in Blocks : a # b => elements'[a] = elements[a]
    BY <2>1, <2>3, <2>4
  <2> QED
    BY <2>3, <2>5
<1>7. /\ \A i \in Nat : (Done(i)' <=> Done(i)) /\ (Taken(i)' <=> Taken(i))
      /\ \A k \in Nat : (Full(k)' <=> Full(k)) /\ DoneIn(k)' = DoneIn(k)
      /\ \A k \in Nat : InUse(n, k)' <=> InUse(n, k)
  <2>1. /\ \A i \in Nat : (Done(i)' <=> Done(i)) /\ (Taken(i)' <=> Taken(i))
        /\ \A k, places : LeftAt(k, places)' <=> LeftAt(k, places)
    BY WorkStays
  <2>2. \A k \in Nat : (Full(k)' <=> Full(k)) /\ DoneIn(k)' = DoneIn(k)
    BY <2>1, FullStays
  <2> QED
    BY <1>2, <2>1, <2>2, UseStays
<1>8. \A i \in Nat : Content(i)' = IF i = tailIndex THEN i ELSE Content(i)
  <2>1. ~Taken(tailIndex)
    BY <1>1, <1>2 DEF Taken
  <2>2. Built = tailIndex /\ Built' = tailIndex + 1
    BY DEF Built
  <2>3. \A i \in Nat : i # tailIndex => (i < tailIndex + 1 <=> i < tailIndex)
    BY <1>1
  <2>4. tailIndex < tailIndex + 1
    BY <1>1
  <2>5. ~Taken(tailIndex)'
    BY <1>1, <1>7, <2>1
  <2> QED
    BY <1>1, <1>7, <2>2, <2>3, <2>4, <2>5 DEF Content
<1>9. ASSUME NEW k \in Nat, InUse(n, k) PROVE Holding(k, blk[k])'
  <2>1. Holding(k, blk[k]) /\ (blk[k] = b => k = n - 1)
    BY <1>1, <1>2, <1>3, <1>9 DEF BlocksInv
  <2>2. PICK a \in Blocks : a = blk[k] /\ home[a] = "used" /\ Holding(k, a)
    BY <2>1 DEF Holding
  <2>3. \A o \in Offsets : elements'[a][o] = Content(Base(k) + o)'
    <3> SUFFICES ASSUME NEW o \in Offsets PROVE elements'[a][o] = Content(Base(k) + o)'
      OBVIOUS
    <3>1. PICK i \in Nat : i = Base(k) + o /\ Base(k) <= i /\ i < Base(k) + BlockSize
      BY ElementIs
    <3>2. elements[a][o] = Content(i)
      BY <2>2, <3>1 DEF Holding
    <3>3. CASE k = n - 1
      <4>1. a = b /\ (o = q <=> i = tailIndex)
        <5>1. Base(k) \in Nat /\ o \in Int /\ q \in Int
          BY BaseOfNat, BlockSizeIs
        <5> QED
          BY <1>3, <1>4, <2>2, <3>1, <3>3, <5>1
      <4> QED
        BY <1>6, <1>8, <3>1, <3>2, <4>1
    <3>4. CASE k # n - 1
      <4>1. a # b
        BY <2>1, <2>2, <3>4
      <4>2. i # tailIndex
        <5>1. Base(n) = Base(n - 1) + BlockSize /\ k \in Int /\ n - 1 \in Int /\ i \in Int
          BY <1>1, <1>2, BaseIs, BaseOfNat, BlockSizeIs
        <5> QED
          BY <3>1, <3>4, <5>1, OneNumber
      <4> QED
        BY <1>6, <1>8, <3>1, <3>2, <4>1, <4>2
    <3> QED
      BY <3>3, <3>4
  <2>4. Holding(k, a)'
    BY <1>7, <2>2, <2>3 DEF Holding
  <2> QED
    BY <2>2, <2>4
<1>10. \A a \in Blocks : home[a] # "used" => Vacant(a)'
  BY <1>2, <1>3, <1>6 DEF BlocksInv, Vacant
<1>11. BlocksInv(n, blk)'
  BY <1>2, <1>7, <1>9, <1>10 DEF BlocksInv
<1>12. RingInv(n, blk)'
  BY <1>2, <1>7, RingStays
<1> QED
  BY <1>6, <1>11, <1>12

\* The next slot of the last block.
LEMMA FillsBlock ==
    ASSUME ClaimInv, NEW n, NEW blk, NEW org, NEW lim, Ghosts(n, blk, org, lim),
           Layout(n, blk, org, lim), Enqueue_InBlock
    PROVE  Layout(n, blk, org, lim)'
<1>1. /\ ppc = "idle" /\ ~AtBoundary /\ elements' = Construct(Last(ring)) /\ ppc' = "tail"
      /\ isExplicit' = isExplicit /\ tailIndex' = tailIndex /\ ring' = ring
      /\ pr_blockIndexSlotsUsed' = pr_blockIndexSlotsUsed /\ headers' = headers
      /\ pr_blockIndexFront' = pr_blockIndexFront /\ cpc' = cpc /\ loc' = loc
      /\ headIndex' = headIndex /\ entries' = entries /\ home' = home
      /\ emptyFlags' = emptyFlags /\ elementsCompletelyDequeued' = elementsCompletelyDequeued
  BY DEF Enqueue_InBlock, CanEnqueue, consVars
<1>2. /\ BlockTypes /\ TailInv(n) /\ n \in Nat /\ OldInv(n, org, lim) /\ HeaderInv(n, org)
      /\ EntriesInv(n, blk, org, lim)
  BY DEF Layout, Ghosts
<1>3. tailIndex \in Nat /\ tailIndex <= Base(n) /\ Base(n) \in Nat /\ BlockSize \in Nat
  BY <1>2, TailIs, BlockSizeIs
<1>4. tailIndex # Base(n)
  <2>1. ASSUME tailIndex = Base(n) PROVE FALSE
    <3>1. Base(n) <= tailIndex /\ tailIndex < Base(n) + BlockSize
      BY <1>3, <2>1, BlockSizeIs
    <3>2. tailIndex % BlockSize = tailIndex - Base(n)
      BY <1>2, <1>3, <3>1, OffsetIs
    <3> QED
      BY <1>1, <1>3, <2>1, <3>2 DEF AtBoundary
  <2> QED
    BY <2>1
<1>5. n > 0 /\ Base(n - 1) <= tailIndex /\ tailIndex < Base(n) /\ Base(n) - BlockSize <= tailIndex
  <2>1. n # 0
    <3>1. n = 0 => Base(n) = 0
      BY BlockSizeIs DEF Base
    <3> QED
      BY <1>3, <1>4, <3>1
  <2>2. Base(n - 1) = Base(n) - BlockSize
    BY <1>2, BaseIs
  <2> QED
    BY <1>1, <1>2, <1>3, <1>4, <2>1, <2>2 DEF TailInv
<1>6. BlocksInv(n, blk)' /\ RingInv(n, blk)' /\ elements' \in [Blocks -> [Offsets -> Int]]
  BY <1>1, <1>5, Builds
<1>7. BlockTypes'
  BY <1>1, <1>2, <1>6 DEF BlockTypes, Newest
<1>8. TailInv(n)'
  BY <1>1, <1>5 DEF TailInv
<1>9. \A k \in Nat : k < n => (Held(n, k)' => Held(n, k))
  <2>1. /\ \A i \in Nat : Done(i)' <=> Done(i)
        /\ \A k, places : LeftAt(k, places)' <=> LeftAt(k, places)
    BY <1>1, WorkStays
  <2> QED
    BY <1>1, <1>2, <2>1, FullStays, UseStays
<1>10. OldInv(n, org, lim)' /\ HeaderInv(n, org)' /\ EntriesInv(n, blk, org, lim)'
  <2>1. {ppc, ppc'} \subseteq Settled
    BY <1>1 DEF Settled
  <2> QED
    BY <1>1, <1>2, <1>9, <2>1, IndexStays
<1>11. \A c \in Consumers : WayInv(c, n, blk, org, lim)'
  <2>1. Written(n) = n /\ Written(n)' = n
    BY <1>1 DEF Written
  <2>2. Newest' = Newest /\ \A h \in 1 .. Newest : headers'[h].slot = headers[h].slot
    BY <1>1 DEF Newest
  <2> QED
    BY <1>1, <1>2, <1>4, <2>1, <2>2, WaysStay
<1> QED
  BY <1>1, <1>6, <1>7, <1>8, <1>10, <1>11, ProducerMoves

\* The new tail, once the element is there.
LEMMA MovesTail ==
    ASSUME ClaimInv, NEW n, NEW blk, NEW org, NEW lim, Ghosts(n, blk, org, lim),
           Layout(n, blk, org, lim), Enqueue_Tail
    PROVE  Layout(n, blk, org, lim)'
<1>1. /\ ppc = "tail" /\ tailIndex' = tailIndex + 1 /\ ppc' = "idle"
      /\ isExplicit' = isExplicit /\ ring' = ring
      /\ pr_blockIndexSlotsUsed' = pr_blockIndexSlotsUsed /\ headers' = headers
      /\ pr_blockIndexFront' = pr_blockIndexFront /\ cpc' = cpc /\ loc' = loc
      /\ headIndex' = headIndex /\ entries' = entries /\ home' = home /\ elements' = elements
      /\ emptyFlags' = emptyFlags /\ elementsCompletelyDequeued' = elementsCompletelyDequeued
  BY DEF Enqueue_Tail, consVars, blockVars
<1>2. /\ BlockTypes /\ TailInv(n) /\ n \in Nat /\ OldInv(n, org, lim) /\ HeaderInv(n, org)
      /\ EntriesInv(n, blk, org, lim) /\ BlocksInv(n, blk) /\ RingInv(n, blk)
  BY DEF Layout, Ghosts
<1>3. tailIndex \in Nat /\ Base(n) \in Nat /\ BlockSize \in Nat
  BY <1>2, TailIs, BlockSizeIs
<1>4. Base(n) - BlockSize <= tailIndex /\ tailIndex < Base(n)
  BY <1>1, <1>2 DEF TailInv
<1>5. TailInv(n)'
  BY <1>1, <1>3, <1>4 DEF TailInv
<1>6. /\ \A i \in Nat : (Done(i)' <=> Done(i)) /\ (Taken(i)' <=> Taken(i))
      /\ \A k, places : LeftAt(k, places)' <=> LeftAt(k, places)
  BY <1>1, WorkStays
<1>7. \A k \in Nat : Full(k)' <=> Full(k)
  BY <1>6, FullStays
<1>8. \A k \in Nat : (InUse(n, k)' <=> InUse(n, k)) /\ (Held(n, k)' <=> Held(n, k))
  BY <1>1, <1>2, <1>6, <1>7, UseStays
<1>9. BlocksInv(n, blk)'
  <2>1. Built' = Built
    BY <1>1 DEF Built
  <2> QED
    BY <1>1, <1>2, <1>6, <1>8, <2>1, BlocksStay
<1>10. RingInv(n, blk)'
  BY <1>1, <1>2, <1>7, RingStays
<1>11. BlockTypes'
  BY <1>1, <1>2 DEF BlockTypes, Newest
<1>12. OldInv(n, org, lim)' /\ HeaderInv(n, org)' /\ EntriesInv(n, blk, org, lim)'
  <2>1. {ppc, ppc'} \subseteq Settled
    BY <1>1 DEF Settled
  <2> QED
    BY <1>1, <1>2, <1>8, <2>1, IndexStays
<1>13. \A c \in Consumers : WayInv(c, n, blk, org, lim)'
  <2>1. Written(n) = n /\ Written(n)' = n
    BY <1>1 DEF Written
  <2>2. Newest' = Newest /\ \A h \in 1 .. Newest : headers'[h].slot = headers[h].slot
    BY <1>1 DEF Newest
  <2>3. tailIndex # Base(n) /\ Written(n)' \in Int /\ Written(n) <= Written(n)'
    BY <1>2, <1>3, <1>4, <2>1
  <2>4. \A k \in Nat : k < n => blk[k] = blk[k]
    OBVIOUS
  <2> QED
    BY <1>1, <1>2, <2>2, <2>3, <2>4, WaysStay
<1> QED
  BY <1>1, <1>5, <1>9, <1>10, <1>11, <1>12, <1>13, ProducerMoves

\* A step of the producer takes and gives back nothing.
LEMMA NothingTaken ==
    ASSUME cpc' = cpc, loc' = loc, headIndex' = headIndex, isExplicit' = isExplicit
    PROVE  /\ \A i \in Nat : (Done(i)' <=> Done(i)) /\ (Taken(i)' <=> Taken(i))
           /\ \A k \in Nat : (Full(k)' <=> Full(k)) /\ DoneIn(k)' = DoneIn(k)
           /\ \A k, places : LeftAt(k, places)' <=> LeftAt(k, places)
<1>1. /\ \A i \in Nat : (Done(i)' <=> Done(i)) /\ (Taken(i)' <=> Taken(i))
      /\ \A k, places : LeftAt(k, places)' <=> LeftAt(k, places)
  BY WorkStays
<1> QED
  BY <1>1, FullStays

LEMMA NoBlockTaken ==
    ASSUME cpc' = cpc, loc' = loc, headIndex' = headIndex, isExplicit' = isExplicit,
           isExplicit => ring' = ring
    PROVE  \A n \in Nat : \A k \in Nat : /\ InUse(n, k)' <=> InUse(n, k)
                                         /\ Held(n, k)' <=> Held(n, k)
                                         /\ Kept(n, k)' <=> Kept(n, k)
BY NothingTaken, UseStays

\* The numbers that are kept are within one round of the newest index.
LEMMA KeptNear ==
    ASSUME NEW n, NEW blk, NEW org, NEW lim, Ghosts(n, blk, org, lim),
           Layout(n, blk, org, lim), NEW m \in Nat, Kept(n, m)
    PROVE  n - m <= SizeOf(Header) /\ (ppc = "block" => n - m < SizeOf(Header))
<1>1. BlockTypes /\ HeaderInv(n, org) /\ n \in Nat
  BY DEF Layout, Ghosts
<1>2. SizeOf(Header) \in Nat
  BY <1>1, NewestIs, HeaderIs
<1>3. PICK k \in 0 .. m : Held(n, k)
  BY DEF Kept
<1>4. (IF ppc = "block" THEN n + 1 ELSE n) - k <= SizeOf(Header)
  BY <1>1, <1>3 DEF HeaderInv
<1> QED
  BY <1>1, <1>2, <1>3, <1>4

LEMMA IndexesAre ==
    ASSUME BlockTypes, NEW lim \in [Nat -> Nat]
    PROVE  /\ \A h \in 1 .. Newest : h \in Nat /\ lim[h] \in Nat
           /\ \A h \in 1 .. Newest - 1 : h \in 1 .. Newest /\ h # Newest
           /\ \A h \in 1 .. Newest : h # Newest => h \in 1 .. Newest - 1
<1>1. PICK s \in Nat : s = Newest
  BY NewestIs
<1>2. /\ \A h \in 1 .. s : h \in Nat /\ lim[h] \in Nat
      /\ \A h \in 1 .. s - 1 : h \in 1 .. s /\ h # s
      /\ \A h \in 1 .. s : h # s => h \in 1 .. s - 1
  OBVIOUS
<1> QED
  BY <1>1, <1>2

LEMMA LimitIs ==
    ASSUME BlockTypes, NEW lim \in [Nat -> Nat], NEW n \in Nat, NEW h \in 1 .. Newest
    PROVE  Limit(h, n, lim) = (IF h = Newest THEN Written(n) ELSE lim[h]) /\ lim[h] \in Nat
BY IndexesAre DEF Limit

\* The explicit producer writes the entry before it publishes its slot.
LEMMA WritesEntry ==
    ASSUME ClaimInv, NEW n, NEW blk, NEW org, NEW lim, Ghosts(n, blk, org, lim),
           Layout(n, blk, org, lim), Enqueue_Entry
    PROVE  Layout(n, blk, org, lim)'
<1>1. /\ ppc = "entry" /\ ppc' = "front"
      /\ entries' = [entries EXCEPT ![Header.slot[pr_blockIndexFront]] =
                         [base |-> tailIndex, block |-> Last(ring)]]
      /\ isExplicit' = isExplicit /\ ring' = ring /\ tailIndex' = tailIndex
      /\ pr_blockIndexSlotsUsed' = pr_blockIndexSlotsUsed /\ headers' = headers
      /\ pr_blockIndexFront' = pr_blockIndexFront /\ cpc' = cpc /\ loc' = loc
      /\ headIndex' = headIndex /\ home' = home /\ elements' = elements
      /\ emptyFlags' = emptyFlags /\ elementsCompletelyDequeued' = elementsCompletelyDequeued
  BY DEF Enqueue_Entry, consVars, blockVars
<1>2. /\ BlockTypes /\ TailInv(n) /\ n \in Nat /\ OldInv(n, org, lim) /\ HeaderInv(n, org)
      /\ EntriesInv(n, blk, org, lim) /\ BlocksInv(n, blk) /\ RingInv(n, blk)
      /\ blk \in [Nat -> Nat] /\ org \in [Nat -> Int] /\ lim \in [Nat -> Nat]
  BY DEF Layout, Ghosts
<1>3. isExplicit /\ n > 0 /\ tailIndex = Base(n - 1) /\ n - 1 \in Nat
  BY <1>1, <1>2 DEF TailInv
<1>4. Base(n - 1) <= tailIndex /\ tailIndex < Base(n) /\ tailIndex \in Nat
  <2>1. Base(n) = Base(n - 1) + BlockSize /\ Base(n - 1) \in Nat
    BY <1>2, <1>3, BaseIs, BaseOfNat, BlockSizeIs
  <2> QED
    BY <1>3, <2>1, BlockSizeIs
<1>5. Last(ring) = blk[n - 1]
  BY <1>3, <1>4, LastBlock
<1>6. /\ \A i \in Nat : (Done(i)' <=> Done(i)) /\ (Taken(i)' <=> Taken(i))
      /\ \A k \in Nat : (Full(k)' <=> Full(k))
  BY <1>1, NothingTaken
<1>7. \A k \in Nat : /\ InUse(n, k)' <=> InUse(n, k)
                     /\ Held(n, k)' <=> Held(n, k)
                     /\ Kept(n, k)' <=> Kept(n, k)
  BY <1>1, <1>2, NoBlockTaken
<1>8. BlocksInv(n, blk)' /\ RingInv(n, blk)'
  <2>1. Built' = Built
    BY <1>1 DEF Built
  <2> QED
    BY <1>1, <1>2, <1>6, <1>7, <2>1, BlocksStay, RingStays
<1>9. /\ Newest \in 1 .. Newest /\ Header = headers[Newest] /\ Newest \in Nat
      /\ SizeOf(Header) \in Nat
  BY <1>2, NewestIs, HeaderIs
<1>10. PICK e \in 1 .. Len(entries) : e = Id(Newest, n - 1, org) /\ e = Header.slot[pr_blockIndexFront]
  <2>1. n - 1 \in Int
    BY <1>2
  <2>2. Id(Newest, n - 1, org) \in 1 .. Len(entries)
    BY <1>9, <2>1, EntryIs
  <2>3. pr_blockIndexFront = Pos(Newest, n - 1, org)
    BY <1>1, <1>2, <1>3 DEF HeaderInv
  <2> QED
    BY <1>9, <2>2, <2>3 DEF Id
<1>11. PICK v \in EntrySet : v = [base |-> Base(n - 1), block |-> blk[n - 1]]
                             /\ v.base = Base(n - 1) /\ v.block = blk[n - 1]
  <2>1. Base(n - 1) \in Int /\ blk[n - 1] \in Nat
    BY <1>2, <1>3, <1>4
  <2> QED
    <3>1. [base |-> Base(n - 1), block |-> blk[n - 1]] \in EntrySet
      BY <2>1 DEF EntrySet
    <3> QED
      BY <3>1
<1>12. /\ entries' \in Seq(EntrySet) /\ Len(entries') = Len(entries) /\ entries'[e] = v
       /\ \A g \in 1 .. Len(entries) : g # e => entries'[g] = entries[g]
  <2>1. entries' = [entries EXCEPT ![e] = v]
    BY <1>1, <1>3, <1>5, <1>10, <1>11
  <2> QED
    BY <1>2, <2>1, EntryChanges DEF BlockTypes
<1>13. BlockTypes'
  BY <1>1, <1>2, <1>12 DEF BlockTypes, Newest
<1>14. TailInv(n)'
  BY <1>1, <1>3 DEF TailInv
<1>15. /\ Newest' = Newest /\ Header' = Header
       /\ \A h \in 1 .. Newest : headers'[h].slot = headers[h].slot
       /\ \A h, k : Pos(h, k, org)' = Pos(h, k, org) /\ Id(h, k, org)' = Id(h, k, org)
  BY <1>1 DEF Newest, Header, Pos, Id, SizeOf
<1>16. Written(n) = n - 1 /\ Written(n)' = n
  BY <1>1 DEF Written
<1>17. OldInv(n, org, lim)'
  <2>1. ASSUME NEW h \in 1 .. Newest - 1
        PROVE  lim[h] <= n /\ headers'[h].cur = Pos(h, lim[h] - 1, org)'
    <3>1. h \in Nat /\ lim[h] \in Nat
      BY <1>2, IndexesAre
    <3>2. lim[h] <= n - 1 /\ headers[h].cur = Pos(h, lim[h] - 1, org)
      BY <1>2, <1>16 DEF OldInv
    <3>3. Pos(h, lim[h] - 1, org)' = Pos(h, lim[h] - 1, org)
      BY <1>15
    <3> QED
      BY <1>1, <1>2, <3>1, <3>2, <3>3
  <2>2. \A h \in 1 .. Newest - 1 : \A i \in DOMAIN headers[h].slot : \A j \in DOMAIN Header.slot :
             headers[h].slot[i] # Header.slot[j]
    BY <1>2, <1>3 DEF OldInv
  <2> QED
    BY <1>1, <1>3, <1>15, <1>16, <2>1, <2>2 DEF OldInv
<1>18. HeaderInv(n, org)'
  <2>1. SizeOf(Header)' = SizeOf(Header)
    BY <1>15 DEF SizeOf
  <2> QED
    BY <1>1, <1>2, <1>3, <1>7, <1>15, <2>1 DEF HeaderInv
<1>19. EntriesInv(n, blk, org, lim)'
  <2>1. \A g \in 1 .. Newest : GoodHeader(headers[g])'
    BY <1>1, <1>2, <1>12 DEF EntriesInv, GoodHeader
  <2>0. \A g : /\ Limit(g, n, lim) = IF g = Newest THEN n - 1 ELSE lim[g]
               /\ Limit(g, n, lim)' = IF g = Newest THEN n ELSE lim[g]
    BY <1>15, <1>16 DEF Limit
  <2>5. \A g \in 1 .. Newest : lim[g] \in Nat
    BY <1>2, IndexesAre
  <2>2. ASSUME NEW g \in 1 .. Newest, NEW m \in Nat, m < (IF g = Newest THEN n ELSE lim[g])
        PROVE  /\ Kept(n, m)' => entries'[Id(g, m, org)].base = Base(m)
               /\ Held(n, m)' => entries'[Id(g, m, org)].block = blk[m]
    <3>1. m \in Nat /\ Id(g, m, org) \in 1 .. Len(entries)
      BY m \in Int, EntryIs
    <3>2. CASE g = Newest /\ m = n - 1
      BY <1>10, <1>11, <1>12, <3>2
    <3>3. CASE ~(g = Newest /\ m = n - 1)
      <4>1. m < Limit(g, n, lim) /\ m \in 0 .. Limit(g, n, lim) - 1
        <5>1. Limit(g, n, lim) = IF g = Newest THEN n - 1 ELSE lim[g]
          BY <2>0
        <5>2. n \in Nat /\ lim[g] \in Nat
          BY <1>2, <2>5
        <5> QED
          BY <2>2, <3>3, <5>1, <5>2
      <4>2. ASSUME Kept(n, m) PROVE Id(g, m, org) # e
        <5>1. CASE g = Newest
          <6>1. m < n - 1 /\ n - 1 - m < SizeOf(headers[Newest]) /\ n - 1 \in Int
            <7>1. n - m <= SizeOf(Header)
              BY <3>1, <4>2, KeptNear
            <7> QED
              BY <1>2, <1>3, <1>9, <2>2, <3>3, <5>1, <7>1
          <6> QED
            BY <1>9, <1>10, <3>1, <5>1, <6>1, EntriesDiffer
        <5>2. CASE g # Newest
          <6>1. g \in 1 .. Newest - 1
            BY <1>9, <5>2
          <6>2. PICK i \in DOMAIN headers[g].slot : headers[g].slot[i] = Id(g, m, org)
            <7>1. Pos(g, m, org) \in DOMAIN headers[g].slot
              BY <1>2, <3>1, m \in Int, PosIs
            <7> QED
              BY <7>1 DEF Id
          <6>3. PICK j \in DOMAIN Header.slot : Header.slot[j] = e
            <7>1. Pos(Newest, n - 1, org) \in DOMAIN headers[Newest].slot
              BY <1>2, <1>9, n - 1 \in Int, PosIs
            <7> QED
              BY <1>9, <1>10, <7>1 DEF Id
          <6> QED
            BY <1>2, <1>3, <6>1, <6>2, <6>3 DEF OldInv
        <5> QED
          BY <5>1, <5>2
      <4>3. Held(n, m) => Kept(n, m)
        BY <3>1 DEF Kept
      <4>4. /\ Kept(n, m) => entries[Id(g, m, org)].base = Base(m)
            /\ Held(n, m) => entries[Id(g, m, org)].block = blk[m]
        BY <1>2, <4>1 DEF EntriesInv
      <4>5. PICK x \in 1 .. Len(entries) : x = Id(g, m, org)
        BY <3>1
      <4>7. (Held(n, m)' <=> Held(n, m)) /\ (Kept(n, m)' <=> Kept(n, m))
        BY <1>7
      <4>6. Kept(n, m) => entries'[x] = entries[x]
        BY <1>12, <4>2, <4>5
      <4> QED
        BY <4>3, <4>4, <4>5, <4>6, <4>7
    <3> QED
      BY <3>2, <3>3
  <2>3. \A g \in 1 .. Len(entries') : entries'[g].base = NoBase => entries'[g].block = NoBlock
    <3>1. v.base # NoBase
      BY <1>3, <1>4, <1>11 DEF NoBase
    <3> QED
      BY <1>2, <1>12, <3>1 DEF EntriesInv
  <2>4. ppc' # "block"
    BY <1>1
  <2> QED
    <3>1. \A g \in 1 .. Newest : \A m \in 0 .. Limit(g, n, lim)' - 1 :
              /\ Kept(n, m)' => entries'[Id(g, m, org)].base = Base(m)
              /\ Held(n, m)' => entries'[Id(g, m, org)].block = blk[m]
      <4> SUFFICES ASSUME NEW g \in 1 .. Newest, NEW m \in 0 .. Limit(g, n, lim)' - 1
                   PROVE  /\ Kept(n, m)' => entries'[Id(g, m, org)].base = Base(m)
                          /\ Held(n, m)' => entries'[Id(g, m, org)].block = blk[m]
        OBVIOUS
      <4>1. PICK s \in Nat : s = Limit(g, n, lim)' /\ s = IF g = Newest THEN n ELSE lim[g]
        BY <1>2, <2>0, <2>5
      <4>2. m \in Nat /\ m < s
        BY <4>1
      <4> QED
        BY <2>2, <4>1, <4>2
    <3> QED
      BY <1>15, <2>1, <2>3, <2>4, <3>1 DEF EntriesInv
<1>20. \A c \in Consumers : WayInv(c, n, blk, org, lim)'
  <2>1. Written(n)' \in Int /\ Written(n) <= Written(n)'
    BY <1>2, <1>16
  <2>2. \A k \in Nat : k < n => blk[k] = blk[k]
    OBVIOUS
  <2> QED
    BY <1>1, <1>2, <1>3, <1>15, <2>1, <2>2, WaysStay
<1> QED
  BY <1>1, <1>8, <1>13, <1>14, <1>17, <1>18, <1>19, <1>20, ProducerMoves

\* Only the current slot of the newest index changes.
LEMMA CurrentMoves ==
    ASSUME ClaimInv, NEW n, NEW blk, NEW org, NEW lim, Ghosts(n, blk, org, lim),
           Layout(n, blk, org, lim), NEW x \in Int,
           headers' = [headers EXCEPT ![Len(headers)].cur = x], entries' = entries,
           cpc' = cpc, loc' = loc, headIndex' = headIndex, isExplicit' = isExplicit,
           ring' = ring, Written(n)' = Written(n), ppc' # "block"
    PROVE  /\ OldInv(n, org, lim)' /\ EntriesInv(n, blk, org, lim)'
           /\ headers' \in Seq(HeaderSet) /\ Newest' = Newest /\ Newest' # 0
           /\ \A h \in 1 .. Newest : headers'[h].slot = headers[h].slot
           /\ Header'.cur = x /\ SizeOf(Header)' = SizeOf(Header)
           /\ \A k : Pos(Newest, k, org)' = Pos(Newest, k, org)
<1>1. /\ BlockTypes /\ n \in Nat /\ OldInv(n, org, lim) /\ EntriesInv(n, blk, org, lim)
      /\ org \in [Nat -> Int] /\ lim \in [Nat -> Nat]
  BY DEF Layout, Ghosts
<1>2. /\ headers' \in Seq(HeaderSet) /\ Newest' = Newest
      /\ \A h \in 1 .. Newest : headers'[h].slot = headers[h].slot
      /\ Header'.cur = x /\ \A h \in 1 .. Newest - 1 : headers'[h] = headers[h]
  BY <1>1, CurMoves
<1>3. \A h \in 1 .. Newest : /\ SizeOf(headers[h])' = SizeOf(headers[h])
                             /\ \A k : Pos(h, k, org)' = Pos(h, k, org)
                             /\ \A k : Id(h, k, org)' = Id(h, k, org)
  BY <1>1, <1>2, SlotsStay
<1>4. /\ Newest \in 1 .. Newest /\ Header = headers[Newest] /\ Header' = headers'[Newest]
      /\ Newest # 0
  BY <1>1, <1>2, NewestIs DEF Header, Newest
<1>5. \A k \in Nat : /\ Held(n, k)' <=> Held(n, k)
                     /\ Kept(n, k)' <=> Kept(n, k)
  BY <1>1, NoBlockTaken
<1>6. \A h : Limit(h, n, lim)' = Limit(h, n, lim)
  BY <1>2 DEF Limit
<1>7. Header'.slot = Header.slot /\ SizeOf(Header)' = SizeOf(Header)
  BY <1>2, <1>3, <1>4
<1>8. OldInv(n, org, lim)'
  <2>1. ASSUME NEW h \in 1 .. Newest - 1
        PROVE  /\ h \in 1 .. Newest /\ lim[h] \in Nat /\ lim[h] <= Written(n)'
               /\ headers'[h].cur = Pos(h, lim[h] - 1, org)'
               /\ headers'[h].slot = headers[h].slot
               /\ \A k : Id(h, k, org)' = Id(h, k, org)
    <3>1. h \in 1 .. Newest /\ lim[h] \in Nat
      BY <1>1, IndexesAre
    <3>2. lim[h] <= Written(n) /\ headers[h].cur = Pos(h, lim[h] - 1, org)
      BY <1>1 DEF OldInv
    <3>3. Pos(h, lim[h] - 1, org)' = Pos(h, lim[h] - 1, org)
      BY <1>3, <3>1
    <3> QED
      BY <1>2, <1>3, <3>1, <3>2, <3>3
  <2>2. ASSUME isExplicit
        PROVE  \A h \in 1 .. Newest - 1 :
                 \A i \in DOMAIN headers'[h].slot : \A j \in DOMAIN Header'.slot :
                   headers'[h].slot[i] # Header'.slot[j]
    <3> SUFFICES ASSUME NEW h \in 1 .. Newest - 1
                 PROVE  \A i \in DOMAIN headers'[h].slot : \A j \in DOMAIN Header'.slot :
                          headers'[h].slot[i] # Header'.slot[j]
      OBVIOUS
    <3>1. headers'[h].slot = headers[h].slot
      BY <2>1
    <3>2. \A i \in DOMAIN headers[h].slot : \A j \in DOMAIN Header.slot :
            headers[h].slot[i] # Header.slot[j]
      BY <1>1, <2>2 DEF OldInv
    <3> QED
      BY <1>7, <3>1, <3>2
  <2>3. ASSUME ~isExplicit, NEW h \in 1 .. Newest - 1, NEW m \in 0 .. lim[h] - 1, Kept(n, m)'
        PROVE  Id(h, m, org)' = Id(Newest, m, org)'
    <3>1. m \in Nat
      BY <2>1
    <3>2. Id(h, m, org) = Id(Newest, m, org)
      BY <1>1, <1>5, <2>3, <3>1 DEF OldInv
    <3>3. Id(h, m, org)' = Id(h, m, org)
      BY <2>1
    <3>4. Id(Newest, m, org)' = Id(Newest, m, org)
      BY <1>2, <1>3, <1>4
    <3> QED
      BY <3>2, <3>3, <3>4
  <2> QED
    BY <1>2, <2>1, <2>2, <2>3 DEF OldInv
<1>9. EntriesInv(n, blk, org, lim)'
  <2>1. \A h \in 1 .. Newest : GoodHeader(headers[h])'
    <3> SUFFICES ASSUME NEW h \in 1 .. Newest PROVE GoodHeader(headers[h])'
      OBVIOUS
    <3>1. GoodHeader(headers[h]) /\ headers'[h].slot = headers[h].slot
      BY <1>1, <1>2 DEF EntriesInv
    <3> QED
      BY <3>1 DEF GoodHeader
  <2>2. ASSUME NEW h \in 1 .. Newest, NEW m \in 0 .. Limit(h, n, lim) - 1
        PROVE  /\ Kept(n, m)' => entries'[Id(h, m, org)'].base = Base(m)
               /\ Held(n, m)' => entries'[Id(h, m, org)'].block = blk[m]
    <3>1. m \in Nat
      BY <1>1, LimitIs DEF Written
    <3>2. /\ Kept(n, m) => entries[Id(h, m, org)].base = Base(m)
          /\ Held(n, m) => entries[Id(h, m, org)].block = blk[m]
      BY <1>1 DEF EntriesInv
    <3>3. Id(h, m, org)' = Id(h, m, org) /\ entries' = entries
      BY <1>1, <1>3
    <3> QED
      BY <1>5, <3>1, <3>2, <3>3
  <2>3. \A e \in 1 .. Len(entries') : entries'[e].base = NoBase => entries'[e].block = NoBlock
    BY <1>1 DEF EntriesInv
  <2> QED
    BY <1>2, <1>6, <2>1, <2>2, <2>3 DEF EntriesInv
<1> QED
  BY <1>2, <1>3, <1>4, <1>7, <1>8, <1>9

\* The explicit producer publishes the slot; the element is already next.
LEMMA MovesFront ==
    ASSUME ClaimInv, NEW n, NEW blk, NEW org, NEW lim, Ghosts(n, blk, org, lim),
           Layout(n, blk, org, lim), Enqueue_Front
    PROVE  Layout(n, blk, org, lim)'
<1>1. /\ ppc = "front" /\ ppc' = "tail" /\ elements' = Construct(Last(ring))
      /\ headers' = [headers EXCEPT ![Len(headers)].cur = pr_blockIndexFront]
      /\ pr_blockIndexFront' = (pr_blockIndexFront + 1) % SizeOf(Header)
      /\ isExplicit' = isExplicit /\ ring' = ring /\ tailIndex' = tailIndex
      /\ pr_blockIndexSlotsUsed' = pr_blockIndexSlotsUsed /\ entries' = entries
      /\ cpc' = cpc /\ loc' = loc /\ headIndex' = headIndex /\ home' = home
      /\ emptyFlags' = emptyFlags /\ elementsCompletelyDequeued' = elementsCompletelyDequeued
  BY DEF Enqueue_Front, consVars
<1>2. /\ BlockTypes /\ TailInv(n) /\ n \in Nat /\ HeaderInv(n, org) /\ org \in [Nat -> Int]
  BY DEF Layout, Ghosts
<1>3. isExplicit /\ n > 0 /\ tailIndex = Base(n - 1) /\ n - 1 \in Nat
  BY <1>1, <1>2 DEF TailInv
<1>4. /\ Base(n - 1) <= tailIndex /\ tailIndex < Base(n) /\ tailIndex \in Nat
      /\ Base(n) - BlockSize <= tailIndex
  <2>1. Base(n) = Base(n - 1) + BlockSize /\ Base(n - 1) \in Nat
    <3>1. n - 1 \in Int /\ (n - 1) + 1 = n
      BY <1>2
    <3> QED
      BY <1>3, <3>1, BaseIs, BaseOfNat
  <2> QED
    BY <1>3, <2>1, BlockSizeIs
<1>5. BlocksInv(n, blk)' /\ RingInv(n, blk)' /\ elements' \in [Blocks -> [Offsets -> Int]]
  BY <1>1, <1>3, <1>4, Builds
<1>6. Newest \in 1 .. Newest /\ Header = headers[Newest] /\ SizeOf(Header) \in Nat \ {0}
  BY <1>2, NewestIs, HeaderIs
<1>7. pr_blockIndexFront = Pos(Newest, n - 1, org) /\ pr_blockIndexFront \in Int
      /\ pr_blockIndexFront' = Pos(Newest, n, org)
  <2>1. pr_blockIndexFront = Pos(Newest, n - 1, org)
    BY <1>1, <1>2, <1>3 DEF HeaderInv
  <2>2. n - 1 \in Int /\ (n - 1) + 1 = n /\ 1 \in Int
    BY <1>2
  <2>3. Pos(Newest, n - 1, org) \in 0 .. SizeOf(headers[Newest]) - 1
    BY <1>2, <1>6, <2>2, PosIs
  <2>4. (Pos(Newest, n - 1, org) + 1) % SizeOf(headers[Newest]) = Pos(Newest, (n - 1) + 1, org)
    BY <1>2, <1>6, <2>2, PosIs
  <2> QED
    BY <1>1, <1>6, <2>1, <2>2, <2>3, <2>4
<1>8. Written(n) = n /\ Written(n)' = n
  BY <1>1 DEF Written
<1>9. /\ OldInv(n, org, lim)' /\ EntriesInv(n, blk, org, lim)'
      /\ headers' \in Seq(HeaderSet) /\ Newest' = Newest /\ Newest' # 0
      /\ \A h \in 1 .. Newest : headers'[h].slot = headers[h].slot
      /\ Header'.cur = pr_blockIndexFront /\ SizeOf(Header)' = SizeOf(Header)
      /\ \A k : Pos(Newest, k, org)' = Pos(Newest, k, org)
  BY <1>1, <1>7, <1>8, CurrentMoves
<1>10. BlockTypes'
  BY <1>1, <1>2, <1>5, <1>9 DEF BlockTypes
<1>11. TailInv(n)'
  BY <1>1, <1>4 DEF TailInv
<1>12. HeaderInv(n, org)'
  <2>1. \A k \in Nat : Held(n, k)' <=> Held(n, k)
    BY <1>1, <1>2, NoBlockTaken
  <2>2. \A k \in Nat : Held(n, k) => n - k <= SizeOf(Header)
    BY <1>1, <1>2 DEF HeaderInv
  <2>3. /\ pr_blockIndexSlotsUsed = Len(ring)
        /\ Len(ring) <= SizeOf(Header) /\ Len(ring) <= n
    BY <1>2, <1>3 DEF HeaderInv
  <2> QED
    BY <1>1, <1>7, <1>9, <2>1, <2>2, <2>3 DEF HeaderInv
<1>13. \A c \in Consumers : WayInv(c, n, blk, org, lim)'
  <2>1. Written(n)' \in Int /\ Written(n) <= Written(n)'
    BY <1>2, <1>8
  <2>2. \A k \in Nat : k < n => blk[k] = blk[k]
    OBVIOUS
  <2> QED
    BY <1>1, <1>2, <1>3, <1>9, <2>1, <2>2, WaysStay
<1> QED
  BY <1>1, <1>5, <1>9, <1>10, <1>11, <1>12, <1>13, ProducerMoves

-----------------------------------------------------------------------------
(* A block the producer gets.                                               *)

LEMMA LeastIs ==
    ASSUME NEW S, S \subseteq Nat, S # {}
    PROVE  Min(S) \in S
<1>1. PICK R : R = OpToRel(<, Nat)
  OBVIOUS
<1>2. IsWellFoundedOn(R, Nat)
  BY <1>1, NatLessThanWellFounded
<1>3. PICK x \in S : \A y \in S : ~(<<y, x>> \in R)
  BY <1>2, WFMin
<1>4. \A a, b \in Nat : <<a, b>> \in R <=> a < b
  BY <1>1 DEF OpToRel
<1>5. \A y \in S : x <= y
  <2> SUFFICES ASSUME NEW y \in S PROVE x <= y
    OBVIOUS
  <2>1. x \in Nat /\ y \in Nat
    OBVIOUS
  <2>2. ~(y < x)
    BY <1>3, <1>4, <2>1
  <2> QED
    BY <2>1, <2>2
<1> QED
  BY <1>5 DEF Min

\* Nobody has the block that is requisitioned.
LEMMA BlockIsFree ==
    ASSUME NEW b \in RequisitionBlock
    PROVE  b \in Blocks /\ home[b] # "used"
<1>1. CASE At("pool") # {}
  <2>1. At("pool") \subseteq Nat /\ RequisitionBlock = {Min(At("pool"))}
    BY <1>1, ProducerAssumption DEF At, Blocks, RequisitionBlock
  <2>2. b \in At("pool")
    BY <1>1, <2>1, LeastIs
  <2> QED
    BY <2>2 DEF At
<1>2. CASE At("pool") = {}
  <2>1. b \in At("list") \/ b \in At("heap")
    BY <1>2 DEF RequisitionBlock
  <2> QED
    BY <2>1 DEF At
<1> QED
  BY <1>1, <1>2

\* No block comes into use or goes out of it.
LEMMA HomesMove ==
    ASSUME NEW n \in Nat, NEW blk, BlocksInv(n, blk), isExplicit' = isExplicit,
           elements' = elements, emptyFlags' = emptyFlags,
           elementsCompletelyDequeued' = elementsCompletelyDequeued,
           \A b \in Blocks : home'[b] = home[b] \/ (home[b] # "used" /\ home'[b] # "used"),
           Built' = Built, \A i \in Nat : Taken(i)' <=> Taken(i),
           \A i \in Nat : Done(i)' <=> Done(i),
           \A k \in Nat : InUse(n, k)' <=> InUse(n, k)
    PROVE  BlocksInv(n, blk)'
<1>1. \A k \in Nat : (Full(k)' <=> Full(k)) /\ DoneIn(k)' = DoneIn(k)
  BY FullStays
<1>2. \A i \in Nat : Content(i)' = Content(i)
  BY DEF Content
<1>3. ASSUME NEW k \in Nat, InUse(n, k) PROVE Holding(k, blk[k])'
  <2>1. Holding(k, blk[k])
    BY <1>3 DEF BlocksInv
  <2>2. PICK a \in Blocks : a = blk[k] /\ home[a] = "used" /\ Holding(k, a)
    BY <2>1 DEF Holding
  <2>3. \A o \in Offsets : Base(k) + o \in Nat
    BY ElementIs
  <2>4. Holding(k, a)'
    BY <1>1, <1>2, <2>2, <2>3 DEF Holding
  <2> QED
    BY <2>2, <2>4
<1>4. \A a \in Blocks : (home'[a] = "used" <=> home[a] = "used") /\ (Vacant(a)' <=> Vacant(a))
  BY DEF Vacant
<1> QED
  BY <1>3, <1>4 DEF BlocksInv

\* No block, or none for this element: the slot is given back.
LEMMA GivesSlotBack ==
    ASSUME ClaimInv, NEW n, NEW blk, NEW org, NEW lim, Ghosts(n, blk, org, lim),
           Layout(n, blk, org, lim), Enqueue_Undo
    PROVE  Layout(n, blk, org, lim)'
<1>1. /\ ppc = "block" /\ ppc' = "idle" /\ headers' = RewindBlockIndexTail
      /\ entries' = [entries EXCEPT ![Header.slot[Header.cur]].block = NoBlock]
      /\ \/ home' = home
         \/ \E b \in RequisitionBlock : home' = [home EXCEPT ![b] = AddBlockToFreeList(b)]
      /\ isExplicit' = isExplicit /\ ring' = ring /\ tailIndex' = tailIndex
      /\ pr_blockIndexSlotsUsed' = pr_blockIndexSlotsUsed
      /\ pr_blockIndexFront' = pr_blockIndexFront
      /\ cpc' = cpc /\ loc' = loc /\ headIndex' = headIndex /\ elements' = elements
      /\ emptyFlags' = emptyFlags /\ elementsCompletelyDequeued' = elementsCompletelyDequeued
  BY DEF Enqueue_Undo, consVars
<1>2. /\ BlockTypes /\ TailInv(n) /\ n \in Nat /\ HeaderInv(n, org) /\ org \in [Nat -> Int]
      /\ EntriesInv(n, blk, org, lim) /\ BlocksInv(n, blk) /\ RingInv(n, blk)
  BY DEF Layout, Ghosts
<1>3. ~isExplicit /\ tailIndex = Base(n) /\ Spare(n, org) /\ Header.cur = Pos(Newest, n, org)
  BY <1>1, <1>2 DEF TailInv, HeaderInv, EntriesInv
<1>4. /\ Newest \in 1 .. Newest /\ Newest \in Nat \ {0}
      /\ Header = headers[Newest] /\ SizeOf(Header) \in Nat \ {0}
  BY <1>2, NewestIs, HeaderIs
<1>5. PICK e \in 1 .. Len(entries) : e = Id(Newest, n, org) /\ e = Header.slot[Header.cur]
  <2>1. Id(Newest, n, org) \in 1 .. Len(entries)
    BY <1>2, <1>4, n \in Int, EntryIs
  <2> QED
    BY <1>3, <1>4, <2>1 DEF Id
<1>6. entries' = entries
  <2>1. entries \in Seq(EntrySet) /\ entries[e] \in EntrySet
        /\ entries[e] = [base |-> Base(n), block |-> NoBlock]
    BY <1>2, <1>3, <1>5 DEF BlockTypes, Spare
  <2>2. [entries[e] EXCEPT !.block = NoBlock] = entries[e]
    BY <2>1
  <2>3. entries' = [entries EXCEPT ![e] = [entries[e] EXCEPT !.block = NoBlock]]
    BY <1>1, <1>5
  <2> QED
    BY <2>1, <2>2, <2>3
<1>7. PICK x \in Int : /\ x = Pos(Newest, n - 1, org)
                       /\ headers' = [headers EXCEPT ![Len(headers)].cur = x]
  <2>1. n \in Int /\ -1 \in Int /\ n + -1 = n - 1 /\ n - 1 \in Int
    BY <1>2
  <2>2. (Pos(Newest, n, org) + -1) % SizeOf(headers[Newest]) = Pos(Newest, n + -1, org)
    BY <1>2, <1>4, <2>1, PosIs
  <2>3. Pos(Newest, n, org) \in 0 .. SizeOf(headers[Newest]) - 1
        /\ Pos(Newest, n - 1, org) \in 0 .. SizeOf(headers[Newest]) - 1
    BY <1>2, <1>4, <2>1, PosIs
  <2>4. PICK y \in Int : y = Header.cur
    BY <1>3, <1>4, <2>3
  <2>5. y - 1 = y + -1 /\ (y - 1) % SizeOf(Header) = Pos(Newest, n - 1, org)
    BY <1>3, <1>4, <2>1, <2>2, <2>4
  <2>6. headers' = [headers EXCEPT ![Len(headers)].cur = (y - 1) % SizeOf(Header)]
    BY <1>1, <2>4 DEF RewindBlockIndexTail, Header
  <2>7. Pos(Newest, n - 1, org) \in Int
    BY <2>3
  <2> QED
    BY <2>5, <2>6, <2>7
<1>8. /\ \A i \in Nat : (Done(i)' <=> Done(i)) /\ (Taken(i)' <=> Taken(i))
      /\ \A k \in Nat : Full(k)' <=> Full(k)
  BY <1>1, NothingTaken
<1>9. \A k \in Nat : (InUse(n, k)' <=> InUse(n, k)) /\ (Held(n, k)' <=> Held(n, k))
  BY <1>1, <1>2, NoBlockTaken
<1>10. /\ \A b \in Blocks : home'[b] = home[b] \/ (home[b] # "used" /\ home'[b] # "used")
       /\ home' \in [Blocks -> {"pool", "list", "heap", "used"}]
  <2>1. home \in [Blocks -> {"pool", "list", "heap", "used"}]
    BY <1>2 DEF BlockTypes
  <2>2. CASE home' = home
    BY <2>1, <2>2
  <2>3. ASSUME NEW b \in RequisitionBlock, home' = [home EXCEPT ![b] = AddBlockToFreeList(b)]
        PROVE  <1>10!1 /\ <1>10!2
    <3>1. b \in Blocks /\ home[b] # "used"
      BY BlockIsFree
    <3>2. AddBlockToFreeList(b) \in {"list", "heap"}
      BY DEF AddBlockToFreeList
    <3> QED
      BY <2>1, <2>3, <3>1, <3>2
  <2> QED
    BY <1>1, <2>2, <2>3
<1>11. BlocksInv(n, blk)' /\ RingInv(n, blk)'
  <2>1. Built' = Built
    BY <1>1 DEF Built
  <2> QED
    BY <1>1, <1>2, <1>8, <1>9, <1>10, <2>1, HomesMove, RingStays
<1>12. Written(n) = n /\ Written(n)' = n
  BY <1>1 DEF Written
<1>13. /\ OldInv(n, org, lim)' /\ EntriesInv(n, blk, org, lim)'
       /\ headers' \in Seq(HeaderSet) /\ Newest' = Newest /\ Newest' # 0
       /\ \A h \in 1 .. Newest : headers'[h].slot = headers[h].slot
       /\ Header'.cur = x /\ SizeOf(Header)' = SizeOf(Header)
       /\ \A k : Pos(Newest, k, org)' = Pos(Newest, k, org)
  BY <1>1, <1>6, <1>7, <1>12, CurrentMoves
<1>14. BlockTypes'
  BY <1>1, <1>2, <1>6, <1>10, <1>13 DEF BlockTypes
<1>15. TailInv(n)'
  <2>1. Base(n) \in Nat
    BY <1>2, BaseOfNat
  <2> QED
    BY <1>1, <1>3, <2>1, BlockSizeIs DEF TailInv
<1>16. HeaderInv(n, org)'
  <2>1. \A k \in Nat : Held(n, k) => n - k <= SizeOf(Header)
    <3> SUFFICES ASSUME NEW k \in Nat, Held(n, k) PROVE n - k <= SizeOf(Header)
      OBVIOUS
    <3>1. n + 1 - k <= SizeOf(Header)
      BY <1>1, <1>2 DEF HeaderInv
    <3> QED
      BY <1>2, <1>4, <3>1
  <2> QED
    BY <1>1, <1>3, <1>7, <1>9, <1>13, <2>1 DEF HeaderInv
<1>17. \A c \in Consumers : WayInv(c, n, blk, org, lim)'
  <2>1. Written(n)' \in Int /\ Written(n) <= Written(n)'
    BY <1>2, <1>12
  <2>2. \A k \in Nat : k < n => blk[k] = blk[k]
    OBVIOUS
  <2>3. Spare(n, org)'
    <3>1. Pos(Newest, n, org)' = Pos(Newest, n, org) /\ headers'[Newest].slot = headers[Newest].slot
      BY <1>4, <1>13
    <3>2. Id(Newest, n, org)' = Id(Newest, n, org)
      BY <1>13, <3>1 DEF Id
    <3> QED
      BY <1>3, <1>6, <3>2 DEF Spare
  <2> QED
    BY <1>1, <1>2, <1>13, <2>1, <2>2, <2>3, WaysStay
<1> QED
  BY <1>1, <1>11, <1>13, <1>14, <1>15, <1>16, <1>17, ProducerMoves

\* Nothing of the next block has been dequeued.
LEMMA NextIsEmpty ==
    ASSUME ClaimInv, NEW n \in Nat, tailIndex = Base(n)
    PROVE  DoneIn(n) = {} /\ ~Full(n) /\ \A o \in Offsets : ~Taken(Base(n) + o)
<1>1. headIndex \in Nat /\ tailIndex \in Nat /\ headIndex <= tailIndex
  BY DEF ClaimInv, CounterTypes, Counts
<1>2. \A o \in Offsets : ~(Base(n) + o < headIndex)
  BY <1>1, ElementIs
<1>3. \A o \in Offsets : ~Done(Base(n) + o) /\ ~Taken(Base(n) + o)
  BY <1>2 DEF Done, Taken
<1>4. 0 \in Offsets
  BY BlockSizeIs
<1> QED
  BY <1>3, <1>4 DEF DoneIn, Full

\* The blocks in use when one more is.
LEMMA OneMoreUsed ==
    ASSUME ClaimInv, NEW n \in Nat, BlockTypes, tailIndex = Base(n),
           cpc' = cpc, loc' = loc, headIndex' = headIndex, isExplicit' = isExplicit,
           NEW b \in Blocks, isExplicit => ring' = Append(ring, b), NEW p \in Nat, p = n + 1
    PROVE  /\ \A k \in Nat : InUse(p, k)' <=> InUse(n, k) \/ k = n
           /\ \A k \in Nat : Held(p, k)' <=> Held(n, k) \/ k = n
           /\ \A m \in Nat : m < n => (Kept(p, m)' => Kept(n, m))
<1>1. ~Full(n)
  BY NextIsEmpty
<1>2. /\ \A k \in Nat : Full(k)' <=> Full(k)
      /\ \A k, places : LeftAt(k, places)' <=> LeftAt(k, places)
  BY NothingTaken
<1>3. isExplicit => Len(ring) \in Nat /\ Len(ring') = Len(ring) + 1
  BY DEF BlockTypes
<1>4. ASSUME NEW k \in Nat, NEW places PROVE Used(p, k, places)' <=> Used(n, k, places) \/ k = n
  <2>1. k \in 0 .. p - 1 <=> k \in 0 .. n - 1 \/ k = n
    OBVIOUS
  <2>2. isExplicit => (k >= p - Len(ring') <=> k >= n - Len(ring))
    BY <1>3
  <2>3. isExplicit /\ k = n => k >= n - Len(ring)
    BY <1>3
  <2> QED
    BY <1>1, <1>2, <2>1, <2>2, <2>3 DEF Used
<1>5. /\ \A k \in Nat : InUse(p, k)' <=> InUse(n, k) \/ k = n
      /\ \A k \in Nat : Held(p, k)' <=> Held(n, k) \/ k = n
  BY <1>4 DEF InUse, Held
<1>6. ASSUME NEW m \in Nat, m < n, Kept(p, m)' PROVE Kept(n, m)
  <2>1. PICK k \in 0 .. m : Held(p, k)'
    BY <1>6 DEF Kept
  <2>2. k \in Nat /\ k # n
    BY <1>6
  <2> QED
    BY <1>5, <2>1, <2>2 DEF Kept
<1> QED
  BY <1>5, <1>6

\* Block b comes into use as number n.
ComesIntoUse(n, b) ==
    /\ b \in Blocks /\ home[b] # "used" /\ home'[b] = "used"
    /\ \A a \in Blocks : a # b =>
         /\ home'[a] = home[a] /\ elements'[a] = elements[a] /\ emptyFlags'[a] = emptyFlags[a]
         /\ elementsCompletelyDequeued'[a] = elementsCompletelyDequeued[a]
    /\ isExplicit => emptyFlags'[b] = {} /\ ring' = Append(ring, b)
    /\ ~isExplicit => elementsCompletelyDequeued'[b] = 0 /\ ring' = <<b>>
    /\ \A i \in Nat : i < Base(n) => Content(i)' = Content(i)
    /\ \A o \in Offsets : elements'[b][o] = Content(Base(n) + o)'

AddsBlock(n, b, p, blk, blkp) ==
    p = n + 1 /\ blkp[n] = b /\ \A k \in Nat : k # n => blkp[k] = blk[k]

LEMMA BlockAdded ==
    ASSUME ClaimInv, NEW n \in Nat, NEW blk, NEW org, NEW lim, Ghosts(n, blk, org, lim),
           Layout(n, blk, org, lim), tailIndex = Base(n),
           cpc' = cpc, loc' = loc, headIndex' = headIndex, isExplicit' = isExplicit,
           NEW b, ComesIntoUse(n, b), NEW p \in Nat,
           NEW blkp, AddsBlock(n, b, p, blk, blkp)
    PROVE  BlocksInv(p, blkp)' /\ RingInv(p, blkp)' /\ ring' \in Seq(Blocks)
<1> USE DEF ComesIntoUse, AddsBlock
<1>1. /\ BlockTypes /\ n \in Nat /\ BlocksInv(n, blk) /\ RingInv(n, blk) /\ HeaderInv(n, org)
      /\ blk \in [Nat -> Nat]
  BY DEF Layout, Ghosts
<1>2. blkp[n] = b /\ \A k \in Nat : k # n => blkp[k] = blk[k]
  OBVIOUS
<1>0. n \in Nat /\ p = n + 1 /\ p # 0 /\ p - 1 = n
  <2>1. n \in Nat
    BY <1>1
  <2> QED
    BY ONLY <2>1, p = n + 1
<1>3. /\ \A k \in Nat : InUse(p, k)' <=> InUse(n, k) \/ k = n
  BY <1>1, OneMoreUsed
<1>4. DoneIn(n) = {} /\ ~Full(n)
  BY <1>1, NextIsEmpty
<1>5. \A k \in Nat : (Full(k)' <=> Full(k)) /\ DoneIn(k)' = DoneIn(k)
  BY NothingTaken
<1>6. home'[b] = "used" /\ \A a \in Blocks : a # b => home'[a] = home[a]
  OBVIOUS
<1>7. ASSUME NEW k \in Nat, InUse(n, k)
      PROVE  k < n /\ blk[k] # b /\ blkp[k] = blk[k] /\ Holding(k, blk[k])'
  <2>1. k < n /\ k # n
    <3>1. k \in 0 .. n - 1
      BY <1>7 DEF InUse, Used
    <3> QED
      BY ONLY <1>0, <3>1
  <2>2. Holding(k, blk[k])
    BY <1>1, <1>7 DEF BlocksInv
  <2>3. PICK a \in Blocks : a = blk[k] /\ home[a] = "used" /\ Holding(k, a)
    BY <2>2 DEF Holding
  <2>4. a # b
    BY <2>3
  <2>5. \A o \in Offsets : Content(Base(k) + o)' = Content(Base(k) + o)
    <3> SUFFICES ASSUME NEW o \in Offsets PROVE Content(Base(k) + o)' = Content(Base(k) + o)
      OBVIOUS
    <3>1. Base(k) + o \in Nat /\ Base(k) + o < Base(k) + BlockSize
      BY ElementIs
    <3>2. Base(k) + BlockSize <= Base(n)
      BY <1>1, <2>1, BaseOrder
    <3>3. Base(k) \in Nat /\ Base(n) \in Nat /\ BlockSize \in Nat
      BY <1>1, BaseOfNat, BlockSizeIs
    <3>4. Base(k) + o < Base(n)
      BY <3>1, <3>2, <3>3
    <3> QED
      BY <3>1, <3>4
  <2>6. Holding(k, a)'
    BY <1>5, <1>6, <2>3, <2>4, <2>5 DEF Holding
  <2> QED
    BY <1>2, <2>1, <2>3, <2>4, <2>6
<1>8. Holding(n, b)'
  <2>1. Cardinality({}) = 0
    BY FS_EmptySet
  <2> QED
    BY <1>1, <1>4, <1>5, <1>6, <2>1 DEF Holding
<1>9. BlocksInv(p, blkp)'
  <2>1. \A k \in Nat : InUse(p, k)' => Holding(k, blkp[k])'
    BY ONLY <1>2, <1>3, <1>7, <1>8
  <2>2. \A j, k \in Nat : InUse(p, j)' /\ InUse(p, k)' /\ blkp[j] = blkp[k] => j = k
    <3> SUFFICES ASSUME NEW j \in Nat, NEW k \in Nat, InUse(p, j)', InUse(p, k)', blkp[j] = blkp[k]
                 PROVE  j = k
      OBVIOUS
    <3>1. CASE InUse(n, j) /\ InUse(n, k)
      BY <1>1, <1>7, <3>1 DEF BlocksInv
    <3>2. CASE j = n \/ k = n
      BY ONLY <1>2, <1>3, <1>7, <3>2, InUse(p, j)', InUse(p, k)', blkp[j] = blkp[k],
              j \in Nat, k \in Nat
    <3> QED
      BY <1>3, <3>1, <3>2
  <2>3. ASSUME NEW a \in Blocks, home'[a] = "used"
        PROVE  \E k \in Nat : InUse(p, k)' /\ blkp[k] = a
    <3>1. CASE a = b
      BY <1>1, <1>2, <1>3, <3>1
    <3>2. CASE a # b
      <4>1. PICK k \in Nat : InUse(n, k) /\ blk[k] = a
        BY <1>1, <1>6, <2>3, <3>2 DEF BlocksInv
      <4> QED
        BY <1>3, <1>7, <4>1
    <3> QED
      BY <3>1, <3>2
  <2>4. ASSUME NEW a \in Blocks, home'[a] # "used" PROVE Vacant(a)'
    <3>1. a # b /\ home[a] # "used" /\ elements'[a] = elements[a]
      BY <1>6, <2>4
    <3>2. Vacant(a)
      BY <1>1, <3>1 DEF BlocksInv
    <3> QED
      BY <3>1, <3>2 DEF Vacant
  <2> QED
    BY <2>1, <2>2, <2>3, <2>4 DEF BlocksInv
<1>10. ring' \in Seq(Blocks)
  <2>1. ring \in Seq(Blocks) /\ b \in Blocks
    BY <1>1 DEF BlockTypes
  <2>2. CASE isExplicit
    BY <2>1, <2>2
  <2>3. CASE ~isExplicit
    <3>1. ring' = <<b>>
      BY <2>3
    <3> QED
      BY ONLY <2>1, <3>1
  <2> QED
    BY <2>2, <2>3
<1>11. RingInv(p, blkp)'
  <2>1. CASE isExplicit
    <3>1. Len(ring) \in Nat /\ Len(ring) <= n /\ Len(ring') = Len(ring) + 1
      BY <1>1, <2>1 DEF HeaderInv, BlockTypes
    <3>2. ASSUME NEW j \in 1 .. Len(ring') PROVE ring'[j] = blkp[p - Len(ring') + j - 1]
      <4>1. CASE j = Len(ring) + 1
        <5>1. p - Len(ring') + j - 1 = n
          BY <1>1, <3>1, <4>1
        <5>2. ring'[j] = b
          BY <1>1, <2>1, <4>1 DEF BlockTypes
        <5> QED
          BY <1>2, <5>1, <5>2
      <4>2. CASE j # Len(ring) + 1
        <5>1. j \in 1 .. Len(ring)
          BY <3>1, <4>2
        <5>2. PICK k \in Nat : k = n - Len(ring) + j - 1 /\ k # n /\ k = p - Len(ring') + j - 1
          <6>1. n - Len(ring) + j - 1 \in Nat /\ n - Len(ring) + j - 1 # n
            BY ONLY <1>0, <3>1, <5>1
          <6>2. n - Len(ring) + j - 1 = p - Len(ring') + j - 1
            BY ONLY <1>0, <3>1, <5>1
          <6> QED
            BY <6>1, <6>2
        <5>3. ring'[j] = ring[j]
          <6>1. ring \in Seq(Blocks) /\ b \in Blocks /\ ring' = Append(ring, b)
            BY <1>1, <2>1 DEF BlockTypes
          <6> QED
            BY ONLY <5>1, <6>1
        <5>4. ring[j] = blk[k]
          BY <1>1, <2>1, <5>1, <5>2 DEF RingInv
        <5> QED
          BY <1>2, <5>2, <5>3, <5>4
      <4> QED
        BY <4>1, <4>2
    <3>3. ASSUME NEW k \in Nat, k < p - Len(ring') PROVE Full(k)'
      <4>1. k < n - Len(ring)
        BY <1>1, <3>1, <3>3
      <4> QED
        BY <1>1, <1>5, <2>1, <4>1 DEF RingInv
    <3> QED
      BY <2>1, <3>2, <3>3 DEF RingInv
  <2>2. CASE ~isExplicit
    BY <1>0, <1>2, <2>2 DEF RingInv
  <2> QED
    BY <2>1, <2>2
<1> QED
  BY <1>9, <1>10, <1>11

\* The slot for the next block has no entry of a number that is kept.
LEMMA NextEntryApart ==
    ASSUME NEW n, NEW blk, NEW org, NEW lim, Ghosts(n, blk, org, lim),
           Layout(n, blk, org, lim), ~isExplicit, NEW h \in 1 .. Newest, NEW m \in Nat,
           m < Limit(h, n, lim), Kept(n, m), n - m < SizeOf(Header)
    PROVE  Id(h, m, org) # Id(Newest, n, org)
<1>1. Id(h, m, org) = Id(Newest, m, org) /\ m < n
  BY OneEntry
<1>2. Newest \in 1 .. Newest /\ Header = headers[Newest] /\ n \in Int /\ m \in Int
  BY NewestIs DEF Layout, Ghosts
<1>3. n - m < SizeOf(headers[Newest])
  BY <1>2
<1>4. Id(Newest, m, org) # Id(Newest, n, org)
  BY <1>1, <1>2, <1>3, EntriesDiffer
<1> QED
  BY <1>1, <1>4

\* The indexes' slots stay where they are and a block is added.
LEMMA OldStays ==
    ASSUME NEW n \in Nat, NEW p \in Nat, NEW org, NEW lim \in [Nat -> Nat], BlockTypes,
           OldInv(n, org, lim), ~isExplicit, isExplicit' = isExplicit, Newest' = Newest,
           \A h \in 1 .. Newest : headers'[h].slot = headers[h].slot,
           \A h \in 1 .. Newest - 1 : headers'[h].cur = headers[h].cur,
           Written(n) = n, Written(p)' = p, n <= p,
           \A m \in Nat : m < n => (Kept(p, m)' => Kept(n, m))
    PROVE  OldInv(p, org, lim)'
<1>1. \A h \in 1 .. Newest : /\ \A k : Pos(h, k, org)' = Pos(h, k, org)
                             /\ \A k : Id(h, k, org)' = Id(h, k, org)
  BY SlotsStay
<1>2. Newest \in 1 .. Newest
  BY NewestIs
<1>3. ASSUME NEW h \in 1 .. Newest - 1
      PROVE  lim[h] <= p /\ headers'[h].cur = Pos(h, lim[h] - 1, org)'
  <2>1. h \in 1 .. Newest /\ lim[h] \in Nat
    BY IndexesAre
  <2>2. lim[h] <= n /\ headers[h].cur = Pos(h, lim[h] - 1, org)
    BY DEF OldInv
  <2>3. Pos(h, lim[h] - 1, org)' = Pos(h, lim[h] - 1, org)
    BY <1>1, <2>1
  <2> QED
    BY <2>1, <2>2, <2>3
<1>4. ASSUME NEW h \in 1 .. Newest - 1, NEW m \in 0 .. lim[h] - 1, Kept(p, m)'
      PROVE  Id(h, m, org)' = Id(Newest, m, org)'
  <2>1. h \in 1 .. Newest /\ lim[h] \in Nat /\ lim[h] <= n
    BY IndexesAre DEF OldInv
  <2>2. m \in Nat /\ m < n
    BY <2>1
  <2>3. Id(h, m, org) = Id(Newest, m, org)
    BY <1>4, <2>2 DEF OldInv
  <2>4. Id(h, m, org)' = Id(h, m, org) /\ Id(Newest, m, org)' = Id(Newest, m, org)
    BY <1>1, <1>2, <2>1
  <2> QED
    BY <2>3, <2>4
<1> QED
  BY <1>3, <1>4 DEF OldInv

\* The implicit producer's block: its entry, then the element.
LEMMA TakesBlock ==
    ASSUME ClaimInv, NEW n, NEW blk, NEW org, NEW lim, Ghosts(n, blk, org, lim),
           Layout(n, blk, org, lim), Enqueue_Take
    PROVE  \E p, blkp : Ghosts(p, blkp, org, lim) /\ Layout(p, blkp, org, lim)'
<1>1. PICK b \in RequisitionBlock :
         /\ home' = [home EXCEPT ![b] = "used"]
         /\ elementsCompletelyDequeued' = [elementsCompletelyDequeued EXCEPT ![b] = 0]
         /\ elements' = Construct(b)
         /\ entries' = [entries EXCEPT ![Header.slot[Header.cur]].block = b]
         /\ ring' = <<b>>
  BY DEF Enqueue_Take
<1>2. /\ ppc = "block" /\ ppc' = "tail" /\ headers' = headers /\ emptyFlags' = emptyFlags
      /\ isExplicit' = isExplicit /\ tailIndex' = tailIndex
      /\ pr_blockIndexSlotsUsed' = pr_blockIndexSlotsUsed
      /\ pr_blockIndexFront' = pr_blockIndexFront
      /\ cpc' = cpc /\ loc' = loc /\ headIndex' = headIndex
  BY DEF Enqueue_Take, consVars
<1>3. /\ BlockTypes /\ TailInv(n) /\ n \in Nat /\ HeaderInv(n, org) /\ OldInv(n, org, lim)
      /\ EntriesInv(n, blk, org, lim) /\ BlocksInv(n, blk)
  BY DEF Layout, Ghosts
<1>4. blk \in [Nat -> Nat] /\ org \in [Nat -> Int] /\ lim \in [Nat -> Nat]
  BY DEF Ghosts
<1>5. ~isExplicit /\ tailIndex = Base(n) /\ Spare(n, org) /\ Header.cur = Pos(Newest, n, org)
  BY <1>2, <1>3 DEF TailInv, HeaderInv, EntriesInv
<1>6. b \in Blocks /\ home[b] # "used" /\ Vacant(b) /\ b \in Nat
  BY <1>3, BlockIsFree, ProducerAssumption DEF BlocksInv, Blocks
<1>7. PICK p \in Nat : p = n + 1 /\ n < p /\ n <= p /\ p - 1 = n /\ p # 0
  <2>1. n + 1 \in Nat /\ n < n + 1 /\ n <= n + 1 /\ (n + 1) - 1 = n /\ n + 1 # 0
    BY <1>3
  <2> QED
    BY <2>1
<1>8. PICK blkp : blkp = [blk EXCEPT ![n] = b]
  OBVIOUS
<1>9. /\ Base(n) \in Nat /\ tailIndex \in Nat /\ Base(p) = Base(n) + BlockSize
      /\ tailIndex % BlockSize = 0 /\ BlockSize \in Nat /\ BlockSize > 1
  <2>1. Base(n) \in Nat /\ Base(n + 1) = Base(n) + BlockSize /\ BlockSize \in Nat /\ BlockSize > 1
    BY <1>3, BaseIs, BaseOfNat, BlockSizeIs
  <2>2. Base(n) <= tailIndex /\ tailIndex < Base(n) + BlockSize /\ tailIndex \in Nat
    BY <1>5, <2>1
  <2>3. tailIndex % BlockSize = tailIndex - Base(n)
    BY <1>3, <2>2, OffsetIs
  <2> QED
    BY <1>5, <1>7, <2>1, <2>3
<1>10. \A i \in Nat : Taken(i)' <=> Taken(i)
  BY <1>2, NothingTaken
<1>11. Built = Base(n) /\ Built' = Base(n) + 1
  BY <1>2, <1>5 DEF Built
<1>12. \A i \in Nat : i < Base(n) => Content(i)' = Content(i)
  <2>1. \A i \in Nat : i < Base(n) => i < Base(n) + 1
    BY <1>9
  <2> QED
    BY <1>10, <1>11, <2>1 DEF Content
<1>13. /\ elements' \in [Blocks -> [Offsets -> Int]]
       /\ \A a \in Blocks : a # b => elements'[a] = elements[a]
       /\ \A o \in Offsets : elements'[b][o] = IF o = 0 THEN Base(n) ELSE Gone
  <2>1. elements \in [Blocks -> [Offsets -> Int]] /\ elements[b] \in [Offsets -> Int]
    BY <1>3, <1>6 DEF BlockTypes
  <2>2. PICK f : f = [elements[b] EXCEPT ![0] = Base(n)]
    OBVIOUS
  <2>3. f \in [Offsets -> Int] /\ \A o \in Offsets : f[o] = IF o = 0 THEN Base(n) ELSE elements[b][o]
    <3>1. PICK x \in Int : x = Base(n)
      BY <1>9
    <3> QED
      BY ONLY <2>1, <2>2, <3>1
  <2>4. elements' = [elements EXCEPT ![b] = f]
    BY <1>1, <1>5, <1>9, <2>2 DEF Construct
  <2>5. elements' \in [Blocks -> [Offsets -> Int]] /\ elements'[b] = f
        /\ \A a \in Blocks : a # b => elements'[a] = elements[a]
    BY <1>6, <2>1, <2>3, <2>4
  <2> QED
    BY <1>6, <2>3, <2>5 DEF Vacant
<1>14. \A o \in Offsets : elements'[b][o] = Content(Base(n) + o)'
  <2> SUFFICES ASSUME NEW o \in Offsets PROVE elements'[b][o] = Content(Base(n) + o)'
    OBVIOUS
  <2>1. PICK i \in Nat : i = Base(n) + o /\ Base(n) <= i
    BY <1>3, ElementIs
  <2>2. ~Taken(i)'
    BY <1>3, <1>5, <1>10, <2>1, NextIsEmpty
  <2>3. o \in Nat
    BY BlockSizeIs
  <2>4. CASE o = 0
    <3>1. i = Base(n) /\ i < Base(n) + 1
      BY <1>9, <2>1, <2>4
    <3> QED
      BY <1>11, <1>13, <2>1, <2>2, <2>4, <3>1 DEF Content
  <2>5. CASE o # 0
    <3>1. ~(i < Base(n) + 1)
      BY <1>9, <2>1, <2>3, <2>5
    <3> QED
      BY <1>11, <1>13, <2>1, <2>5, <3>1 DEF Content
  <2> QED
    BY <2>4, <2>5
<1>15. /\ elementsCompletelyDequeued' \in [Blocks -> Nat] /\ elementsCompletelyDequeued'[b] = 0
       /\ \A a \in Blocks : a # b =>
            elementsCompletelyDequeued'[a] = elementsCompletelyDequeued[a]
  BY <1>1, <1>3, <1>6 DEF BlockTypes
<1>16. /\ BlocksInv(p, blkp)' /\ RingInv(p, blkp)' /\ ring' \in Seq(Blocks)
       /\ home' \in [Blocks -> {"pool", "list", "heap", "used"}]
       /\ blkp \in [Nat -> Nat] /\ blkp[n] = b /\ \A k \in Nat : k # n => blkp[k] = blk[k]
  <2>1. \A a \in Blocks : a # b =>
            /\ elements'[a] = elements[a] /\ emptyFlags'[a] = emptyFlags[a]
            /\ elementsCompletelyDequeued'[a] = elementsCompletelyDequeued[a]
    BY <1>2, <1>13, <1>15
  <2>2. /\ home'[b] = "used" /\ \A a \in Blocks : a # b => home'[a] = home[a]
        /\ home' \in [Blocks -> {"pool", "list", "heap", "used"}]
    BY <1>1, <1>3, <1>6 DEF BlockTypes
  <2>3. blkp \in [Nat -> Nat] /\ blkp[n] = b /\ \A k \in Nat : k # n => blkp[k] = blk[k]
    BY <1>3, <1>4, <1>6, <1>8
  <2>4. /\ isExplicit => emptyFlags'[b] = {} /\ ring' = Append(ring, b)
        /\ ~isExplicit => elementsCompletelyDequeued'[b] = 0 /\ ring' = <<b>>
    BY <1>1, <1>5, <1>15
  <2>5. /\ cpc' = cpc /\ loc' = loc /\ headIndex' = headIndex /\ isExplicit' = isExplicit
        /\ b \in Blocks /\ home[b] # "used" /\ tailIndex = Base(n) /\ p = n + 1
    BY <1>2, <1>5, <1>6, <1>7
  <2>6. BlocksInv(p, blkp)' /\ RingInv(p, blkp)' /\ ring' \in Seq(Blocks)
    <3>1. ComesIntoUse(n, b)
      BY <1>12, <1>14, <2>1, <2>2, <2>4, <2>5 DEF ComesIntoUse
    <3>2. AddsBlock(n, b, p, blk, blkp)
      BY <2>3, <2>5 DEF AddsBlock
    <3> QED
      BY <1>3, <2>5, <3>1, <3>2, BlockAdded
  <2> QED
    BY <2>2, <2>3, <2>6
<1>17. /\ \A k \in Nat : Held(p, k)' <=> Held(n, k) \/ k = n
       /\ \A m \in Nat : m < n => (Kept(p, m)' => Kept(n, m))
  BY <1>2, <1>3, <1>5, <1>6, <1>7, OneMoreUsed
<1>18. /\ Newest \in 1 .. Newest /\ Newest' = Newest /\ Newest # 0
       /\ Header = headers[Newest] /\ Header' = Header
       /\ SizeOf(Header) \in Nat \ {0} /\ SizeOf(Header)' = SizeOf(Header)
  BY <1>2, <1>3, NewestIs, HeaderIs DEF Newest, Header, SizeOf
<1>19. \A h, k : Pos(h, k, org)' = Pos(h, k, org) /\ Id(h, k, org)' = Id(h, k, org)
  BY <1>2 DEF Pos, Id, SizeOf
<1>20. PICK e \in 1 .. Len(entries) : e = Id(Newest, n, org) /\ e = Header.slot[Header.cur]
  <2>1. Id(Newest, n, org) \in 1 .. Len(entries)
    BY <1>3, <1>18, n \in Int, EntryIs
  <2> QED
    BY <1>5, <1>18, <2>1 DEF Id
<1>21. PICK v \in EntrySet : v = [entries[e] EXCEPT !.block = b] /\ v.base = Base(n) /\ v.block = b
  <2>1. entries[e] = [base |-> Base(n), block |-> NoBlock]
    BY <1>5, <1>20 DEF Spare
  <2>2. [entries[e] EXCEPT !.block = b] = [base |-> Base(n), block |-> b]
    BY <2>1
  <2>3. [base |-> Base(n), block |-> b] \in EntrySet
    BY <1>6, <1>9 DEF EntrySet
  <2> QED
    BY <2>2, <2>3
<1>22. /\ entries' \in Seq(EntrySet) /\ Len(entries') = Len(entries) /\ entries'[e] = v
       /\ \A g \in 1 .. Len(entries) : g # e => entries'[g] = entries[g]
  <2>1. entries' = [entries EXCEPT ![e] = v]
    BY <1>1, <1>20, <1>21
  <2> QED
    BY <1>3, <2>1, EntryChanges DEF BlockTypes
<1>23. BlockTypes'
  BY <1>2, <1>3, <1>13, <1>15, <1>16, <1>18, <1>22 DEF BlockTypes
<1>24. TailInv(p)'
  BY <1>2, <1>5, <1>9 DEF TailInv
<1>25. Written(n) = n /\ Written(p)' = p
  BY <1>2 DEF Written
<1>26. OldInv(p, org, lim)'
  BY <1>2, <1>3, <1>4, <1>5, <1>7, <1>17, <1>18, <1>25, OldStays
<1>27. HeaderInv(p, org)'
  <2>1. \A k \in Nat : Held(p, k)' => p - k <= SizeOf(Header)
    <3> SUFFICES ASSUME NEW k \in Nat, Held(p, k)' PROVE p - k <= SizeOf(Header)
      OBVIOUS
    <3>1. Held(n, k) => n + 1 - k <= SizeOf(Header)
      BY <1>2, <1>3 DEF HeaderInv
    <3>2. Held(n, k) \/ k = n
      BY <1>17
    <3> QED
      BY <1>3, <1>7, <1>18, <3>1, <3>2
  <2> QED
    BY <1>2, <1>5, <1>7, <1>18, <1>19, <2>1 DEF HeaderInv
<1>28. EntriesInv(p, blkp, org, lim)'
  <2>1. \A g \in 1 .. Newest : GoodHeader(headers[g])'
    BY <1>2, <1>3, <1>22 DEF EntriesInv, GoodHeader
  <2>2. ASSUME NEW g \in 1 .. Newest, NEW m \in Nat, m < (IF g = Newest THEN p ELSE lim[g])
        PROVE  /\ Kept(p, m)' => entries'[Id(g, m, org)].base = Base(m)
               /\ Held(p, m)' => entries'[Id(g, m, org)].block = blkp[m]
    <3>1. CASE g = Newest /\ m = n
      BY <1>16, <1>20, <1>21, <1>22, <3>1
    <3>2. CASE ~(g = Newest /\ m = n)
      <4>1. m < n /\ m < Limit(g, n, lim) /\ m \in 0 .. Limit(g, n, lim) - 1
        <5>1. g # Newest => lim[g] \in Nat /\ lim[g] <= n
          BY <1>3, <1>4, <1>25, IndexesAre DEF OldInv
        <5>2. Limit(g, n, lim) = IF g = Newest THEN n ELSE lim[g]
          BY <1>25 DEF Limit
        <5> QED
          BY <1>3, <1>7, <2>2, <3>2, <5>1, <5>2
      <4>2. PICK x \in 1 .. Len(entries) : x = Id(g, m, org)
        <5>1. Id(g, m, org) \in 1 .. Len(entries)
          BY m \in Int, EntryIs
        <5> QED
          BY <5>1
      <4>3. Kept(n, m) => x # e
        <5>1. ASSUME Kept(n, m) PROVE x # e
          <6>1. n - m < SizeOf(Header)
            BY <1>2, <5>1, KeptNear
          <6> QED
            BY <1>5, <1>20, <4>1, <4>2, <5>1, <6>1, NextEntryApart
        <5> QED
          BY <5>1
      <4>4. /\ Kept(n, m) => entries[x].base = Base(m)
            /\ Held(n, m) => entries[x].block = blk[m]
        BY <1>3, <4>1, <4>2 DEF EntriesInv
      <4>5. (Held(p, m)' => Held(n, m)) /\ (Kept(p, m)' => Kept(n, m)) /\ blkp[m] = blk[m]
            /\ (Held(n, m) => Kept(n, m))
        <5>1. m # n /\ m \in 0 .. m
          BY <1>3, <4>1
        <5> QED
          BY <1>16, <1>17, <4>1, <5>1 DEF Kept
      <4> QED
        BY <1>22, <4>2, <4>3, <4>4, <4>5
    <3> QED
      BY <3>1, <3>2
  <2>3. \A g \in 1 .. Len(entries') : entries'[g].base = NoBase => entries'[g].block = NoBlock
    <3>1. v.base # NoBase
      BY <1>9, <1>21 DEF NoBase
    <3> QED
      BY <1>3, <1>22, <3>1 DEF EntriesInv
  <2>4. ppc' # "block"
    BY <1>2
  <2>5. \A g \in 1 .. Newest : \A m \in 0 .. Limit(g, p, lim)' - 1 :
            /\ Kept(p, m)' => entries'[Id(g, m, org)'].base = Base(m)
            /\ Held(p, m)' => entries'[Id(g, m, org)'].block = blkp[m]
    <3> SUFFICES ASSUME NEW g \in 1 .. Newest, NEW m \in 0 .. Limit(g, p, lim)' - 1
                 PROVE  /\ Kept(p, m)' => entries'[Id(g, m, org)'].base = Base(m)
                        /\ Held(p, m)' => entries'[Id(g, m, org)'].block = blkp[m]
      OBVIOUS
    <3>1. Limit(g, p, lim)' = IF g = Newest THEN p ELSE lim[g]
      BY <1>18, <1>25 DEF Limit
    <3>2. lim[g] \in Nat
      BY <1>3, <1>4, IndexesAre
    <3>3. PICK s \in Nat : s = Limit(g, p, lim)' /\ s = IF g = Newest THEN p ELSE lim[g]
      BY <3>1, <3>2
    <3>4. m \in Nat /\ m < s
      BY <3>3
    <3> QED
      BY <1>19, <2>2, <3>3, <3>4
  <2> QED
    BY <1>18, <2>1, <2>3, <2>4, <2>5 DEF EntriesInv
<1>29. \A c \in Consumers : WayInv(c, p, blkp, org, lim)'
  <2>1. Written(p)' \in Int /\ Written(n) <= Written(p)' /\ n < Written(p)'
    BY <1>7, <1>25
  <2>2. \A k \in Nat : k < n => blkp[k] = blk[k]
    BY <1>3, <1>16
  <2> QED
    BY <1>2, <1>3, <1>18, <2>1, <2>2, WaysStay
<1>30. Layout(p, blkp, org, lim)'
  BY <1>2, <1>16, <1>23, <1>24, <1>26, <1>27, <1>28, <1>29, ProducerMoves
<1> QED
  BY <1>4, <1>16, <1>30 DEF Ghosts

-----------------------------------------------------------------------------
(* A larger index.                                                          *)

LEMMA IndexGrows ==
    ASSUME BlockTypes, NEW x \in HeaderSet, headers' = Append(headers, x),
           NEW org, NEW orgp, \A h \in 1 .. Newest : orgp[h] = org[h]
    PROVE  /\ headers' \in Seq(HeaderSet) /\ Newest \in Nat /\ Newest' = Newest + 1 /\ Newest' # 0
           /\ Header' = x /\ headers'[Newest + 1] = x
           /\ \A h \in 1 .. Newest + 1 : h \in 1 .. Newest \/ h = Newest + 1
           /\ \A h \in 1 .. Newest : h # Newest + 1 /\ h \in 1 .. Newest + 1
           /\ \A h \in 1 .. Newest : headers'[h] = headers[h]
           /\ \A h \in 1 .. Newest : /\ SizeOf(headers[h])' = SizeOf(headers[h])
                                     /\ \A k : Pos(h, k, orgp)' = Pos(h, k, org)
                                     /\ \A k : Id(h, k, orgp)' = Id(h, k, org)
<1>1. headers \in Seq(HeaderSet) /\ Newest \in Nat /\ Newest = Len(headers)
  BY DEF BlockTypes, Newest
<1>2. /\ headers' \in Seq(HeaderSet) /\ Len(headers') = Len(headers) + 1
      /\ headers'[Len(headers) + 1] = x
      /\ \A h \in 1 .. Len(headers) : headers'[h] = headers[h]
  BY ONLY <1>1, x \in HeaderSet, headers' = Append(headers, x)
<1>3. Newest' = Newest + 1 /\ Header' = x /\ Newest' # 0
  BY <1>1, <1>2 DEF Newest, Header
<1>4. /\ \A h \in 1 .. Newest + 1 : h \in 1 .. Newest \/ h = Newest + 1
      /\ \A h \in 1 .. Newest : h # Newest + 1 /\ h \in 1 .. Newest + 1
  BY ONLY <1>1
<1>5. \A h \in 1 .. Newest : /\ SizeOf(headers[h])' = SizeOf(headers[h])
                             /\ \A k : Pos(h, k, orgp)' = Pos(h, k, org)
                             /\ \A k : Id(h, k, orgp)' = Id(h, k, org)
  <2> SUFFICES ASSUME NEW h \in 1 .. Newest
               PROVE  /\ SizeOf(headers[h])' = SizeOf(headers[h])
                      /\ \A k : Pos(h, k, orgp)' = Pos(h, k, org)
                      /\ \A k : Id(h, k, orgp)' = Id(h, k, org)
    OBVIOUS
  <2>1. headers'[h] = headers[h] /\ orgp[h] = org[h]
    BY <1>1, <1>2
  <2>2. SizeOf(headers[h])' = SizeOf(headers[h])
    BY <2>1 DEF SizeOf
  <2>3. \A k : Pos(h, k, orgp)' = Pos(h, k, org)
    BY <2>1, <2>2 DEF Pos
  <2> QED
    BY <2>1, <2>2, <2>3 DEF Id
<1> QED
  BY <1>1, <1>2, <1>3, <1>4, <1>5

\* Index x is added; the one before it has the numbers below n.
AddsIndex(n, x, org, lim, orgp, limp) ==
    /\ x \in HeaderSet /\ headers' = Append(headers, x)
    /\ \A h \in 1 .. Newest : orgp[h] = org[h]
    /\ limp \in [Nat -> Nat] /\ limp[Newest] = n /\ \A h \in 1 .. Newest - 1 : limp[h] = lim[h]

\* The consumers that read the smaller index find what they look for in it.
LEMMA WaysGrow ==
    ASSUME ClaimInv, NEW n, NEW blk, NEW org, NEW lim, Ghosts(n, blk, org, lim),
           Layout(n, blk, org, lim), NEW p \in Nat, NEW blkp,
           \A k \in Nat : k < n => blkp[k] = blk[k],
           cpc' = cpc, loc' = loc, isExplicit' = isExplicit,
           NEW x, NEW orgp, NEW limp, AddsIndex(n, x, org, lim, orgp, limp),
           Written(n) = n, tailIndex = Base(n), ~isExplicit => ~Spare(n, org)
    PROVE  \A c \in Consumers : WayInv(c, p, blkp, orgp, limp)'
<1> USE DEF AddsIndex
<1> SUFFICES ASSUME NEW c \in Consumers PROVE WayInv(c, p, blkp, orgp, limp)'
  OBVIOUS
<1>1. WayInv(c, n, blk, org, lim) /\ MineInv(c) /\ BlockTypes /\ n \in Nat /\ lim \in [Nat -> Nat]
  BY DEF Layout, Ghosts
<1>2. /\ headIndex \in Nat /\ tailIndex \in Nat /\ headIndex <= tailIndex
  BY DEF ClaimInv, CounterTypes, Counts
<1>3. cpc'[c] = cpc[c] /\ loc'[c] = loc[c] /\ \A k : In(c, k)' <=> In(c, k)
  BY DEF In
<1>4. CASE cpc[c] \notin Working \ {"index"}
  BY <1>3, <1>4 DEF WayInv, Working
<1>5. CASE cpc[c] \in Working \ {"index"}
  <2>1. PICK h \in 1 .. Newest : loc[c].hdr = h
    BY <1>1, <1>5 DEF WayInv
  <2>2. /\ Newest \in Nat /\ Newest' = Newest + 1
        /\ h # Newest + 1 /\ h \in 1 .. Newest + 1
        /\ headers'[h] = headers[h] /\ \A k : Pos(h, k, orgp)' = Pos(h, k, org)
    BY <1>1, IndexGrows
  <2>3. h \in Nat /\ limp[h] \in Nat /\ Limit(h, n, lim) = limp[h] /\ Limit(h, p, limp)' = limp[h]
    BY <1>1, <2>2, IndexesAre DEF Limit
  <2>4. loc[c].last <= Base(limp[h])
    <3>1. CASE h = Newest
      <4>1. loc[c].last \in Nat /\ loc[c].last <= headIndex
        BY <1>1, <1>5 DEF MineInv
      <4>2. Base(limp[h]) = tailIndex
        BY <3>1
      <4> QED
        BY ONLY <1>2, <4>1, <4>2
    <3>2. CASE h # Newest
      <4>1. h \in 1 .. Newest - 1 /\ h < Newest
        <5>1. PICK s \in Nat : s = Newest
          BY <2>2
        <5>2. h \in 1 .. s /\ h # s
          BY <3>2, <5>1
        <5>3. h \in 1 .. s - 1 /\ h < s
          BY ONLY <5>2, s \in Nat
        <5> QED
          BY <5>1, <5>3
      <4> QED
        BY <1>1, <1>5, <2>1, <4>1 DEF WayInv
    <3> QED
      BY <3>1, <3>2
  <2>5. cpc[c] = "slot" => CurInv(c, p, orgp, limp)'
    <3> SUFFICES ASSUME cpc[c] = "slot" PROVE CurInv(c, p, orgp, limp)'
      OBVIOUS
    <3>1. CurInv(c, n, org, lim)
      BY <1>1 DEF WayInv
    <3>2. PICK m \in Nat : /\ loc[c].cur = Pos(loc[c].hdr, m, org)
                           /\ loc[c].idx < Base(m) + BlockSize
                           /\ m < Limit(loc[c].hdr, n, lim)
      BY <3>1 DEF CurInv
    <3>3. loc'[c].cur = Pos(loc[c].hdr, m, orgp)' /\ m < Limit(loc[c].hdr, p, limp)'
      BY <1>3, <2>1, <2>2, <2>3, <3>2
    <3> QED
      BY <1>3, <3>2, <3>3 DEF CurInv
  <2>6. \A k \in Nat : In(c, k) => blkp[k] = blk[k]
    <3>1. cpc[c] \in Working
      BY <1>5
    <3> QED
      BY <3>1, PlaceBelow
  <2>7. loc'[c].hdr \in 1 .. Newest' /\ (loc'[c].hdr < Newest' => loc'[c].last <= Base(limp[loc'[c].hdr]))
    BY <1>3, <2>1, <2>2, <2>4
  <2>8. cpc[c] \in {"read", "empty", "null", "free"} =>
          \A k \in Nat : In(c, k) => loc[c].slot = Pos(loc[c].hdr, k, orgp)'
    <3>1. cpc[c] \in {"read", "empty", "null", "free"} =>
            \A k \in Nat : In(c, k) => loc[c].slot = Pos(h, k, org)
      BY <1>1, <2>1 DEF WayInv
    <3> QED
      BY <2>1, <2>2, <3>1
  <2>9. cpc[c] \in {"empty", "null", "free"} => \A k \in Nat : In(c, k) => loc[c].blk = blkp[k]
    BY <1>1, <2>6 DEF WayInv
  <2> QED
    BY <1>3, <2>5, <2>7, <2>8, <2>9 DEF WayInv
<1> QED
  BY <1>4, <1>5

\* Where the tail is when no element is being added.
LEMMA AtBoundaryIs ==
    ASSUME ClaimInv, NEW n \in Nat, BlockTypes, TailInv(n), ppc = "idle", AtBoundary
    PROVE  tailIndex = Base(n) /\ Base(n) \in Nat
<1>1. tailIndex \in Nat /\ tailIndex <= Base(n) /\ Base(n) \in Nat /\ BlockSize \in Nat
      /\ BlockSize > 1 /\ Base(n) - BlockSize < tailIndex
  BY TailIs, BlockSizeIs DEF TailInv
<1>2. ASSUME tailIndex # Base(n) PROVE FALSE
  <2>1. n # 0
    <3>1. n = 0 => Base(n) = 0
      BY BlockSizeIs DEF Base
    <3> QED
      BY <1>1, <1>2, <3>1
  <2>2. n - 1 \in Nat /\ Base(n - 1) = Base(n) - BlockSize
    <3>1. n - 1 \in Nat /\ n \in Int
      BY <2>1
    <3> QED
      BY <3>1, BaseIs
  <2>3. Base(n - 1) <= tailIndex /\ tailIndex < Base(n - 1) + BlockSize
    BY <1>1, <1>2, <2>2
  <2>4. tailIndex % BlockSize = tailIndex - Base(n - 1)
    BY <1>1, <2>2, <2>3, OffsetIs
  <2> QED
    BY <1>1, <2>2, <2>4 DEF AtBoundary
<1> QED
  BY <1>1, <1>2

-----------------------------------------------------------------------------
(* The implicit producer's next slot.                                       *)

\* The entry the slot leads to, and what a free slot says of it.
LEMMA NextSlot ==
    ASSUME NEW n, NEW blk, NEW org, NEW lim, Ghosts(n, blk, org, lim),
           Layout(n, blk, org, lim), ~isExplicit, ppc = "idle"
    PROVE  /\ Header.cur \in Int /\ (Header.cur + 1) % SizeOf(Header) = Pos(Newest, n, org)
           /\ Pos(Newest, n, org) \in Int
           /\ Id(Newest, n, org) \in 1 .. Len(entries)
           /\ Header.slot[(Header.cur + 1) % SizeOf(Header)] = Id(Newest, n, org)
           /\ FreeSlot(Header) <=> entries[Id(Newest, n, org)].block = NoBlock
           /\ FreeSlot(Header) => \A k \in Nat : Held(n, k) => n + 1 - k <= SizeOf(Header)
<1>1. /\ BlockTypes /\ n \in Nat /\ n \in Int /\ HeaderInv(n, org) /\ EntriesInv(n, blk, org, lim)
      /\ org \in [Nat -> Int] /\ lim \in [Nat -> Nat] /\ BlocksInv(n, blk)
  BY DEF Layout, Ghosts
<1>2. /\ Newest \in 1 .. Newest /\ Header = headers[Newest] /\ SizeOf(Header) \in Nat \ {0}
  BY <1>1, NewestIs, HeaderIs
<1>3. /\ Header.cur = Pos(Newest, n - 1, org) /\ Header.cur \in Int
      /\ (Header.cur + 1) % SizeOf(Header) = Pos(Newest, n, org) /\ Pos(Newest, n, org) \in Int
  <2>1. Header.cur = Pos(Newest, n - 1, org)
    BY <1>1 DEF HeaderInv
  <2>2. n - 1 \in Int /\ (n - 1) + 1 = n /\ 1 \in Int
    BY <1>1
  <2>3. /\ Pos(Newest, n - 1, org) \in 0 .. SizeOf(headers[Newest]) - 1
        /\ (Pos(Newest, n - 1, org) + 1) % SizeOf(headers[Newest]) = Pos(Newest, (n - 1) + 1, org)
        /\ Pos(Newest, n, org) \in 0 .. SizeOf(headers[Newest]) - 1
    <3>1. PICK m \in Int : m = n - 1
      BY <2>2
    <3>2. /\ Pos(Newest, m, org) \in 0 .. SizeOf(headers[Newest]) - 1
          /\ \A b \in Int : (Pos(Newest, m, org) + b) % SizeOf(headers[Newest])
                              = Pos(Newest, m + b, org)
      BY <1>1, <1>2, PosIs
    <3>3. Pos(Newest, n, org) \in 0 .. SizeOf(headers[Newest]) - 1
      BY <1>1, <1>2, PosIs
    <3> QED
      BY <3>1, <3>2, <3>3
  <2>4. Pos(Newest, n - 1, org) \in Int /\ Pos(Newest, n, org) \in Int
    BY <2>3
  <2> QED
    BY <1>2, <2>1, <2>2, <2>3, <2>4
<1>4. PICK e \in 1 .. Len(entries) : e = Id(Newest, n, org)
  <2>1. Id(Newest, n, org) \in 1 .. Len(entries)
    BY <1>1, <1>2, EntryIs
  <2> QED
    BY <2>1
<1>5. Header.slot[(Header.cur + 1) % SizeOf(Header)] = e
  BY <1>2, <1>3, <1>4 DEF Id
<1>6. FreeSlot(Header) <=> entries[e].block = NoBlock
  <2>1. entries[e].base = NoBase => entries[e].block = NoBlock
    BY <1>1 DEF EntriesInv
  <2> QED
    BY <1>5, <2>1 DEF FreeSlot
<1>0. n \in Nat
  BY <1>1
<1>7. ASSUME FreeSlot(Header), NEW k \in Nat, Held(n, k) PROVE n + 1 - k <= SizeOf(Header)
  <2>0. k \in Nat
    OBVIOUS
  <2>1. n - k <= SizeOf(Header) /\ k < n
    <3>1. k \in 0 .. n - 1
      BY <1>7 DEF Held, Used
    <3>2. n - k <= SizeOf(Header)
      BY <1>1, <1>7 DEF HeaderInv
    <3> QED
      BY <1>1, <3>1, <3>2
  <2>2. ASSUME n - k = SizeOf(Header) PROVE FALSE
    <3>1. Id(Newest, k, org) = e
      <4>1. (k - org[Newest]) + SizeOf(Header) = n - org[Newest]
            /\ org[Newest] \in Int
        <5>1. Newest \in Nat
          BY <1>1, NewestIs
        <5>2. org[Newest] \in Int
          BY <1>1, <5>1
        <5> QED
          BY ONLY <1>0, <1>2, <2>0, <2>2, <5>2
      <4>2. PICK a \in Int : a = k - org[Newest] /\ a + SizeOf(Header) = n - org[Newest]
        BY <4>1
      <4>3. PICK s \in Nat \ {0} : s = SizeOf(Header)
        BY <1>2
      <4>4. (a + s) % s = a % s
        <5>1. PICK q \in Int : a = s * q + (a % s)
          BY ModIs
        <5>2. PICK r \in Nat : r = a % s /\ r < s
          <6>1. a % s \in 0 .. s - 1
            BY ModIs
          <6>2. a % s \in Nat /\ a % s < s
            BY ONLY <6>1, s \in Nat
          <6> QED
            BY <6>2
        <5>3. a + s = s * (q + 1) + r
          <6>1. s * (q + 1) = s * q + s /\ s * q \in Int
            BY <5>1
          <6> QED
            BY <5>1, <5>2, <6>1
        <5>4. (s * (q + 1) + r) % s = r
          BY <5>2, q + 1 \in Int, ModOf
        <5> QED
          BY <5>2, <5>3, <5>4
      <4>5. Pos(Newest, k, org) = Pos(Newest, n, org)
        BY <1>2, <4>2, <4>3, <4>4 DEF Pos
      <4> QED
        BY <1>4, <4>5 DEF Id
    <3>2. Limit(Newest, n, lim) = n
      BY DEF Limit, Written
    <3>3. entries[e].block = blk[k]
      <4>1. k \in 0 .. Limit(Newest, n, lim) - 1
        BY <1>1, <2>1, <3>2
      <4> QED
        BY <1>1, <1>2, <1>7, <3>1, <4>1 DEF EntriesInv
    <3>4. InUse(n, k)
      BY <1>7 DEF InUse, Held, Used, LeftAt, Leaving
    <3>5. blk[k] \in Blocks
      BY <1>1, <3>4 DEF BlocksInv, Holding
    <3> QED
      BY <1>6, <1>7, <3>3, <3>5, ProducerAssumption DEF Blocks, NoBlock
  <2> QED
    BY ONLY <1>0, <1>2, <2>0, <2>1, <2>2
<1> QED
  BY <1>3, <1>4, <1>5, <1>6, <1>7

LEMMA ReusesSlot ==
    ASSUME ClaimInv, NEW n, NEW blk, NEW org, NEW lim, Ghosts(n, blk, org, lim),
           Layout(n, blk, org, lim), Enqueue_Insert, FreeSlot(Header)
    PROVE  Layout(n, blk, org, lim)'
<1>1. /\ ppc = "idle" /\ AtBoundary /\ ~isExplicit /\ ppc' = "block"
      /\ entries' = KeyOf(Header, entries)
      /\ headers' = [headers EXCEPT ![Len(headers)] = InsertInto(Header)]
      /\ isExplicit' = isExplicit /\ ring' = ring /\ tailIndex' = tailIndex
      /\ pr_blockIndexSlotsUsed' = pr_blockIndexSlotsUsed
      /\ pr_blockIndexFront' = pr_blockIndexFront
      /\ cpc' = cpc /\ loc' = loc /\ headIndex' = headIndex
      /\ home' = home /\ elements' = elements
      /\ emptyFlags' = emptyFlags /\ elementsCompletelyDequeued' = elementsCompletelyDequeued
  BY DEF Enqueue_Insert, CanEnqueue, consVars, blockVars
<1>2. /\ BlockTypes /\ TailInv(n) /\ n \in Nat /\ HeaderInv(n, org) /\ OldInv(n, org, lim)
      /\ EntriesInv(n, blk, org, lim) /\ BlocksInv(n, blk) /\ RingInv(n, blk)
  BY DEF Layout, Ghosts
<1>3. org \in [Nat -> Int] /\ lim \in [Nat -> Nat]
  BY DEF Ghosts
<1>4. tailIndex = Base(n) /\ Base(n) \in Nat
  BY <1>1, <1>2, AtBoundaryIs
<1>5. PICK x \in Int : x = Pos(Newest, n, org) /\ x = (Header.cur + 1) % SizeOf(Header)
  BY <1>1, NextSlot
<1>6. PICK e \in 1 .. Len(entries) :
         /\ e = Id(Newest, n, org) /\ e = Header.slot[(Header.cur + 1) % SizeOf(Header)]
         /\ entries[e].block = NoBlock
  BY <1>1, NextSlot
<1>7. \A k \in Nat : Held(n, k) => n + 1 - k <= SizeOf(Header)
  BY <1>1, NextSlot
<1>8. headers' = [headers EXCEPT ![Len(headers)].cur = x]
  BY <1>1, <1>5 DEF InsertInto, Header
<1>9. /\ headers' \in Seq(HeaderSet) /\ Newest' = Newest
      /\ \A h \in 1 .. Newest : headers'[h].slot = headers[h].slot
      /\ Header'.cur = x /\ \A h \in 1 .. Newest - 1 : headers'[h] = headers[h]
  BY <1>2, <1>8, CurMoves
<1>10. /\ Newest \in 1 .. Newest /\ Newest # 0
       /\ Header = headers[Newest] /\ Header' = headers'[Newest]
       /\ SizeOf(Header) \in Nat \ {0}
  BY <1>2, <1>9, NewestIs, HeaderIs DEF Newest, Header
<1>11. \A h \in 1 .. Newest : /\ SizeOf(headers[h])' = SizeOf(headers[h])
                              /\ \A k : Pos(h, k, org)' = Pos(h, k, org)
                              /\ \A k : Id(h, k, org)' = Id(h, k, org)
  BY <1>2, <1>9, SlotsStay
<1>12. PICK v \in EntrySet : v = [entries[e] EXCEPT !.base = tailIndex]
                             /\ v.base = Base(n) /\ v = [base |-> Base(n), block |-> NoBlock]
  <2>1. PICK y \in EntrySet : y = entries[e] /\ y.block = NoBlock
    <3>1. entries[e] \in EntrySet
      BY <1>2 DEF BlockTypes
    <3> QED
      BY <1>6, <3>1
  <2>2. [entries[e] EXCEPT !.base = tailIndex] = [base |-> Base(n), block |-> NoBlock]
    <3>1. [y EXCEPT !.base = tailIndex] = [base |-> tailIndex, block |-> NoBlock]
      BY ONLY <2>1 DEF EntrySet
    <3> QED
      BY ONLY <1>4, <2>1, <3>1
  <2>3. [base |-> Base(n), block |-> NoBlock] \in EntrySet
    BY <1>4 DEF EntrySet, NoBlock
  <2> QED
    BY <2>2, <2>3
<1>13. /\ entries' \in Seq(EntrySet) /\ Len(entries') = Len(entries) /\ entries'[e] = v
       /\ \A g \in 1 .. Len(entries) : g # e => entries'[g] = entries[g]
  <2>1. entries' = [entries EXCEPT ![e] = v]
    BY <1>1, <1>6, <1>12 DEF KeyOf
  <2> QED
    BY <1>2, <2>1, EntryChanges DEF BlockTypes
<1>14. /\ \A i \in Nat : (Done(i)' <=> Done(i)) /\ (Taken(i)' <=> Taken(i))
       /\ \A k \in Nat : Full(k)' <=> Full(k)
  BY <1>1, NothingTaken
<1>15. \A k \in Nat : /\ InUse(n, k)' <=> InUse(n, k)
                      /\ Held(n, k)' <=> Held(n, k)
                      /\ Kept(n, k)' <=> Kept(n, k)
  BY <1>1, <1>2, NoBlockTaken
<1>16. BlocksInv(n, blk)' /\ RingInv(n, blk)'
  <2>1. Built' = Built
    BY <1>1 DEF Built
  <2> QED
    BY <1>1, <1>2, <1>14, <1>15, <2>1, BlocksStay, RingStays
<1>17. BlockTypes'
  BY <1>1, <1>2, <1>9, <1>10, <1>13 DEF BlockTypes
<1>18. TailInv(n)'
  BY <1>1, <1>4 DEF TailInv
<1>19. Written(n) = n /\ Written(n)' = n
  BY <1>1 DEF Written
<1>20. OldInv(n, org, lim)'
  <2>1. n <= n /\ \A h \in 1 .. Newest - 1 : headers'[h].cur = headers[h].cur
    BY <1>2, <1>9
  <2> QED
    BY <1>1, <1>2, <1>3, <1>9, <1>15, <1>19, <2>1, OldStays
<1>21. SizeOf(Header)' = SizeOf(Header)
  BY <1>10, <1>11
<1>22. HeaderInv(n, org)'
  <2>1. Pos(Newest, n, org)' = Pos(Newest, n, org)
    BY <1>9, <1>10, <1>11
  <2>2. \A k \in Nat : Held(n, k)' => n + 1 - k <= SizeOf(Header)'
    BY <1>7, <1>15, <1>21
  <2>3. Header'.cur = Pos(Newest, n, org)'
    BY <1>5, <1>9, <2>1
  <2>4. ppc' = "block" /\ ~isExplicit'
    BY <1>1
  <2>5. \A k \in Nat : Held(n, k)' => (IF ppc' = "block" THEN n + 1 ELSE n) - k <= SizeOf(Header)'
    <3> SUFFICES ASSUME NEW k \in Nat, Held(n, k)'
                 PROVE  (IF ppc' = "block" THEN n + 1 ELSE n) - k <= SizeOf(Header)'
      OBVIOUS
    <3>1. n + 1 - k <= SizeOf(Header)'
      BY <2>2
    <3>2. n \in Nat /\ ppc' = "block"
      BY <1>1, <1>2
    <3> QED
      BY ONLY <3>1, <3>2, k \in Nat
  <2>6. ~(ppc' \in {"idle", "tail"}) /\ ~(ppc' \in {"entry", "front"})
    BY <2>4
  <2> QED
    BY <2>3, <2>4, <2>5, <2>6 DEF HeaderInv
<1>23. Spare(n, org)'
  <2>1. Id(Newest, n, org)' = e
    BY <1>6, <1>9, <1>10, <1>11
  <2> QED
    BY <1>12, <1>13, <2>1 DEF Spare
<1>24. EntriesInv(n, blk, org, lim)'
  <2>1. \A g \in 1 .. Newest : GoodHeader(headers[g])'
    <3> SUFFICES ASSUME NEW h \in 1 .. Newest PROVE GoodHeader(headers[h])'
      OBVIOUS
    <3>1. GoodHeader(headers[h]) /\ headers'[h].slot = headers[h].slot
      BY <1>2, <1>9 DEF EntriesInv
    <3> QED
      BY <1>13, <3>1 DEF GoodHeader
  <2>2. ASSUME NEW g \in 1 .. Newest, NEW m \in 0 .. Limit(g, n, lim) - 1
        PROVE  /\ Kept(n, m)' => entries'[Id(g, m, org)'].base = Base(m)
               /\ Held(n, m)' => entries'[Id(g, m, org)'].block = blk[m]
    <3>1. m \in Nat /\ m < Limit(g, n, lim)
      <4>1. Limit(g, n, lim) \in Int
        <5>1. Limit(g, n, lim) = (IF g = Newest THEN Written(n) ELSE lim[g]) /\ lim[g] \in Nat
          BY <1>2, <1>3, LimitIs
        <5> QED
          BY <1>2, <1>19, <5>1
      <4> QED
        BY <4>1
    <3>2. PICK y \in 1 .. Len(entries) : y = Id(g, m, org)
      <4>1. Id(g, m, org) \in 1 .. Len(entries)
        BY <3>1, m \in Int, EntryIs
      <4> QED
        BY <4>1
    <3>3. ASSUME Kept(n, m) PROVE y # e
      <4>1. PICK k \in 0 .. m : Held(n, k)
        BY <3>3 DEF Kept
      <4>2. n + 1 - k <= SizeOf(Header) /\ k \in Nat /\ k <= m
        BY <1>7, <3>1, <4>1
      <4>3. n - m < SizeOf(Header)
        BY <1>2, <1>10, <3>1, <4>2
      <4> QED
        BY <1>1, <1>6, <3>1, <3>2, <3>3, <4>3, NextEntryApart
    <3>4. /\ Kept(n, m) => entries[y].base = Base(m)
          /\ Held(n, m) => entries[y].block = blk[m] /\ Kept(n, m)
      <4>1. m \in 0 .. m
        BY <3>1
      <4> QED
        BY <1>2, <3>2, <4>1 DEF EntriesInv, Kept
    <3>5. Id(g, m, org)' = y /\ (Held(n, m)' <=> Held(n, m)) /\ (Kept(n, m)' <=> Kept(n, m))
      BY <1>11, <1>15, <3>1, <3>2
    <3> QED
      BY <1>13, <3>3, <3>4, <3>5
  <2>3. \A g \in 1 .. Len(entries') : entries'[g].base = NoBase => entries'[g].block = NoBlock
    <3>1. v.base # NoBase
      BY <1>4, <1>12 DEF NoBase
    <3> QED
      BY <1>2, <1>13, <3>1 DEF EntriesInv
  <2>4. \A g \in 1 .. Newest : Limit(g, n, lim)' = Limit(g, n, lim)
    BY <1>9, <1>19 DEF Limit
  <2> QED
    BY <1>9, <1>23, <2>1, <2>2, <2>3, <2>4 DEF EntriesInv
<1>25. \A c \in Consumers : WayInv(c, n, blk, org, lim)'
  <2>1. Written(n)' \in Int /\ Written(n) <= Written(n)'
    BY <1>2, <1>19
  <2>2. \A k \in Nat : k < n => blk[k] = blk[k]
    OBVIOUS
  <2> QED
    BY <1>1, <1>2, <1>9, <1>23, <2>1, <2>2, WaysStay
<1> QED
  BY <1>1, <1>16, <1>17, <1>18, <1>20, <1>22, <1>24, <1>25, ProducerMoves

\* The larger index: the slots of the smaller one from the oldest, then new ones.
Combines(f, n, s, org) ==
    /\ DOMAIN f = 0 .. 2 * s - 1
    /\ \A i \in 0 .. s - 1 : f[i] = Id(Newest, n + i, org) /\ f[i] \in 1 .. Len(entries)
    /\ \A i \in s .. 2 * s - 1 : f[i] = Len(entries) + i - s + 1

LEMMA SharedHeaderIs ==
    ASSUME NEW n \in Nat, NEW blk, NEW org, NEW lim, Ghosts(n, blk, org, lim),
           Layout(n, blk, org, lim), ~isExplicit, ppc = "idle",
           NEW s \in Nat \ {0}, s = SizeOf(Header), NEW f, f = SharedHeader.slot
    PROVE  /\ InsertInto(SharedHeader) = [cur |-> s, slot |-> f]
           /\ [cur |-> s, slot |-> f] \in HeaderSet /\ Combines(f, n, s, org)
           /\ Cardinality(0 .. 2 * s - 1) = 2 * s
           /\ \A all : KeyOf(SharedHeader, all) = [all EXCEPT ![Len(entries) + 1].base = tailIndex]
<1>1. /\ BlockTypes /\ n \in Nat /\ org \in [Nat -> Int] /\ HeaderInv(n, org)
  BY DEF Layout, Ghosts
<1>2. /\ Newest \in 1 .. Newest /\ Header = headers[Newest]
  BY <1>1, NewestIs
<1>3. PICK l \in Nat : l = Len(entries)
  BY <1>1 DEF BlockTypes
<1>4. 2 * s \in Nat \ {0} /\ s \in 0 .. 2 * s - 1 /\ s \in s .. 2 * s - 1 /\ s < 2 * s
  OBVIOUS
<1>5. Header.cur = Pos(Newest, n - 1, org) /\ Header.cur \in Int
  BY <1>1, NextSlot DEF HeaderInv
<1>6. /\ SharedHeader = [cur |-> s - 1, slot |-> f]
      /\ f = [i \in 0 .. 2 * s - 1 |-> IF i < s THEN Header.slot[(Header.cur + 1 + i) % s]
                                       ELSE l + i - s + 1]
  BY <1>3 DEF SharedHeader
<1>7. DOMAIN f = 0 .. 2 * s - 1
  BY <1>6
<1>8. ASSUME NEW i \in 0 .. s - 1
      PROVE  f[i] = Id(Newest, n + i, org) /\ f[i] \in 1 .. Len(entries)
  <2>1. f[i] = Header.slot[(Header.cur + 1 + i) % s]
    <3>1. i \in 0 .. 2 * s - 1 /\ i < s
      BY ONLY s \in Nat \ {0}, i \in 0 .. s - 1
    <3> QED
      BY <1>6, <3>1
  <2>2. n - 1 \in Int /\ 1 + i \in Int /\ (n - 1) + (1 + i) = n + i /\ n + i \in Int
    BY <1>1
  <2>3. (Pos(Newest, n - 1, org) + (1 + i)) % SizeOf(headers[Newest]) = Pos(Newest, (n - 1) + (1 + i), org)
    BY <1>1, <1>2, <2>2, PosIs
  <2>4. Header.cur + 1 + i = Header.cur + (1 + i)
    BY ONLY <1>5, i \in 0 .. s - 1, s \in Nat \ {0}
  <2>5. (Header.cur + 1 + i) % s = Pos(Newest, n + i, org)
    BY <1>2, <1>5, <2>2, <2>3, <2>4
  <2>6. Id(Newest, n + i, org) \in 1 .. Len(entries)
    BY <1>2, <2>2, EntryIs
  <2> QED
    BY <1>2, <2>1, <2>5, <2>6 DEF Id
<1>9. \A i \in s .. 2 * s - 1 : f[i] = Len(entries) + i - s + 1
  <2>1. \A i \in s .. 2 * s - 1 : i \in 0 .. 2 * s - 1 /\ ~(i < s)
    BY ONLY s \in Nat \ {0}
  <2> QED
    BY <1>3, <1>6, <2>1
<1>10. Cardinality(0 .. 2 * s - 1) = 2 * s
  <2>1. 0 \in Int /\ 2 * s - 1 \in Int
    OBVIOUS
  <2>2. Cardinality(0 .. 2 * s - 1) = IF 0 > 2 * s - 1 THEN 0 ELSE (2 * s - 1) - 0 + 1
    BY <2>1, FS_Interval
  <2> QED
    BY <2>2
<1>11. SizeOf(SharedHeader) = 2 * s
  <2>1. SharedHeader.slot = f
    BY <1>6
  <2> QED
    BY <1>7, <1>10, <2>1 DEF SizeOf
<1>12. (SharedHeader.cur + 1) % SizeOf(SharedHeader) = s
  <2>1. SharedHeader.cur = s - 1 /\ (s - 1) + 1 = s
    BY <1>6
  <2>2. s % (2 * s) = s
    <3>1. ((2 * s) * 0 + s) % (2 * s) = s
      BY <1>4, 0 \in Int, ModOf
    <3>2. (2 * s) * 0 + s = s
      OBVIOUS
    <3> QED
      BY <3>1, <3>2
  <2> QED
    BY <1>11, <2>1, <2>2
<1>13. InsertInto(SharedHeader) = [cur |-> s, slot |-> f]
  <2>0. SharedHeader = [cur |-> s - 1, slot |-> f]
    BY <1>6
  <2>1. [SharedHeader EXCEPT !.cur = s] = [cur |-> s, slot |-> f]
    BY ONLY <2>0
  <2> QED
    BY <1>12, <2>1 DEF InsertInto
<1>14. [cur |-> s, slot |-> f] \in HeaderSet
  <2>1. \A i \in 0 .. 2 * s - 1 : f[i] \in Nat
    <3> SUFFICES ASSUME NEW i \in 0 .. 2 * s - 1 PROVE f[i] \in Nat
      OBVIOUS
    <3>1. CASE i \in 0 .. s - 1
      <4>1. f[i] \in 1 .. l
        BY <1>3, <1>8, <3>1
      <4> QED
        BY <4>1
    <3>2. CASE i \in s .. 2 * s - 1
      <4>1. f[i] = l + i - s + 1
        BY <1>3, <1>9, <3>2
      <4>2. l + i - s + 1 \in Nat
        BY ONLY <3>2, l \in Nat, s \in Nat \ {0}
      <4> QED
        BY <4>1, <4>2
    <3> QED
      BY <3>1, <3>2
  <2>2. f \in [0 .. 2 * s - 1 -> Nat]
    BY <1>6, <2>1
  <2>3. f \in SlotMaps
    BY <1>4, <2>2 DEF SlotMaps
  <2> QED
    BY <2>3 DEF HeaderSet
<1>15. SharedHeader.slot[(SharedHeader.cur + 1) % SizeOf(SharedHeader)] = Len(entries) + 1
  <2>1. f[s] = l + s - s + 1 /\ l + s - s + 1 = l + 1
    <3>1. f[s] = l + s - s + 1
      BY <1>3, <1>4, <1>9
    <3>2. l + s - s + 1 = l + 1
      BY ONLY l \in Nat, s \in Nat \ {0}
    <3> QED
      BY <3>1, <3>2
  <2>2. SharedHeader.slot = f
    BY <1>6
  <2> QED
    BY <1>3, <1>12, <2>1, <2>2
<1>16. \A all : KeyOf(SharedHeader, all) = [all EXCEPT ![Len(entries) + 1].base = tailIndex]
  BY <1>15 DEF KeyOf
<1>17. Combines(f, n, s, org)
  BY <1>7, <1>8, <1>9 DEF Combines
<1> QED
  BY <1>10, <1>13, <1>14, <1>16, <1>17

LEMMA SmallMod ==
    ASSUME NEW r \in Nat, NEW s \in Nat \ {0}, r < s
    PROVE  r % s = r
<1>1. (s * 0 + r) % s = r
  BY 0 \in Int, ModOf
<1>2. s * 0 + r = r
  OBVIOUS
<1> QED
  BY <1>1, <1>2

\* More entries behind the ones there are.
LEMMA EntriesGrow ==
    ASSUME NEW a \in Seq(EntrySet), NEW s \in Nat, NEW g \in [1 .. s -> EntrySet]
    PROVE  /\ a \o g \in Seq(EntrySet) /\ Len(a \o g) = Len(a) + s
           /\ \A j \in 1 .. Len(a) : (a \o g)[j] = a[j]
           /\ \A i \in 1 .. s : (a \o g)[Len(a) + i] = g[i]
<1>1. g \in Seq(EntrySet) /\ Len(g) = s
  OBVIOUS
<1>2. PICK l \in Nat : l = Len(a)
  OBVIOUS
<1>3. a \o g \in Seq(EntrySet) /\ Len(a \o g) = l + s
  BY <1>1, <1>2
<1>4. \A j \in 1 .. l : (a \o g)[j] = a[j]
  BY <1>1, <1>2
<1>5. \A i \in 1 .. s : (a \o g)[l + i] = g[i]
  BY <1>1, <1>2
<1> QED
  BY <1>2, <1>3, <1>4, <1>5

\* The numbers behind the first l.
LEMMA Behind ==
    ASSUME NEW l \in Nat, NEW s \in Nat
    PROVE  /\ \A j \in 1 .. l : j \in 1 .. l + s
           /\ \A i \in 1 .. s : l + i \in 1 .. l + s
           /\ \A j \in 1 .. l + s : j \in 1 .. l \/ (j - l \in 1 .. s /\ l + (j - l) = j)
OBVIOUS

LEMMA SharedEntriesAre ==
    ASSUME entries \in Seq(EntrySet), NEW s \in Nat \ {0}, NEW t \in Int,
           entries' = [(entries \o [i \in 1 .. s |-> NoEntry]) EXCEPT ![Len(entries) + 1].base = t]
    PROVE  /\ entries' \in Seq(EntrySet) /\ Len(entries') = Len(entries) + s
           /\ Len(entries) \in Nat
           /\ \A j \in 1 .. Len(entries) : j \in 1 .. Len(entries') /\ entries'[j] = entries[j]
           /\ \A i \in 1 .. s : Len(entries) + i \in 1 .. Len(entries')
           /\ entries'[Len(entries) + 1] = [base |-> t, block |-> NoBlock]
           /\ \A j \in 1 .. Len(entries') : j \in 1 .. Len(entries) \/ entries'[j].block = NoBlock
<1>1. PICK v \in EntrySet : v = NoEntry
  <2>1. NoEntry \in EntrySet
    BY DEF NoEntry, EntrySet, NoBase, NoBlock
  <2> QED
    BY <2>1
<1>2. [base |-> t, block |-> NoBlock] \in EntrySet
  BY DEF EntrySet, NoBlock
<1>3. PICK g \in [1 .. s -> EntrySet] : g = [i \in 1 .. s |-> v]
  OBVIOUS
<1>4. PICK l \in Nat : l = Len(entries)
  <2>1. Len(entries) \in Nat
    BY ONLY entries \in Seq(EntrySet)
  <2> QED
    BY <2>1
<1>5. PICK all : all = entries \o g
  OBVIOUS
<1>6. /\ all \in Seq(EntrySet) /\ Len(all) = l + s
      /\ \A j \in 1 .. l : all[j] = entries[j]
      /\ \A i \in 1 .. s : all[l + i] = v
      /\ \A j \in 1 .. l + s : j \in 1 .. l \/ \E i \in 1 .. s : j = l + i
  <2>1. \A i \in 1 .. s : g[i] = v
    BY <1>3
  <2>2. s \in Nat
    OBVIOUS
  <2>3. /\ all \in Seq(EntrySet) /\ Len(all) = l + s
        /\ \A j \in 1 .. l : all[j] = entries[j]
        /\ \A i \in 1 .. s : all[l + i] = g[i]
        /\ \A j \in 1 .. l + s : j \in 1 .. l \/ \E i \in 1 .. s : j = l + i
    <3>1. PICK a \in Seq(EntrySet) : a = entries
      OBVIOUS
    <3>2. /\ a \o g \in Seq(EntrySet) /\ Len(a \o g) = Len(a) + s
          /\ \A j \in 1 .. Len(a) : (a \o g)[j] = a[j]
          /\ \A i \in 1 .. s : (a \o g)[Len(a) + i] = g[i]
      BY <2>2, EntriesGrow
    <3>3. \A j \in 1 .. l + s : j \in 1 .. l \/ (j - l \in 1 .. s /\ l + (j - l) = j)
      BY <2>2, Behind
    <3>4. all = a \o g /\ l = Len(a)
      BY <1>4, <1>5, <3>1
    <3> QED
      BY <3>1, <3>2, <3>3, <3>4
  <2> QED
    BY <2>1, <2>3
<1>7. /\ l + 1 \in 1 .. l + s /\ 1 \in 1 .. s
      /\ \A j \in 1 .. l : j \in 1 .. l + s /\ j # l + 1
      /\ \A i \in 1 .. s : l + i \in 1 .. l + s
  BY ONLY l \in Nat, s \in Nat \ {0}
<1>8. all[l + 1] = v
  BY <1>6, <1>7
<1>9. [all[l + 1] EXCEPT !.base = t] = [base |-> t, block |-> NoBlock]
  BY <1>1, <1>8 DEF NoEntry
<1>10. PICK w \in EntrySet : /\ w = [base |-> t, block |-> NoBlock]
                             /\ entries' = [all EXCEPT ![l + 1] = w]
  BY <1>1, <1>2, <1>3, <1>4, <1>5, <1>9
<1>11. /\ entries' \in Seq(EntrySet) /\ Len(entries') = l + s
       /\ entries'[l + 1] = w
       /\ \A j \in 1 .. l + s : j # l + 1 => entries'[j] = all[j]
  <2>1. /\ all \in Seq(EntrySet) /\ Len(all) = l + s /\ l + 1 \in 1 .. l + s
        /\ entries' = [all EXCEPT ![l + 1] = w]
    BY <1>6, <1>7, <1>10
  <2>2. PICK q \in Nat : q = l + s
    OBVIOUS
  <2>3. PICK p \in 1 .. q : p = l + 1
    BY <2>1, <2>2
  <2>4. entries' \in Seq(EntrySet) /\ Len(entries') = q /\ entries'[p] = w
        /\ \A j \in 1 .. q : j # p => entries'[j] = all[j]
    BY ONLY <2>1, <2>2, <2>3, w \in EntrySet
  <2> QED
    BY <2>2, <2>3, <2>4
<1>12. \A j \in 1 .. l + s : j \in 1 .. l \/ entries'[j].block = NoBlock
  <2> SUFFICES ASSUME NEW j \in 1 .. l + s, j \notin 1 .. l PROVE entries'[j].block = NoBlock
    OBVIOUS
  <2>1. CASE j = l + 1
    <3>1. w.block = NoBlock
      BY <1>10
    <3> QED
      BY <1>11, <2>1, <3>1
  <2>2. CASE j # l + 1
    <3>1. all[j] = v
      BY <1>6
    <3>2. v.block = NoBlock
      BY <1>1 DEF NoEntry
    <3> QED
      BY <1>11, <2>2, <3>1, <3>2
  <2> QED
    BY <2>1, <2>2
<1> QED
  BY <1>4, <1>6, <1>7, <1>10, <1>11, <1>12

LEMMA ModRound ==
    ASSUME NEW a \in Int, NEW s \in Nat \ {0}
    PROVE  (a + s) % s = a % s
<1>1. PICK q \in Int : a = s * q + (a % s)
  BY ModIs
<1>2. PICK r \in Nat : r = a % s /\ r < s
  <2>1. a % s \in 0 .. s - 1
    BY ModIs
  <2>2. a % s \in Nat /\ a % s < s
    BY ONLY <2>1, s \in Nat
  <2> QED
    BY <2>2
<1>3. a + s = s * (q + 1) + r
  <2>1. s * (q + 1) = s * q + s /\ s * q \in Int
    BY <1>1
  <2> QED
    BY <1>1, <1>2, <2>1
<1>4. (s * (q + 1) + r) % s = r
  BY <1>2, q + 1 \in Int, ModOf
<1> QED
  BY <1>2, <1>3, <1>4

\* One round of an index later comes the same slot.
LEMMA OneRound ==
    ASSUME BlockTypes, NEW h \in 1 .. Newest, NEW org \in [Nat -> Int], NEW k \in Int,
           NEW s \in Nat \ {0}, s = SizeOf(headers[h])
    PROVE  Pos(h, k + s, org) = Pos(h, k, org) /\ Id(h, k + s, org) = Id(h, k, org)
<1>1. org[h] \in Int
  BY NewestIs
<1>2. PICK a \in Int : a = k - org[h] /\ a + s = (k + s) - org[h]
  <2>1. k - org[h] \in Int /\ (k - org[h]) + s = (k + s) - org[h]
    BY ONLY <1>1, k \in Int, s \in Nat \ {0}
  <2> QED
    BY <2>1
<1>3. Pos(h, k + s, org) = Pos(h, k, org)
  BY <1>2, ModRound DEF Pos
<1> QED
  BY <1>3 DEF Id

\* The next slot is taken: the number goes to the first new slot of a larger index.
LEMMA GrowsShared ==
    ASSUME ClaimInv, NEW n, NEW blk, NEW org, NEW lim, Ghosts(n, blk, org, lim),
           Layout(n, blk, org, lim), Enqueue_Insert, ~FreeSlot(Header)
    PROVE  \E orgp, limp : Ghosts(n, blk, orgp, limp) /\ Layout(n, blk, orgp, limp)'
<1>1. /\ ppc = "idle" /\ AtBoundary /\ ~isExplicit /\ ppc' = "block"
      /\ entries' = KeyOf(SharedHeader, entries \o [i \in 1 .. SizeOf(Header) |-> NoEntry])
      /\ headers' = Append(headers, InsertInto(SharedHeader))
      /\ isExplicit' = isExplicit /\ ring' = ring /\ tailIndex' = tailIndex
      /\ pr_blockIndexSlotsUsed' = pr_blockIndexSlotsUsed
      /\ pr_blockIndexFront' = pr_blockIndexFront
      /\ cpc' = cpc /\ loc' = loc /\ headIndex' = headIndex
      /\ home' = home /\ elements' = elements
      /\ emptyFlags' = emptyFlags /\ elementsCompletelyDequeued' = elementsCompletelyDequeued
  BY DEF Enqueue_Insert, CanEnqueue, consVars, blockVars
<1>2. /\ BlockTypes /\ TailInv(n) /\ n \in Nat /\ HeaderInv(n, org) /\ OldInv(n, org, lim)
      /\ EntriesInv(n, blk, org, lim) /\ BlocksInv(n, blk) /\ RingInv(n, blk)
  BY DEF Layout, Ghosts
<1>3. org \in [Nat -> Int] /\ lim \in [Nat -> Nat] /\ blk \in [Nat -> Nat]
  BY DEF Ghosts
<1>4. tailIndex = Base(n) /\ Base(n) \in Nat
  BY <1>1, <1>2, AtBoundaryIs
<1>5. /\ Newest \in 1 .. Newest /\ Header = headers[Newest] /\ SizeOf(Header) \in Nat \ {0}
      /\ Newest \in Nat
  BY <1>2, NewestIs, HeaderIs
<1>6. PICK s \in Nat \ {0} : s = SizeOf(Header)
  BY <1>5
<1>7. PICK f : f = SharedHeader.slot
  OBVIOUS
<1>8. PICK x \in HeaderSet : x = [cur |-> s, slot |-> f] /\ headers' = Append(headers, x)
  BY <1>1, <1>2, <1>6, <1>7, SharedHeaderIs
<1>9. /\ DOMAIN f = 0 .. 2 * s - 1 /\ Cardinality(0 .. 2 * s - 1) = 2 * s
      /\ \A i \in 0 .. s - 1 : f[i] = Id(Newest, n + i, org) /\ f[i] \in 1 .. Len(entries)
      /\ \A i \in s .. 2 * s - 1 : f[i] = Len(entries) + i - s + 1
  <2>1. ~isExplicit /\ ppc = "idle" /\ n \in Nat
    BY <1>1, <1>2
  <2>2. Combines(f, n, s, org) /\ Cardinality(0 .. 2 * s - 1) = 2 * s
    BY <1>6, <1>7, <2>1, SharedHeaderIs
  <2> QED
    BY <2>2 DEF Combines
<1>10. entries' = [(entries \o [i \in 1 .. s |-> NoEntry]) EXCEPT ![Len(entries) + 1].base = tailIndex]
  BY <1>1, <1>2, <1>6, <1>7, SharedHeaderIs
<1>11. PICK l \in Nat : l = Len(entries)
  BY <1>2 DEF BlockTypes
<1>12. /\ entries' \in Seq(EntrySet) /\ Len(entries') = l + s
       /\ \A j \in 1 .. l : j \in 1 .. Len(entries') /\ entries'[j] = entries[j]
       /\ \A i \in 1 .. s : l + i \in 1 .. Len(entries')
       /\ entries'[l + 1] = [base |-> Base(n), block |-> NoBlock]
       /\ \A j \in 1 .. Len(entries') : j \in 1 .. l \/ entries'[j].block = NoBlock
  <2>1. entries \in Seq(EntrySet) /\ tailIndex \in Int
    BY <1>2, <1>4 DEF BlockTypes
  <2> QED
    BY <1>4, <1>10, <1>11, <2>1, SharedEntriesAre
<1>13. PICK orgp : orgp = [org EXCEPT ![Newest + 1] = n - s]
  OBVIOUS
<1>14. PICK limp : limp = [lim EXCEPT ![Newest] = n]
  OBVIOUS
<1>15. /\ orgp \in [Nat -> Int] /\ limp \in [Nat -> Nat] /\ orgp[Newest + 1] = n - s
       /\ limp[Newest] = n
       /\ \A h \in 1 .. Newest : orgp[h] = org[h]
       /\ \A h \in 1 .. Newest - 1 : limp[h] = lim[h]
  <2>1. PICK t \in Nat : t = Newest
    BY <1>5
  <2>2. n - s \in Int /\ n \in Nat /\ t + 1 \in Nat
    BY <1>2
  <2>3. /\ \A h \in 1 .. t : h \in Nat /\ h # t + 1
        /\ \A h \in 1 .. t - 1 : h \in Nat /\ h # t
    BY ONLY t \in Nat
  <2>4. orgp = [org EXCEPT ![t + 1] = n - s] /\ limp = [lim EXCEPT ![t] = n]
    BY <1>13, <1>14, <2>1
  <2>5. /\ orgp \in [Nat -> Int] /\ limp \in [Nat -> Nat] /\ orgp[t + 1] = n - s /\ limp[t] = n
        /\ \A h \in Nat : h # t + 1 => orgp[h] = org[h]
        /\ \A h \in Nat : h # t => limp[h] = lim[h]
    BY ONLY <1>3, <2>2, <2>4, t \in Nat
  <2> QED
    BY <2>1, <2>3, <2>5
<1>16. /\ headers' \in Seq(HeaderSet) /\ Newest' = Newest + 1 /\ Newest' # 0
       /\ Header' = x /\ headers'[Newest + 1] = x
       /\ \A h \in 1 .. Newest + 1 : h \in 1 .. Newest \/ h = Newest + 1
       /\ \A h \in 1 .. Newest : h # Newest + 1 /\ h \in 1 .. Newest + 1
       /\ \A h \in 1 .. Newest : headers'[h] = headers[h]
       /\ \A h \in 1 .. Newest : /\ \A k : Pos(h, k, orgp)' = Pos(h, k, org)
                                 /\ \A k : Id(h, k, orgp)' = Id(h, k, org)
  <2>1. BlockTypes /\ headers' = Append(headers, x) /\ \A h \in 1 .. Newest : orgp[h] = org[h]
    BY <1>2, <1>8, <1>15
  <2> QED
    BY <2>1, IndexGrows
<1>17. SizeOf(x) = 2 * s /\ x.cur = s /\ x.slot = f
  BY <1>8, <1>9 DEF SizeOf
\* Where the numbers from n - s on are in it.
<1>18. ASSUME NEW k \in Nat, n - s <= k, k <= n
       PROVE  \A g : g = Newest + 1 => Pos(g, k, orgp)' = k - (n - s)
  <2>1. k - (n - s) \in Nat /\ k - (n - s) < 2 * s /\ 2 * s \in Nat \ {0}
    BY ONLY <1>2, <1>18, s \in Nat \ {0}, k \in Nat
  <2>2. (k - (n - s)) % (2 * s) = k - (n - s)
    BY <2>1, SmallMod
  <2>3. TAKE g
  <2>4. HAVE g = Newest + 1
  <2>5. headers'[g] = x /\ orgp[g] = n - s
    BY <1>15, <1>16, <2>4
  <2> QED
    BY <1>17, <2>2, <2>5 DEF Pos, SizeOf
<1>19. PICK g \in Nat : g = Newest + 1 /\ Newest' = g /\ g \in 1 .. g
  <2>1. Newest + 1 \in Nat /\ Newest + 1 \in 1 .. Newest + 1
    BY <1>5
  <2> QED
    BY <1>16, <2>1
<1>20. \A k : Pos(Newest, k, orgp)' = Pos(g, k, orgp)' /\ Id(Newest, k, orgp)' = Id(g, k, orgp)'
  BY <1>19 DEF Id, Pos, SizeOf
<1>21. /\ \A i \in Nat : (Done(i)' <=> Done(i)) /\ (Taken(i)' <=> Taken(i))
       /\ \A k \in Nat : Full(k)' <=> Full(k)
  BY <1>1, NothingTaken
<1>22. \A k \in Nat : /\ InUse(n, k)' <=> InUse(n, k)
                      /\ Held(n, k)' <=> Held(n, k)
                      /\ Kept(n, k)' <=> Kept(n, k)
  BY <1>1, <1>2, NoBlockTaken
<1>23. Written(n) = n /\ Written(n)' = n
  BY <1>1 DEF Written
<1>24. ~Spare(n, org)
  BY <1>1, NextSlot DEF Spare
<1>25. \A c \in Consumers : WayInv(c, n, blk, orgp, limp)'
  <2>1. \A k \in Nat : k < n => blk[k] = blk[k]
    OBVIOUS
  <2>2. cpc' = cpc /\ loc' = loc /\ isExplicit' = isExplicit /\ n \in Nat
    BY <1>1, <1>2
  <2>3. AddsIndex(n, x, org, lim, orgp, limp)
    BY <1>8, <1>15 DEF AddsIndex
  <2> QED
    BY <1>4, <1>23, <1>24, <2>1, <2>2, <2>3, WaysGrow
<1>26. BlocksInv(n, blk)' /\ RingInv(n, blk)'
  <2>1. Built' = Built
    BY <1>1 DEF Built
  <2> QED
    BY <1>1, <1>2, <1>21, <1>22, <2>1, BlocksStay, RingStays
<1>27. BlockTypes'
  BY <1>1, <1>2, <1>12, <1>16 DEF BlockTypes
<1>28. TailInv(n)'
  BY <1>1, <1>4 DEF TailInv
\* The numbers that are kept have the entries they had.
<1>29. ASSUME NEW m \in Nat, m < n, Kept(n, m)
       PROVE  Id(g, m, orgp)' = Id(Newest, m, org)
  <2>1. n - m <= s
    BY <1>6, <1>29, KeptNear
  <2>2. PICK i \in 0 .. s - 1 : i = m - (n - s) /\ n + i = m + s
    <3>1. m - (n - s) \in 0 .. s - 1 /\ n + (m - (n - s)) = m + s
      BY ONLY <1>2, <1>29, <2>1, s \in Nat \ {0}, m \in Nat
    <3> QED
      BY <3>1
  <2>3. n - s <= m /\ m <= n
    BY ONLY <1>2, <1>29, <2>1, s \in Nat \ {0}, m \in Nat
  <2>4. Pos(g, m, orgp)' = i
    BY <1>18, <1>19, <2>2, <2>3
  <2>5. Id(g, m, orgp)' = f[i]
    BY <1>16, <1>17, <1>19, <2>4 DEF Id
  <2>6. f[i] = Id(Newest, m + s, org)
    BY <1>9, <2>2
  <2>7. Id(Newest, m + s, org) = Id(Newest, m, org)
    BY <1>2, <1>3, <1>5, <1>6, m \in Int, OneRound
  <2> QED
    BY <2>5, <2>6, <2>7
<1>30. ASSUME NEW h \in 1 .. Newest
       PROVE  /\ limp[h] \in Nat /\ limp[h] <= n /\ Limit(h, n, limp)' = limp[h]
              /\ Limit(h, n, lim) = limp[h]
              /\ headers[h].cur = Pos(h, limp[h] - 1, org)
              /\ \A m \in Nat : m < limp[h] /\ Kept(n, m) => Id(h, m, org) = Id(Newest, m, org)
  <2>1. h # g
    BY <1>16, <1>19
  <2>2. CASE h = Newest
    <3>1. Header.cur = Pos(Newest, n - 1, org)
      BY <1>1, <1>2 DEF HeaderInv
    <3> QED
      BY <1>2, <1>5, <1>15, <1>19, <1>23, <2>1, <2>2, <3>1 DEF Limit
  <2>3. CASE h # Newest
    <3>1. h \in 1 .. Newest - 1 /\ lim[h] \in Nat
      BY <1>2, <1>3, <2>3, IndexesAre
    <3>2. limp[h] = lim[h]
      BY <1>15, <3>1
    <3>3. \A m \in Nat : m < lim[h] => m \in 0 .. lim[h] - 1
      BY ONLY <3>1
    <3> QED
      BY <1>1, <1>2, <1>19, <1>23, <2>1, <2>3, <3>1, <3>2, <3>3 DEF Limit, OldInv
  <2> QED
    BY <2>2, <2>3
<1>31. OldInv(n, orgp, limp)'
  <2>1. \A h \in 1 .. g - 1 : h \in 1 .. Newest
    BY ONLY <1>19, <1>5
  <2>2. ASSUME NEW h \in 1 .. g - 1
        PROVE  limp[h] <= n /\ headers'[h].cur = Pos(h, limp[h] - 1, orgp)'
    <3>1. h \in 1 .. Newest
      BY <2>1
    <3>2. limp[h] <= n /\ headers[h].cur = Pos(h, limp[h] - 1, org)
      BY <1>30, <3>1
    <3>3. headers'[h] = headers[h] /\ Pos(h, limp[h] - 1, orgp)' = Pos(h, limp[h] - 1, org)
      BY <1>16, <3>1
    <3> QED
      BY ONLY <3>2, <3>3
  <2>3. ASSUME NEW h \in 1 .. g - 1, NEW m \in 0 .. limp[h] - 1, Kept(n, m)'
        PROVE  Id(h, m, orgp)' = Id(g, m, orgp)'
    <3>1. h \in 1 .. Newest
      BY <2>1
    <3>2. m \in Nat /\ m < limp[h] /\ m < n
      BY <1>2, <1>30, <3>1
    <3>3. Kept(n, m)
      BY <1>22, <2>3, <3>2
    <3> QED
      BY <1>16, <1>29, <1>30, <3>1, <3>2, <3>3
  <2> QED
    BY <1>1, <1>19, <1>20, <1>23, <2>2, <2>3 DEF OldInv
<1>32. SizeOf(Header') = 2 * s /\ SizeOf(Header)' = 2 * s
  BY <1>16, <1>17 DEF SizeOf
<1>33. Pos(g, n, orgp)' = s
  <2>1. n - s <= n /\ n <= n /\ n - (n - s) = s
    BY ONLY <1>2, s \in Nat \ {0}
  <2> QED
    BY <1>2, <1>18, <1>19, <2>1
<1>34. HeaderInv(n, orgp)'
  <2>1. Header'.cur = Pos(Newest, n, orgp)'
    BY <1>16, <1>17, <1>20, <1>33
  <2>2. ASSUME NEW k \in Nat, Held(n, k)'
        PROVE  (IF ppc' = "block" THEN n + 1 ELSE n) - k <= SizeOf(Header)'
    <3>1. n - k <= s
      <4>1. Held(n, k)
        BY <1>22, <2>2
      <4>2. (IF ppc = "block" THEN n + 1 ELSE n) - k <= s
        BY <1>2, <1>6, <4>1 DEF HeaderInv
      <4> QED
        BY <1>1, <4>2
    <3>2. n + 1 - k <= 2 * s
      BY ONLY <1>2, <3>1, s \in Nat \ {0}, k \in Nat
    <3>3. n + 1 - k <= SizeOf(Header)'
      BY <1>32, <3>2
    <3>4. n \in Nat /\ ppc' = "block"
      BY <1>1, <1>2
    <3> QED
      BY ONLY <3>3, <3>4, k \in Nat
  <2>3. ppc' = "block" /\ ~isExplicit' /\ ~(ppc' \in {"idle", "tail"}) /\ ~(ppc' \in {"entry", "front"})
    BY <1>1
  <2> QED
    BY <2>1, <2>2, <2>3 DEF HeaderInv
<1>35. Spare(n, orgp)'
  <2>1. f[s] = l + 1
    <3>1. s \in s .. 2 * s - 1 /\ l + s - s + 1 = l + 1
      BY ONLY s \in Nat \ {0}, l \in Nat
    <3> QED
      BY <1>9, <1>11, <3>1
  <2>2. Id(g, n, orgp)' = f[s]
    BY <1>16, <1>17, <1>19, <1>33 DEF Id
  <2> QED
    BY <1>12, <1>20, <2>1, <2>2 DEF Spare
<1>36. ASSUME NEW h \in 1 .. g PROVE GoodHeader(headers[h])'
  <2>1. CASE h \in 1 .. Newest
    <3>1. GoodHeader(headers[h]) /\ headers'[h] = headers[h]
      BY <1>2, <1>16, <2>1 DEF EntriesInv
    <3> QED
      BY <1>11, <1>12, <3>1 DEF GoodHeader
  <2>2. CASE h = g
    <3>1. headers'[h].slot = f /\ DOMAIN f = 0 .. 2 * s - 1
      BY <1>9, <1>16, <1>17, <1>19, <2>2
    <3>2. /\ \A i \in 0 .. 2 * s - 1 : i \in 0 .. s - 1 \/ i \in s .. 2 * s - 1
          /\ \A i \in s .. 2 * s - 1 : /\ i - s + 1 \in 1 .. s /\ l + i - s + 1 = l + (i - s + 1)
                                       /\ l + i - s + 1 \notin 1 .. l
          /\ \A i, j \in s .. 2 * s - 1 : l + i - s + 1 = l + j - s + 1 => i = j
      BY ONLY s \in Nat \ {0}, l \in Nat
    <3>3. \A i \in 0 .. 2 * s - 1 : f[i] \in 1 .. Len(entries')
      BY <1>9, <1>11, <1>12, <3>2
    <3>4. ASSUME NEW i \in 0 .. s - 1, NEW j \in 0 .. s - 1, f[i] = f[j] PROVE i = j
      <4>1. \A a, b \in 0 .. s - 1 : a < b => f[a] # f[b]
        <5> SUFFICES ASSUME NEW a \in 0 .. s - 1, NEW b \in 0 .. s - 1, a < b PROVE f[a] # f[b]
          OBVIOUS
        <5>1. n + a \in Int /\ n + b \in Int /\ n + a < n + b /\ (n + b) - (n + a) < s
          BY ONLY <1>2, s \in Nat \ {0}, a \in 0 .. s - 1, b \in 0 .. s - 1, a < b
        <5>2. PICK y \in Int : y = n + a
          BY <5>1
        <5>3. PICK z \in Int : z = n + b
          BY <5>1
        <5>4. Id(Newest, y, org) # Id(Newest, z, org)
          BY <1>5, <1>6, <5>1, <5>2, <5>3, EntriesDiffer
        <5> QED
          BY <1>9, <5>2, <5>3, <5>4
      <4>2. i < j \/ j < i \/ i = j
        BY ONLY i \in 0 .. s - 1, j \in 0 .. s - 1, s \in Nat
      <4> QED
        BY <3>4, <4>1, <4>2
    <3>5. \A i, j \in 0 .. 2 * s - 1 : f[i] = f[j] => i = j
      BY <1>9, <1>11, <3>2, <3>4
    <3> QED
      BY <3>1, <3>3, <3>5 DEF GoodHeader
  <2> QED
    BY <1>16, <1>19, <2>1, <2>2
<1>37. ASSUME NEW h \in 1 .. g, NEW m \in Nat, m < (IF h = g THEN n ELSE limp[h])
       PROVE  /\ Kept(n, m) => entries'[Id(h, m, orgp)'].base = Base(m)
              /\ Held(n, m) => entries'[Id(h, m, orgp)'].block = blk[m]
  <2>0. Held(n, m) => Kept(n, m)
    <3>1. m \in 0 .. m
      OBVIOUS
    <3> QED
      BY <3>1 DEF Kept
  <2>1. CASE h \in 1 .. Newest
    <3>1. h # g /\ limp[h] = Limit(h, n, lim) /\ limp[h] \in Nat
      BY <1>16, <1>19, <1>30, <2>1
    <3>2. m \in 0 .. Limit(h, n, lim) - 1
      BY <1>37, <3>1
    <3>3. PICK y \in 1 .. l : y = Id(h, m, org)
      <4>1. Id(h, m, org) \in 1 .. Len(entries)
        BY <2>1, m \in Int, EntryIs
      <4> QED
        BY <1>11, <4>1
    <3>4. /\ Kept(n, m) => entries[y].base = Base(m)
          /\ Held(n, m) => entries[y].block = blk[m]
      BY <1>2, <2>1, <3>2, <3>3 DEF EntriesInv
    <3>5. Id(h, m, orgp)' = y /\ entries'[y] = entries[y]
      BY <1>12, <1>16, <2>1, <3>3
    <3> QED
      BY <3>4, <3>5
  <2>2. CASE h = g
    <3>1. m < n
      BY <1>37, <2>2
    <3>2. m \in 0 .. Limit(Newest, n, lim) - 1
      <4>1. Limit(Newest, n, lim) = n
        BY <1>23 DEF Limit
      <4> QED
        BY <1>2, <3>1, <4>1
    <3>3. PICK y \in 1 .. l : y = Id(Newest, m, org)
      <4>1. Id(Newest, m, org) \in 1 .. Len(entries)
        BY <1>5, m \in Int, EntryIs
      <4> QED
        BY <1>11, <4>1
    <3>4. /\ Kept(n, m) => entries[y].base = Base(m)
          /\ Held(n, m) => entries[y].block = blk[m]
      BY <1>2, <1>5, <3>2, <3>3 DEF EntriesInv
    <3>5. Kept(n, m) => Id(g, m, orgp)' = y
      BY <1>29, <3>1, <3>3
    <3> QED
      BY <1>12, <2>0, <2>2, <3>4, <3>5
  <2> QED
    BY <1>16, <1>19, <2>1, <2>2
<1>38. \A e \in 1 .. Len(entries') : entries'[e].base = NoBase => entries'[e].block = NoBlock
  BY <1>2, <1>11, <1>12 DEF EntriesInv
<1>39. EntriesInv(n, blk, orgp, limp)'
  <2>1. ASSUME NEW h \in 1 .. g, NEW m \in 0 .. Limit(h, n, limp)' - 1
        PROVE  /\ Kept(n, m)' => entries'[Id(h, m, orgp)'].base = Base(m)
               /\ Held(n, m)' => entries'[Id(h, m, orgp)'].block = blk[m]
    <3>1. Limit(h, n, limp)' = (IF h = g THEN n ELSE limp[h])
      BY <1>19, <1>23 DEF Limit
    <3>2. limp[h] \in Nat
      BY <1>15, h \in Nat
    <3>3. PICK q \in Nat : q = Limit(h, n, limp)' /\ q = IF h = g THEN n ELSE limp[h]
      BY <1>2, <3>1, <3>2
    <3>4. m \in Nat /\ m < q
      BY <3>3
    <3> QED
      BY <1>22, <1>37, <3>3, <3>4
  <2> QED
    BY <1>19, <1>35, <1>36, <1>38, <2>1 DEF EntriesInv
<1>40. Layout(n, blk, orgp, limp)'
  BY <1>1, <1>25, <1>26, <1>27, <1>28, <1>31, <1>34, <1>39, ProducerMoves
<1> QED
  BY <1>3, <1>15, <1>40 DEF Ghosts

-----------------------------------------------------------------------------
(* The explicit producer's next block.                                      *)

\* The index is ready for the entry of number n.
IndexReady(n, p, blkp, orgp, limp) ==
    /\ orgp \in [Nat -> Int] /\ limp \in [Nat -> Nat]
    /\ headers' \in Seq(HeaderSet) /\ Newest' # 0 /\ entries' \in Seq(EntrySet)
    /\ n > 0 => Header'.cur = Pos(Newest, n - 1, orgp)'
    /\ pr_blockIndexFront' = Pos(Newest, n, orgp)'
    /\ OldInv(p, orgp, limp)' /\ EntriesInv(p, blkp, orgp, limp)'
    /\ \A c \in Consumers : WayInv(c, p, blkp, orgp, limp)'

\* What the producer does before it writes the entry.
GetsReady(n, p) ==
    /\ isExplicit /\ ppc = "idle" /\ ppc' # "block" /\ tailIndex = Base(n)
    /\ cpc' = cpc /\ loc' = loc /\ headIndex' = headIndex /\ isExplicit' = isExplicit
    /\ p \in Nat /\ Written(p)' = n
    /\ \A m \in Nat : m < n => (Held(p, m)' => Held(n, m))

LEMMA KeepsIndex ==
    ASSUME ClaimInv, NEW n, NEW blk, NEW org, NEW lim, Ghosts(n, blk, org, lim),
           Layout(n, blk, org, lim), NEW p, GetsReady(n, p),
           NEW blkp, \A k \in Nat : k < n => blkp[k] = blk[k],
           headers' = headers, entries' = entries, pr_blockIndexFront' = pr_blockIndexFront
    PROVE  IndexReady(n, p, blkp, org, lim) /\ SizeOf(Header)' = SizeOf(Header)
<1>1. /\ isExplicit /\ ppc = "idle" /\ ppc' # "block" /\ tailIndex = Base(n)
      /\ cpc' = cpc /\ loc' = loc /\ isExplicit' = isExplicit /\ p \in Nat /\ Written(p)' = n
      /\ \A m \in Nat : m < n => (Held(p, m)' => Held(n, m))
  BY DEF GetsReady
<1>2. /\ BlockTypes /\ n \in Nat /\ HeaderInv(n, org) /\ OldInv(n, org, lim)
      /\ EntriesInv(n, blk, org, lim) /\ org \in [Nat -> Int] /\ lim \in [Nat -> Nat]
  BY DEF Layout, Ghosts
<1>3. Written(n) = n
  BY <1>1 DEF Written
<1>4. \A m \in Nat : m < n => (Kept(p, m)' => Kept(n, m))
  BY <1>1, <1>2, KeptShrinks
<1>5. /\ Newest' = Newest /\ Header' = Header /\ SizeOf(Header)' = SizeOf(Header)
      /\ \A h, k : Pos(h, k, org)' = Pos(h, k, org) /\ Id(h, k, org)' = Id(h, k, org)
      /\ \A k : Pos(Newest, k, org)' = Pos(Newest, k, org)
  BY DEF Newest, Header, SizeOf, Pos, Id
<1>6. /\ headers' \in Seq(HeaderSet) /\ Newest' # 0 /\ entries' \in Seq(EntrySet)
  BY <1>2, <1>5 DEF BlockTypes
<1>7. /\ n > 0 => Header'.cur = Pos(Newest, n - 1, org)'
      /\ pr_blockIndexFront' = Pos(Newest, n, org)'
  BY <1>1, <1>2, <1>5 DEF HeaderInv
<1>8. OldInv(p, org, lim)'
  <2>1. \A h \in 1 .. Newest - 1 : lim[h] <= n /\ headers[h].cur = Pos(h, lim[h] - 1, org)
    BY <1>2, <1>3 DEF OldInv
  <2>2. \A h \in 1 .. Newest - 1 : \A i \in DOMAIN headers[h].slot : \A j \in DOMAIN Header.slot :
            headers[h].slot[i] # Header.slot[j]
    BY <1>1, <1>2 DEF OldInv
  <2> QED
    BY <1>1, <1>5, <2>1, <2>2 DEF OldInv
<1>9. EntriesInv(p, blkp, org, lim)'
  <2>1. \A g \in 1 .. Newest : GoodHeader(headers[g])'
    BY <1>2 DEF EntriesInv, GoodHeader
  <2>2. \A g \in 1 .. Newest : Limit(g, p, lim)' = Limit(g, n, lim)
    BY <1>1, <1>3, <1>5 DEF Limit
  <2>3. ASSUME NEW g \in 1 .. Newest, NEW m \in 0 .. Limit(g, n, lim) - 1
        PROVE  /\ Kept(p, m)' => entries'[Id(g, m, org)'].base = Base(m)
               /\ Held(p, m)' => entries'[Id(g, m, org)'].block = blkp[m]
    <3>1. PICK q \in Nat : q = Limit(g, n, lim) /\ q <= n
      <4>1. Limit(g, n, lim) = (IF g = Newest THEN n ELSE lim[g]) /\ lim[g] \in Nat
        BY <1>2, <1>3, LimitIs
      <4>2. g # Newest => lim[g] <= n
        BY <1>2, <1>3, IndexesAre DEF OldInv
      <4> QED
        BY <1>2, <4>1, <4>2
    <3>2. m \in Nat /\ m < n
      BY <1>2, <3>1
    <3>3. /\ Kept(n, m) => entries[Id(g, m, org)].base = Base(m)
          /\ Held(n, m) => entries[Id(g, m, org)].block = blk[m]
      BY <1>2 DEF EntriesInv
    <3> QED
      BY <1>1, <1>4, <1>5, <3>2, <3>3
  <2>4. \A e \in 1 .. Len(entries') : entries'[e].base = NoBase => entries'[e].block = NoBlock
    BY <1>2 DEF EntriesInv
  <2> QED
    BY <1>1, <1>5, <2>1, <2>2, <2>3, <2>4 DEF EntriesInv
<1>10. \A c \in Consumers : WayInv(c, p, blkp, org, lim)'
  <2>1. Written(p)' \in Int /\ Written(n) <= Written(p)'
    BY <1>1, <1>2, <1>3
  <2>2. \A h \in 1 .. Newest : headers'[h].slot = headers[h].slot
    OBVIOUS
  <2> QED
    BY <1>1, <1>5, <2>1, <2>2, WaysStay
<1> QED
  BY <1>2, <1>5, <1>6, <1>7, <1>8, <1>9, <1>10 DEF IndexReady

\* With the index ready and the blocks in order, all is.
LEMMA ReadyLayout ==
    ASSUME NEW n, NEW blk, NEW org, NEW lim, Layout(n, blk, org, lim), n \in Nat,
           NEW p, GetsReady(n, p), NEW blkp, blkp \in [Nat -> Nat], NEW orgp, NEW limp,
           IndexReady(n, p, blkp, orgp, limp), BlocksInv(p, blkp)', RingInv(p, blkp)',
           tailIndex' = tailIndex,
           (ppc' = "entry" /\ p = n + 1) \/ (ppc' = "idle" /\ p = n),
           ring' \in Seq(Blocks), pr_blockIndexSlotsUsed' = Len(ring'),
           SizeOf(Header)' \in Nat, Len(ring') <= SizeOf(Header)', Len(ring') <= p,
           elements' = elements, elementsCompletelyDequeued' = elementsCompletelyDequeued,
           emptyFlags' \in [Blocks -> SUBSET Offsets],
           home' \in [Blocks -> {"pool", "list", "heap", "used"}]
    PROVE  Ghosts(p, blkp, orgp, limp) /\ Layout(p, blkp, orgp, limp)'
<1>1. /\ isExplicit /\ ppc = "idle" /\ ppc' # "block" /\ tailIndex = Base(n)
      /\ cpc' = cpc /\ loc' = loc /\ headIndex' = headIndex /\ isExplicit' = isExplicit
      /\ p \in Nat
  BY DEF GetsReady
<1>2. BlockTypes'
  BY <1>1 DEF Layout, BlockTypes, IndexReady
<1>3. TailInv(p)'
  <2>1. CASE ppc' = "entry" /\ p = n + 1
    <3>1. p > 0 /\ p - 1 = n
      BY ONLY n \in Nat, <2>1
    <3> QED
      BY <1>1, <2>1, <3>1 DEF TailInv
  <2>2. CASE ppc' = "idle" /\ p = n
    BY <1>1, <2>2 DEF TailInv, Layout
  <2> QED
    BY <2>1, <2>2
<1>4. HeaderInv(p, orgp)'
  <2>1. /\ n > 0 => Header'.cur = Pos(Newest, n - 1, orgp)'
        /\ pr_blockIndexFront' = Pos(Newest, n, orgp)'
    BY DEF IndexReady
  <2>2. ASSUME NEW k \in Nat, Held(p, k)' PROVE p - k <= SizeOf(Header)'
    <3>1. k >= p - Len(ring')
      BY <1>1, <2>2 DEF Held, Used
    <3>2. Len(ring') \in Nat
      OBVIOUS
    <3>3. PICK z \in Nat : z = SizeOf(Header)' /\ Len(ring') <= z
      OBVIOUS
    <3>4. p - k <= z
      BY ONLY <1>1, <3>1, <3>2, <3>3, k \in Nat
    <3> QED
      BY <3>3, <3>4
  <2>3. CASE ppc' = "entry" /\ p = n + 1
    <3>1. p - 1 = n /\ p - 2 = n - 1 /\ (p > 1 => n > 0)
      BY ONLY n \in Nat, <2>3
    <3> QED
      BY <1>1, <2>1, <2>2, <2>3, <3>1 DEF HeaderInv
  <2>4. CASE ppc' = "idle" /\ p = n
    BY <1>1, <2>1, <2>2, <2>4 DEF HeaderInv
  <2> QED
    BY <2>3, <2>4
<1>5. Layout(p, blkp, orgp, limp)'
  BY <1>1, <1>2, <1>3, <1>4, ProducerMoves DEF IndexReady
<1> QED
  BY <1>1, <1>5 DEF IndexReady, Ghosts

\* A full index is copied to a larger one.
Copies(all, n, s, org) ==
    /\ GrownEntries = entries \o all
    /\ \A i \in 1 .. s : all[i] = entries[Id(Newest, n - s + (i - 1), org)]
    /\ \A i \in 1 .. 2 * s : all[i].base = NoBase => all[i].block = NoBlock

LEMMA GrownIs ==
    ASSUME NEW n \in Nat, NEW blk, NEW org, NEW lim, Ghosts(n, blk, org, lim),
           Layout(n, blk, org, lim), isExplicit, ppc = "idle",
           NEW s \in Nat \ {0}, s = SizeOf(Header), s = pr_blockIndexSlotsUsed,
           NEW l \in Nat, l = Len(entries)
    PROVE  /\ s <= n /\ Len(ring) = s
           /\ GrownHeader = [cur |-> s - 1, slot |-> [i \in 0 .. 2 * s - 1 |-> l + i + 1]]
           /\ \E all \in [1 .. 2 * s -> EntrySet] : Copies(all, n, s, org)
<1>1. /\ BlockTypes /\ HeaderInv(n, org) /\ EntriesInv(n, blk, org, lim) /\ org \in [Nat -> Int]
  BY DEF Layout, Ghosts
<1>2. /\ Newest \in 1 .. Newest /\ Header = headers[Newest]
  BY <1>1, NewestIs
<1>3. /\ Len(ring) = s /\ s <= n /\ pr_blockIndexFront = Pos(Newest, n, org)
  BY <1>1 DEF HeaderInv
<1>4. GrownHeader = [cur |-> s - 1, slot |-> [i \in 0 .. 2 * s - 1 |-> l + i + 1]]
  BY DEF GrownHeader
<1>5. ASSUME NEW i \in 1 .. s
      PROVE  /\ Header.slot[OldestSlot(i - 1)] = Id(Newest, n - s + (i - 1), org)
             /\ Id(Newest, n - s + (i - 1), org) \in 1 .. l
  <2>1. PICK b \in Int : b = (i - 1) - s /\ n + b = n - s + (i - 1) /\ n + b \in Int
    <3>1. (i - 1) - s \in Int /\ n + ((i - 1) - s) = n - s + (i - 1) /\ n + ((i - 1) - s) \in Int
      BY ONLY n \in Nat, s \in Nat \ {0}, i \in 1 .. s
    <3> QED
      BY <3>1
  <2>2. PICK q \in Nat : q = Pos(Newest, n, org)
    <3>1. Pos(Newest, n, org) \in 0 .. s - 1
      BY <1>1, <1>2, n \in Int, PosIs
    <3> QED
      BY <3>1
  <2>3. q - s + (i - 1) = q + b
    BY ONLY <2>1, q \in Nat, s \in Nat \ {0}, i \in 1 .. s
  <2>4. (q + b) % s = Pos(Newest, n + b, org)
    <3>1. (Pos(Newest, n, org) + b) % SizeOf(headers[Newest]) = Pos(Newest, n + b, org)
      BY <1>1, <1>2, n \in Int, PosIs
    <3> QED
      BY <1>2, <2>2, <3>1
  <2>5. OldestSlot(i - 1) = Pos(Newest, n - s + (i - 1), org)
    BY <1>3, <2>1, <2>2, <2>3, <2>4 DEF OldestSlot
  <2>6. Id(Newest, n - s + (i - 1), org) \in 1 .. l
    BY <1>2, <2>1, EntryIs
  <2> QED
    BY <1>2, <2>5, <2>6 DEF Id
<1>6. PICK all : all = [i \in 1 .. 2 * s |->
                          IF i <= s THEN entries[Header.slot[OldestSlot(i - 1)]] ELSE NoEntry]
  OBVIOUS
<1>7. GrownEntries = entries \o all
  BY <1>6 DEF GrownEntries
<1>8. NoEntry \in EntrySet /\ NoEntry.block = NoBlock
  BY DEF NoEntry, EntrySet, NoBase, NoBlock
<1>9. ASSUME NEW i \in 1 .. 2 * s
      PROVE  /\ i <= s => /\ all[i] = entries[Id(Newest, n - s + (i - 1), org)]
                          /\ Id(Newest, n - s + (i - 1), org) \in 1 .. l
             /\ ~(i <= s) => all[i] = NoEntry
  <2>1. i <= s => i \in 1 .. s
    BY ONLY s \in Nat \ {0}, i \in 1 .. 2 * s
  <2> QED
    BY <1>5, <1>6, <2>1
<1>10. ASSUME NEW i \in 1 .. 2 * s
       PROVE  all[i] \in EntrySet /\ (all[i].base = NoBase => all[i].block = NoBlock)
  <2>1. CASE i <= s
    <3>1. PICK y \in 1 .. Len(entries) : all[i] = entries[y]
      BY <1>9, <2>1
    <3>2. entries[y] \in EntrySet
      BY <1>1, <3>1 DEF BlockTypes
    <3>3. entries[y].base = NoBase => entries[y].block = NoBlock
      BY <1>1, <3>1 DEF EntriesInv
    <3> QED
      BY ONLY <3>1, <3>2, <3>3
  <2>2. CASE ~(i <= s)
    BY <1>8, <1>9, <2>2
  <2> QED
    BY <2>1, <2>2
<1>11. all \in [1 .. 2 * s -> EntrySet]
  BY <1>6, <1>10
<1>12. \A i \in 1 .. s : i \in 1 .. 2 * s /\ i <= s
  BY ONLY s \in Nat \ {0}
<1>13. /\ \A i \in 1 .. s : all[i] = entries[Id(Newest, n - s + (i - 1), org)]
       /\ \A i \in 1 .. 2 * s : all[i].base = NoBase => all[i].block = NoBlock
  BY <1>9, <1>10, <1>12
<1>14. Copies(all, n, s, org)
  BY <1>7, <1>13 DEF Copies
<1> QED
  BY <1>3, <1>4, <1>11, <1>14

LEMMA GrowsIndex ==
    ASSUME ClaimInv, NEW n \in Nat, NEW blk, NEW org, NEW lim, Ghosts(n, blk, org, lim),
           Layout(n, blk, org, lim), NEW p, GetsReady(n, p),
           NEW blkp, \A k \in Nat : k < n => blkp[k] = blk[k],
           pr_blockIndexSlotsUsed = SizeOf(Header),
           headers' = Append(headers, GrownHeader), entries' = GrownEntries,
           pr_blockIndexFront' = pr_blockIndexSlotsUsed
    PROVE  /\ \E orgp, limp : IndexReady(n, p, blkp, orgp, limp)
           /\ SizeOf(Header)' = 2 * SizeOf(Header) /\ SizeOf(Header) \in Nat \ {0}
<1>1. /\ isExplicit /\ ppc = "idle" /\ ppc' # "block" /\ tailIndex = Base(n)
      /\ cpc' = cpc /\ loc' = loc /\ isExplicit' = isExplicit /\ p \in Nat /\ Written(p)' = n
      /\ \A m \in Nat : m < n => (Held(p, m)' => Held(n, m))
  BY DEF GetsReady
<1>2. /\ BlockTypes /\ n \in Nat /\ HeaderInv(n, org) /\ OldInv(n, org, lim)
      /\ EntriesInv(n, blk, org, lim)
  BY DEF Layout, Ghosts
<1>3. org \in [Nat -> Int] /\ lim \in [Nat -> Nat]
  BY DEF Ghosts
<1>4. Written(n) = n
  BY <1>1 DEF Written
<1>5. /\ Newest \in 1 .. Newest /\ Header = headers[Newest] /\ SizeOf(Header) \in Nat \ {0}
      /\ Newest \in Nat
  BY <1>2, NewestIs, HeaderIs
<1>6. PICK s \in Nat \ {0} : s = SizeOf(Header) /\ s = pr_blockIndexSlotsUsed
  BY <1>5
<1>7. PICK l \in Nat : l = Len(entries)
  BY <1>2 DEF BlockTypes
<1>8. /\ s <= n
      /\ GrownHeader = [cur |-> s - 1, slot |-> [i \in 0 .. 2 * s - 1 |-> l + i + 1]]
  BY <1>1, <1>6, <1>7, GrownIs
<1>9. PICK all \in [1 .. 2 * s -> EntrySet] :
         /\ GrownEntries = entries \o all
         /\ \A i \in 1 .. s : all[i] = entries[Id(Newest, n - s + (i - 1), org)]
         /\ \A i \in 1 .. 2 * s : all[i].base = NoBase => all[i].block = NoBlock
  <2>1. \E all \in [1 .. 2 * s -> EntrySet] : Copies(all, n, s, org)
    BY <1>1, <1>6, <1>7, GrownIs
  <2> QED
    BY <2>1 DEF Copies
<1>10. PICK f \in [0 .. 2 * s - 1 -> Nat] : f = [i \in 0 .. 2 * s - 1 |-> l + i + 1]
  <2>1. \A i \in 0 .. 2 * s - 1 : l + i + 1 \in Nat
    OBVIOUS
  <2> QED
    BY <2>1
<1>11. PICK x \in HeaderSet : /\ x = [cur |-> s - 1, slot |-> f] /\ headers' = Append(headers, x)
                              /\ x.cur = s - 1 /\ x.slot = f
  <2>1. 2 * s \in Nat \ {0} /\ s - 1 \in Int
    OBVIOUS
  <2>2. f \in SlotMaps
    BY <2>1 DEF SlotMaps
  <2>3. [cur |-> s - 1, slot |-> f] \in HeaderSet
    BY <2>1, <2>2 DEF HeaderSet
  <2> QED
    BY <1>8, <1>10, <2>3
<1>12. /\ entries' \in Seq(EntrySet) /\ Len(entries') = l + 2 * s
       /\ \A j \in 1 .. l : entries'[j] = entries[j]
       /\ \A i \in 1 .. 2 * s : entries'[l + i] = all[i]
  <2>1. PICK a \in Seq(EntrySet) : a = entries
    BY <1>2 DEF BlockTypes
  <2>2. PICK z \in Nat : z = 2 * s
    OBVIOUS
  <2>3. all \in [1 .. z -> EntrySet] /\ entries' = a \o all
    BY <1>9, <2>1, <2>2
  <2>4. /\ a \o all \in Seq(EntrySet) /\ Len(a \o all) = Len(a) + z
        /\ \A j \in 1 .. Len(a) : (a \o all)[j] = a[j]
        /\ \A i \in 1 .. z : (a \o all)[Len(a) + i] = all[i]
    BY <2>3, EntriesGrow
  <2> QED
    BY <1>7, <2>1, <2>2, <2>3, <2>4
<1>13. PICK orgp : orgp = [org EXCEPT ![Newest + 1] = n - s]
  OBVIOUS
<1>14. PICK limp : limp = [lim EXCEPT ![Newest] = n]
  OBVIOUS
<1>15. /\ orgp \in [Nat -> Int] /\ limp \in [Nat -> Nat] /\ orgp[Newest + 1] = n - s
       /\ limp[Newest] = n
       /\ \A h \in 1 .. Newest : orgp[h] = org[h]
       /\ \A h \in 1 .. Newest - 1 : limp[h] = lim[h]
  <2>1. PICK t \in Nat : t = Newest
    BY <1>5
  <2>2. n - s \in Int /\ n \in Nat /\ t + 1 \in Nat
    BY <1>2
  <2>3. /\ \A h \in 1 .. t : h \in Nat /\ h # t + 1
        /\ \A h \in 1 .. t - 1 : h \in Nat /\ h # t
    BY ONLY t \in Nat
  <2>4. orgp = [org EXCEPT ![t + 1] = n - s] /\ limp = [lim EXCEPT ![t] = n]
    BY <1>13, <1>14, <2>1
  <2>5. /\ orgp \in [Nat -> Int] /\ limp \in [Nat -> Nat] /\ orgp[t + 1] = n - s /\ limp[t] = n
        /\ \A h \in Nat : h # t + 1 => orgp[h] = org[h]
        /\ \A h \in Nat : h # t => limp[h] = lim[h]
    BY ONLY <1>3, <2>2, <2>4, t \in Nat
  <2> QED
    BY <2>1, <2>3, <2>5
<1>16. /\ headers' \in Seq(HeaderSet) /\ Newest' = Newest + 1 /\ Newest' # 0
       /\ Header' = x /\ headers'[Newest + 1] = x
       /\ \A h \in 1 .. Newest + 1 : h \in 1 .. Newest \/ h = Newest + 1
       /\ \A h \in 1 .. Newest : h # Newest + 1 /\ h \in 1 .. Newest + 1
       /\ \A h \in 1 .. Newest : headers'[h] = headers[h]
       /\ \A h \in 1 .. Newest : /\ \A k : Pos(h, k, orgp)' = Pos(h, k, org)
                                 /\ \A k : Id(h, k, orgp)' = Id(h, k, org)
  <2>1. BlockTypes /\ headers' = Append(headers, x) /\ \A h \in 1 .. Newest : orgp[h] = org[h]
    BY <1>2, <1>11, <1>15
  <2> QED
    BY <2>1, IndexGrows
<1>17. SizeOf(x) = 2 * s
  <2>1. Cardinality(0 .. 2 * s - 1) = 2 * s
    <3>1. 0 \in Int /\ 2 * s - 1 \in Int
      OBVIOUS
    <3>2. Cardinality(0 .. 2 * s - 1) = IF 0 > 2 * s - 1 THEN 0 ELSE (2 * s - 1) - 0 + 1
      BY <3>1, FS_Interval
    <3> QED
      BY <3>2
  <2> QED
    BY <1>11, <2>1 DEF SizeOf
<1>18. ASSUME NEW k \in Nat, n - s <= k, k <= n
       PROVE  \A g : g = Newest + 1 => Pos(g, k, orgp)' = k - (n - s)
  <2>1. k - (n - s) \in Nat /\ k - (n - s) < 2 * s /\ 2 * s \in Nat \ {0}
    BY ONLY <1>2, <1>18, s \in Nat \ {0}, k \in Nat
  <2>2. (k - (n - s)) % (2 * s) = k - (n - s)
    BY <2>1, SmallMod
  <2>3. TAKE g
  <2>4. HAVE g = Newest + 1
  <2>5. headers'[g] = x /\ orgp[g] = n - s
    BY <1>15, <1>16, <2>4
  <2> QED
    BY <1>17, <2>2, <2>5 DEF Pos, SizeOf
<1>19. PICK g \in Nat : g = Newest + 1 /\ Newest' = g /\ g \in 1 .. g
  <2>1. Newest + 1 \in Nat /\ Newest + 1 \in 1 .. Newest + 1
    BY <1>5
  <2> QED
    BY <1>16, <2>1
<1>20. \A k : Pos(Newest, k, orgp)' = Pos(g, k, orgp)' /\ Id(Newest, k, orgp)' = Id(g, k, orgp)'
  BY <1>19 DEF Id, Pos, SizeOf
<1>21. \A m \in Nat : m < n => (Kept(p, m)' => Kept(n, m))
  BY <1>1, <1>2, KeptShrinks
<1>22. \A c \in Consumers : WayInv(c, p, blkp, orgp, limp)'
  <2>1. ~isExplicit => ~Spare(n, org)
    BY <1>1
  <2>2. /\ cpc' = cpc /\ loc' = loc /\ isExplicit' = isExplicit /\ p \in Nat
        /\ Written(n) = n /\ tailIndex = Base(n)
    BY <1>1, <1>4
  <2>3. AddsIndex(n, x, org, lim, orgp, limp)
    BY <1>11, <1>15 DEF AddsIndex
  <2>4. \A k \in Nat : k < n => blkp[k] = blk[k]
    OBVIOUS
  <2> QED
    BY <2>1, <2>2, <2>3, <2>4, WaysGrow
\* The numbers that are kept have entries that are copies of those they had.
<1>23. ASSUME NEW m \in Nat, m < n, Kept(n, m)
       PROVE  /\ entries'[Id(g, m, orgp)'] = entries[Id(Newest, m, org)]
  <2>1. n - m <= s
    BY <1>6, <1>23, KeptNear
  <2>2. PICK i \in 1 .. 2 * s : /\ i \in 1 .. s /\ i - 1 = m - (n - s) /\ n - s + (i - 1) = m
                                /\ i - 1 \in 0 .. 2 * s - 1 /\ l + (i - 1) + 1 = l + i
    <3>1. PICK i \in Int : i = m - (n - s) + 1
      BY ONLY <1>2, s \in Nat \ {0}, m \in Nat
    <3>2. /\ i \in 1 .. 2 * s /\ i \in 1 .. s /\ i - 1 = m - (n - s) /\ n - s + (i - 1) = m
          /\ i - 1 \in 0 .. 2 * s - 1 /\ l + (i - 1) + 1 = l + i
      BY ONLY <1>2, <1>23, <2>1, <3>1, s \in Nat \ {0}, m \in Nat, l \in Nat, i \in Int
    <3> QED
      BY <3>2
  <2>3. n - s <= m /\ m <= n
    BY ONLY <1>2, <1>23, <2>1, s \in Nat \ {0}, m \in Nat
  <2>4. Pos(g, m, orgp)' = i - 1
    BY <1>18, <1>19, <2>2, <2>3
  <2>5. Id(g, m, orgp)' = f[i - 1] /\ f[i - 1] = l + i
    <3>1. f[i - 1] = l + (i - 1) + 1
      BY <1>10, <2>2
    <3> QED
      BY <1>11, <1>16, <1>19, <2>2, <2>4, <3>1 DEF Id
  <2> QED
    <3>1. all[i] = entries[Id(Newest, n - s + (i - 1), org)] /\ entries'[l + i] = all[i]
      BY <1>9, <1>12, <2>2
    <3>2. n - s + (i - 1) = m
      BY <2>2
    <3>3. all[i] = entries[Id(Newest, m, org)]
      BY ONLY <3>1, <3>2
    <3> QED
      BY ONLY <2>5, <3>1, <3>3
<1>30. ASSUME NEW h \in 1 .. Newest
       PROVE  /\ limp[h] \in Nat /\ limp[h] <= n /\ Limit(h, p, limp)' = limp[h]
              /\ Limit(h, n, lim) = limp[h]
              /\ headers[h].cur = Pos(h, limp[h] - 1, org)
  <2>1. h # g
    BY <1>16, <1>19
  <2>2. CASE h = Newest
    <3>1. Header.cur = Pos(Newest, n - 1, org)
      <4>1. n > 0
        BY <1>2, <1>8
      <4> QED
        BY <1>1, <1>2, <4>1 DEF HeaderInv
    <3> QED
      BY <1>2, <1>4, <1>5, <1>15, <1>19, <2>1, <2>2, <3>1 DEF Limit
  <2>3. CASE h # Newest
    <3>1. h \in 1 .. Newest - 1 /\ lim[h] \in Nat
      BY <1>2, <1>3, <2>3, IndexesAre
    <3>2. limp[h] = lim[h]
      BY <1>15, <3>1
    <3> QED
      BY <1>1, <1>2, <1>4, <1>19, <2>1, <2>3, <3>1, <3>2 DEF Limit, OldInv
  <2> QED
    BY <2>2, <2>3
<1>31. OldInv(p, orgp, limp)'
  <2>1. \A h \in 1 .. g - 1 : h \in 1 .. Newest
    BY ONLY <1>19, <1>5
  <2>2. ASSUME NEW h \in 1 .. g - 1
        PROVE  limp[h] <= n /\ headers'[h].cur = Pos(h, limp[h] - 1, orgp)'
    <3>1. h \in 1 .. Newest
      BY <2>1
    <3>2. limp[h] <= n /\ headers[h].cur = Pos(h, limp[h] - 1, org)
      BY <1>30, <3>1
    <3>3. headers'[h] = headers[h] /\ Pos(h, limp[h] - 1, orgp)' = Pos(h, limp[h] - 1, org)
      BY <1>16, <3>1
    <3> QED
      BY ONLY <3>2, <3>3
  <2>3. ASSUME NEW h \in 1 .. g - 1, NEW i \in DOMAIN headers'[h].slot, NEW j \in DOMAIN x.slot
        PROVE  headers'[h].slot[i] # x.slot[j]
    <3>1. headers'[h].slot[i] \in 1 .. l
      BY <1>2, <1>7, <1>16, <2>1, <2>3 DEF EntriesInv, GoodHeader
    <3>2. j \in 0 .. 2 * s - 1 /\ x.slot[j] = l + j + 1
      BY <1>10, <1>11
    <3>3. l + j + 1 \notin 1 .. l
      BY ONLY <3>2, l \in Nat, s \in Nat \ {0}
    <3> QED
      BY <3>1, <3>2, <3>3
  <2> QED
    <3>1. \A h \in 1 .. Newest' - 1 : limp[h] <= Written(p)' /\ headers'[h].cur = Pos(h, limp[h] - 1, orgp)'
      BY <1>1, <1>19, <2>2
    <3>2. \A h \in 1 .. Newest' - 1 : \A i \in DOMAIN headers'[h].slot : \A j \in DOMAIN Header'.slot :
            headers'[h].slot[i] # Header'.slot[j]
      <4> SUFFICES ASSUME NEW h \in 1 .. Newest' - 1, NEW i \in DOMAIN headers'[h].slot,
                          NEW j \in DOMAIN Header'.slot
                   PROVE  headers'[h].slot[i] # Header'.slot[j]
        OBVIOUS
      <4>1. h \in 1 .. g - 1 /\ j \in DOMAIN x.slot /\ Header' = x
        BY <1>16, <1>19
      <4> QED
        BY <2>3, <4>1
    <3> QED
      BY <1>1, <3>1, <3>2 DEF OldInv
<1>32. SizeOf(Header') = 2 * s /\ SizeOf(Header)' = 2 * s
  BY <1>16, <1>17 DEF SizeOf
<1>33. Pos(g, n, orgp)' = s /\ Pos(g, n - 1, orgp)' = s - 1
  <2>1. n - s <= n /\ n <= n /\ n - (n - s) = s
        /\ n - s <= n - 1 /\ n - 1 <= n /\ (n - 1) - (n - s) = s - 1 /\ n - 1 \in Nat
    BY ONLY <1>2, <1>8, s \in Nat \ {0}
  <2> QED
    BY <1>2, <1>18, <1>19, <2>1
<1>34. /\ Header'.cur = Pos(Newest, n - 1, orgp)'
       /\ pr_blockIndexFront' = Pos(Newest, n, orgp)'
  BY <1>6, <1>11, <1>16, <1>20, <1>33
<1>36. ASSUME NEW h \in 1 .. g PROVE GoodHeader(headers[h])'
  <2>1. CASE h \in 1 .. Newest
    <3>1. GoodHeader(headers[h]) /\ headers'[h] = headers[h]
      BY <1>2, <1>16, <2>1 DEF EntriesInv
    <3>2. \A j \in 1 .. l : j \in 1 .. l + 2 * s
      BY ONLY l \in Nat, s \in Nat \ {0}
    <3> QED
      BY <1>7, <1>12, <3>1, <3>2 DEF GoodHeader
  <2>2. CASE h = g
    <3>1. headers'[h].slot = f /\ DOMAIN f = 0 .. 2 * s - 1
      BY <1>10, <1>11, <1>16, <1>19, <2>2
    <3>2. /\ \A i \in 0 .. 2 * s - 1 : l + i + 1 \in 1 .. l + 2 * s
          /\ \A i, j \in 0 .. 2 * s - 1 : l + i + 1 = l + j + 1 => i = j
      BY ONLY s \in Nat \ {0}, l \in Nat
    <3>3. \A i \in 0 .. 2 * s - 1 : f[i] = l + i + 1
      BY <1>10
    <3> QED
      <4>1. \A i \in 0 .. 2 * s - 1 : f[i] \in 1 .. Len(entries')
        BY <1>12, <3>2, <3>3
      <4>2. \A i, j \in 0 .. 2 * s - 1 : f[i] = f[j] => i = j
        BY <3>2, <3>3
      <4> QED
        BY <3>1, <4>1, <4>2 DEF GoodHeader
  <2> QED
    BY <1>16, <1>19, <2>1, <2>2
<1>37. ASSUME NEW h \in 1 .. g, NEW m \in Nat, m < (IF h = g THEN n ELSE limp[h])
       PROVE  /\ Kept(p, m)' => entries'[Id(h, m, orgp)'].base = Base(m)
              /\ Held(p, m)' => entries'[Id(h, m, orgp)'].block = blkp[m]
  <2>0. /\ m < n /\ (Held(n, m) => Kept(n, m)) /\ (Kept(p, m)' => Kept(n, m))
        /\ (Held(p, m)' => Held(n, m)) /\ blkp[m] = blk[m]
    <3>1. m \in 0 .. m
      OBVIOUS
    <3>2. m < n
      <4>1. CASE h = g
        BY <1>37, <4>1
      <4>2. CASE h \in 1 .. Newest
        <5>1. h # g /\ limp[h] \in Nat /\ limp[h] <= n
          BY <1>16, <1>19, <1>30, <4>2
        <5> QED
          BY <1>2, <1>37, <5>1
      <4> QED
        BY <1>16, <1>19, <4>1, <4>2
    <3> QED
      BY <1>1, <1>21, <3>1, <3>2 DEF Kept
  <2>1. CASE h \in 1 .. Newest
    <3>1. h # g /\ limp[h] = Limit(h, n, lim) /\ limp[h] \in Nat
      BY <1>16, <1>19, <1>30, <2>1
    <3>2. m \in 0 .. Limit(h, n, lim) - 1
      BY <1>37, <3>1
    <3>3. PICK y \in 1 .. l : y = Id(h, m, org)
      <4>1. Id(h, m, org) \in 1 .. Len(entries)
        BY <2>1, m \in Int, EntryIs
      <4> QED
        BY <1>7, <4>1
    <3>4. /\ Kept(n, m) => entries[y].base = Base(m)
          /\ Held(n, m) => entries[y].block = blk[m]
      BY <1>2, <2>1, <3>2, <3>3 DEF EntriesInv
    <3>5. Id(h, m, orgp)' = y /\ entries'[y] = entries[y]
      BY <1>12, <1>16, <2>1, <3>3
    <3> QED
      BY <2>0, <3>4, <3>5
  <2>2. CASE h = g
    <3>2. m \in 0 .. Limit(Newest, n, lim) - 1
      <4>1. Limit(Newest, n, lim) = n
        BY <1>4 DEF Limit
      <4> QED
        BY <1>2, <2>0, <4>1
    <3>4. /\ Kept(n, m) => entries[Id(Newest, m, org)].base = Base(m)
          /\ Held(n, m) => entries[Id(Newest, m, org)].block = blk[m]
      BY <1>2, <1>5, <3>2 DEF EntriesInv
    <3>5. Kept(n, m) => entries'[Id(g, m, orgp)'] = entries[Id(Newest, m, org)]
      BY <1>23, <2>0
    <3> QED
      BY <2>0, <2>2, <3>4, <3>5
  <2> QED
    BY <1>16, <1>19, <2>1, <2>2
<1>38. \A e \in 1 .. Len(entries') : entries'[e].base = NoBase => entries'[e].block = NoBlock
  <2>1. PICK z \in Nat : z = 2 * s
    OBVIOUS
  <2>2. \A j \in 1 .. l + z : j \in 1 .. l \/ (j - l \in 1 .. z /\ l + (j - l) = j)
    BY Behind
  <2>3. ASSUME NEW e \in 1 .. l + z, entries'[e].base = NoBase PROVE entries'[e].block = NoBlock
    <3>1. CASE e \in 1 .. l
      BY <1>2, <1>7, <1>12, <2>3, <3>1 DEF EntriesInv
    <3>2. CASE e - l \in 1 .. z /\ l + (e - l) = e
      <4>1. PICK i \in 1 .. 2 * s : l + i = e
        BY <2>1, <3>2
      <4>2. entries'[e] = all[i]
        BY <1>12, <4>1
      <4> QED
        BY <1>9, <2>3, <4>2
    <3> QED
      BY <2>2, <3>1, <3>2
  <2> QED
    BY <1>12, <2>1, <2>3
<1>39. EntriesInv(p, blkp, orgp, limp)'
  <2>1. ASSUME NEW h \in 1 .. g, NEW m \in 0 .. Limit(h, p, limp)' - 1
        PROVE  /\ Kept(p, m)' => entries'[Id(h, m, orgp)'].base = Base(m)
               /\ Held(p, m)' => entries'[Id(h, m, orgp)'].block = blkp[m]
    <3>1. Limit(h, p, limp)' = (IF h = g THEN n ELSE limp[h])
      BY <1>1, <1>19 DEF Limit
    <3>2. limp[h] \in Nat
      BY <1>15, h \in Nat
    <3>3. PICK q \in Nat : q = Limit(h, p, limp)' /\ q = IF h = g THEN n ELSE limp[h]
      BY <1>2, <3>1, <3>2
    <3>4. m \in Nat /\ m < q
      BY <3>3
    <3> QED
      BY <1>37, <3>3, <3>4
  <2> QED
    BY <1>1, <1>19, <1>36, <1>38, <2>1 DEF EntriesInv
<1>40. IndexReady(n, p, blkp, orgp, limp)
  BY <1>12, <1>15, <1>16, <1>22, <1>31, <1>34, <1>39 DEF IndexReady
<1> QED
  BY <1>6, <1>32, <1>40

\* The index has room for one more block.
LEMMA RoomInIndex ==
    ASSUME ClaimInv, NEW n \in Nat, NEW blk, NEW org, NEW lim, Ghosts(n, blk, org, lim),
           Layout(n, blk, org, lim), Enqueue_NewBlock, NEW p, GetsReady(n, p),
           NEW blkp, \A k \in Nat : k < n => blkp[k] = blk[k]
    PROVE  \E orgp, limp : /\ IndexReady(n, p, blkp, orgp, limp)
                           /\ SizeOf(Header)' \in Nat /\ Len(ring) + 1 <= SizeOf(Header)'
<1>1. /\ BlockTypes /\ HeaderInv(n, org) /\ isExplicit
  BY DEF Layout, GetsReady
<1>2. PICK s \in Nat \ {0} : s = SizeOf(Header)
  BY <1>1, NewestIs, HeaderIs
<1>3. PICK q \in Nat : q = Len(ring) /\ q = pr_blockIndexSlotsUsed /\ q <= s
  <2>1. Len(ring) \in Nat
    BY <1>1 DEF BlockTypes
  <2> QED
    BY <1>1, <1>2, <2>1 DEF HeaderInv
<1>4. CASE pr_blockIndexSlotsUsed = SizeOf(Header)
  <2>1. /\ headers' = Append(headers, GrownHeader) /\ entries' = GrownEntries
        /\ pr_blockIndexFront' = pr_blockIndexSlotsUsed
    BY <1>4 DEF Enqueue_NewBlock
  <2>2. \A k \in Nat : k < n => blkp[k] = blk[k]
    OBVIOUS
  <2>3. PICK orgp, limp : IndexReady(n, p, blkp, orgp, limp)
    BY <1>4, <2>1, <2>2, GrowsIndex
  <2>4. SizeOf(Header)' = 2 * s
    BY <1>2, <1>4, <2>1, <2>2, GrowsIndex
  <2>5. 2 * s \in Nat /\ q + 1 <= 2 * s
    BY ONLY <1>3, s \in Nat \ {0}, q \in Nat
  <2> QED
    BY <1>3, <2>3, <2>4, <2>5
<1>5. CASE pr_blockIndexSlotsUsed # SizeOf(Header)
  <2>1. /\ headers' = headers /\ entries' = entries /\ pr_blockIndexFront' = pr_blockIndexFront
    BY <1>5 DEF Enqueue_NewBlock
  <2>2. \A k \in Nat : k < n => blkp[k] = blk[k]
    OBVIOUS
  <2>3. IndexReady(n, p, blkp, org, lim) /\ SizeOf(Header)' = s
    BY <1>2, <2>1, <2>2, KeepsIndex
  <2>4. q + 1 <= s
    BY ONLY <1>2, <1>3, <1>5, s \in Nat \ {0}, q \in Nat
  <2> QED
    BY <1>3, <2>3, <2>4
<1> QED
  BY <1>4, <1>5

\* A block is inserted behind the tail block.
LEMMA InsertsBlock ==
    ASSUME ClaimInv, NEW n \in Nat, NEW blk, NEW org, NEW lim, Ghosts(n, blk, org, lim),
           Layout(n, blk, org, lim), Enqueue_NewBlock,
           NEW b \in RequisitionBlock, home' = [home EXCEPT ![b] = "used"],
           emptyFlags' = [emptyFlags EXCEPT ![b] = {}], ring' = Append(ring, b),
           pr_blockIndexSlotsUsed' = pr_blockIndexSlotsUsed + 1, ppc' = "entry"
    PROVE  \E p, blkp, orgp, limp :
              Ghosts(p, blkp, orgp, limp) /\ Layout(p, blkp, orgp, limp)'
<1>1. /\ isExplicit /\ ppc = "idle" /\ AtBoundary
      /\ isExplicit' = isExplicit /\ tailIndex' = tailIndex
      /\ cpc' = cpc /\ loc' = loc /\ headIndex' = headIndex
      /\ elements' = elements /\ elementsCompletelyDequeued' = elementsCompletelyDequeued
  BY DEF Enqueue_NewBlock, CanEnqueue, consVars
<1>2. /\ BlockTypes /\ TailInv(n) /\ HeaderInv(n, org) /\ BlocksInv(n, blk)
      /\ blk \in [Nat -> Nat]
  BY DEF Layout, Ghosts
<1>3. tailIndex = Base(n) /\ Base(n) \in Nat
  BY <1>1, <1>2, AtBoundaryIs
<1>4. b \in Blocks /\ home[b] # "used" /\ Vacant(b) /\ b \in Nat
  <2>1. b \in Blocks /\ home[b] # "used"
    BY BlockIsFree
  <2>2. Vacant(b)
    BY <1>2, <2>1 DEF BlocksInv
  <2>3. b \in Nat
    BY ONLY <2>1, ProducerAssumption DEF Blocks
  <2> QED
    BY <2>1, <2>2, <2>3
<1>5. PICK p \in Nat : p = n + 1 /\ p - 1 = n
  BY n + 1 \in Nat /\ (n + 1) - 1 = n
<1>6. PICK blkp \in [Nat -> Nat] : blkp = [blk EXCEPT ![n] = b]
  BY <1>2, <1>4
<1>7. blkp[n] = b /\ \A k \in Nat : k # n => blkp[k] = blk[k]
  BY <1>2, <1>6
<1>8. \A i \in Nat : Taken(i)' <=> Taken(i)
  BY <1>1, NothingTaken
<1>9. Built = Base(n) /\ Built' = Base(n)
  BY <1>1, <1>3 DEF Built
<1>10. \A i \in Nat : Content(i)' = Content(i)
  BY <1>8, <1>9 DEF Content
<1>11. \A o \in Offsets : elements'[b][o] = Content(Base(n) + o)'
  <2> SUFFICES ASSUME NEW o \in Offsets PROVE elements'[b][o] = Content(Base(n) + o)'
    OBVIOUS
  <2>1. PICK i \in Nat : i = Base(n) + o /\ ~(i < Base(n))
    <3>1. Base(n) + o \in Nat /\ Base(n) <= Base(n) + o
      BY ElementIs
    <3> QED
      BY <1>3, <3>1
  <2>2. elements'[b][o] = Gone
    BY <1>1, <1>4 DEF Vacant
  <2>3. Content(i)' = Gone
    BY <1>9, <2>1 DEF Content
  <2> QED
    BY <2>1, <2>2, <2>3
<1>12. /\ home'[b] = "used" /\ \A a \in Blocks : a # b => home'[a] = home[a]
       /\ home' \in [Blocks -> {"pool", "list", "heap", "used"}]
       /\ emptyFlags'[b] = {} /\ \A a \in Blocks : a # b => emptyFlags'[a] = emptyFlags[a]
       /\ emptyFlags' \in [Blocks -> SUBSET Offsets]
  BY <1>2, <1>4 DEF BlockTypes
<1>13. BlocksInv(p, blkp)' /\ RingInv(p, blkp)' /\ ring' \in Seq(Blocks)
  <2>1. ComesIntoUse(n, b)
    BY <1>1, <1>4, <1>10, <1>11, <1>12 DEF ComesIntoUse
  <2>2. AddsBlock(n, b, p, blk, blkp)
    BY <1>5, <1>7 DEF AddsBlock
  <2> QED
    BY <1>1, <1>3, <2>1, <2>2, BlockAdded
<1>14. \A k \in Nat : Held(p, k)' <=> Held(n, k) \/ k = n
  BY <1>1, <1>2, <1>3, <1>4, <1>5, OneMoreUsed
<1>15. GetsReady(n, p)
  <2>1. Written(p)' = n
    BY <1>5 DEF Written
  <2>2. \A m \in Nat : m < n => (Held(p, m)' => Held(n, m))
    BY <1>14
  <2> QED
    BY <1>1, <1>3, <1>5, <2>1, <2>2 DEF GetsReady
<1>16. PICK orgp, limp : /\ IndexReady(n, p, blkp, orgp, limp)
                         /\ SizeOf(Header)' \in Nat /\ Len(ring) + 1 <= SizeOf(Header)'
  <2>1. \A k \in Nat : k < n => blkp[k] = blk[k]
    BY <1>7
  <2> QED
    BY <1>15, <2>1, RoomInIndex
<1>17. /\ pr_blockIndexSlotsUsed' = Len(ring') /\ Len(ring') = Len(ring) + 1 /\ Len(ring') <= p
  <2>1. ring \in Seq(Blocks) /\ Len(ring) \in Nat /\ Len(ring') = Len(ring) + 1
    BY <1>2, <1>4 DEF BlockTypes
  <2>2. pr_blockIndexSlotsUsed = Len(ring) /\ Len(ring) <= n
    BY <1>1, <1>2 DEF HeaderInv
  <2> QED
    BY <1>5, <2>1, <2>2
<1>18. Ghosts(p, blkp, orgp, limp) /\ Layout(p, blkp, orgp, limp)'
  BY <1>1, <1>5, <1>12, <1>13, <1>15, <1>16, <1>17, ReadyLayout
<1> QED
  BY <1>18

\* No block: the index may have grown.
LEMMA InsertsNothing ==
    ASSUME ClaimInv, NEW n \in Nat, NEW blk, NEW org, NEW lim, Ghosts(n, blk, org, lim),
           Layout(n, blk, org, lim), Enqueue_NewBlock,
           UNCHANGED <<home, emptyFlags, ring, pr_blockIndexSlotsUsed, ppc>>
    PROVE  \E p, blkp, orgp, limp :
              Ghosts(p, blkp, orgp, limp) /\ Layout(p, blkp, orgp, limp)'
<1>1. /\ isExplicit /\ ppc = "idle" /\ AtBoundary /\ ppc' = ppc
      /\ isExplicit' = isExplicit /\ tailIndex' = tailIndex /\ ring' = ring
      /\ pr_blockIndexSlotsUsed' = pr_blockIndexSlotsUsed
      /\ cpc' = cpc /\ loc' = loc /\ headIndex' = headIndex /\ home' = home
      /\ emptyFlags' = emptyFlags
      /\ elements' = elements /\ elementsCompletelyDequeued' = elementsCompletelyDequeued
  BY DEF Enqueue_NewBlock, CanEnqueue, consVars
<1>2. /\ BlockTypes /\ TailInv(n) /\ HeaderInv(n, org) /\ BlocksInv(n, blk) /\ RingInv(n, blk)
      /\ blk \in [Nat -> Nat]
  BY DEF Layout, Ghosts
<1>3. tailIndex = Base(n)
  BY <1>1, <1>2, AtBoundaryIs
<1>4. /\ \A i \in Nat : (Done(i)' <=> Done(i)) /\ (Taken(i)' <=> Taken(i))
      /\ \A k \in Nat : Full(k)' <=> Full(k)
  BY <1>1, NothingTaken
<1>5. \A k \in Nat : (InUse(n, k)' <=> InUse(n, k)) /\ (Held(n, k)' <=> Held(n, k))
  BY <1>1, NoBlockTaken
<1>6. BlocksInv(n, blk)' /\ RingInv(n, blk)'
  <2>1. Built' = Built
    BY <1>1 DEF Built
  <2> QED
    BY <1>1, <1>2, <1>4, <1>5, <2>1, BlocksStay, RingStays
<1>7. GetsReady(n, n)
  <2>1. Written(n)' = n
    BY <1>1 DEF Written
  <2> QED
    BY <1>1, <1>3, <1>5, <2>1 DEF GetsReady
<1>8. PICK orgp, limp : /\ IndexReady(n, n, blk, orgp, limp)
                        /\ SizeOf(Header)' \in Nat /\ Len(ring) + 1 <= SizeOf(Header)'
  <2>1. \A k \in Nat : k < n => blk[k] = blk[k]
    OBVIOUS
  <2> QED
    BY <1>7, <2>1, RoomInIndex
<1>9. /\ pr_blockIndexSlotsUsed' = Len(ring') /\ Len(ring') <= n /\ Len(ring') <= SizeOf(Header)'
      /\ ring' \in Seq(Blocks)
  <2>1. ring \in Seq(Blocks) /\ Len(ring) \in Nat
    BY <1>2 DEF BlockTypes
  <2>2. pr_blockIndexSlotsUsed = Len(ring) /\ Len(ring) <= n
    BY <1>1, <1>2 DEF HeaderInv
  <2>3. PICK z \in Nat : z = SizeOf(Header)' /\ Len(ring) + 1 <= z
    BY <1>8
  <2>4. Len(ring) <= z
    BY ONLY <2>1, <2>3
  <2> QED
    BY <1>1, <2>1, <2>2, <2>3, <2>4
<1>10. /\ emptyFlags' \in [Blocks -> SUBSET Offsets]
       /\ home' \in [Blocks -> {"pool", "list", "heap", "used"}]
  BY <1>1, <1>2 DEF BlockTypes
<1>11. Ghosts(n, blk, orgp, limp) /\ Layout(n, blk, orgp, limp)'
  BY <1>1, <1>2, <1>6, <1>7, <1>8, <1>9, <1>10, ReadyLayout
<1> QED
  BY <1>11

LEMMA AppendIs ==
    ASSUME NEW S, NEW t \in Seq(S), NEW b \in S
    PROVE  /\ Append(t, b) \in Seq(S) /\ Len(Append(t, b)) = Len(t) + 1
           /\ Append(t, b)[Len(t) + 1] = b
           /\ \A j \in 1 .. Len(t) : Append(t, b)[j] = t[j]
OBVIOUS

\* The block ahead is empty: it becomes the tail block with the next number.
LEMMA ReusesBlock ==
    ASSUME ClaimInv, NEW n \in Nat, NEW blk, NEW org, NEW lim, Ghosts(n, blk, org, lim),
           Layout(n, blk, org, lim), Enqueue_Reuse
    PROVE  \E p, blkp, orgp, limp :
              Ghosts(p, blkp, orgp, limp) /\ Layout(p, blkp, orgp, limp)'
<1>1. /\ isExplicit /\ ppc = "idle" /\ AtBoundary /\ ppc' = "entry"
      /\ ring # <<>> /\ emptyFlags[Head(ring)] = Offsets
      /\ ring' = Append(Tail(ring), Head(ring))
      /\ emptyFlags' = [emptyFlags EXCEPT ![Head(ring)] = {}]
      /\ isExplicit' = isExplicit /\ tailIndex' = tailIndex
      /\ headers' = headers /\ entries' = entries /\ home' = home
      /\ pr_blockIndexSlotsUsed' = pr_blockIndexSlotsUsed
      /\ pr_blockIndexFront' = pr_blockIndexFront
      /\ cpc' = cpc /\ loc' = loc /\ headIndex' = headIndex
      /\ elements' = elements /\ elementsCompletelyDequeued' = elementsCompletelyDequeued
  BY DEF Enqueue_Reuse, CanEnqueue, consVars, Reusable, IsEmptyExplicit
<1>2. /\ BlockTypes /\ TailInv(n) /\ HeaderInv(n, org) /\ BlocksInv(n, blk) /\ RingInv(n, blk)
      /\ blk \in [Nat -> Nat]
  BY DEF Layout, Ghosts
<1>3. tailIndex = Base(n) /\ Base(n) \in Nat
  BY <1>1, <1>2, AtBoundaryIs
<1>4. PICK q \in Nat : q = Len(ring) /\ q > 0 /\ q <= n /\ pr_blockIndexSlotsUsed = q
  <2>1. ring \in Seq(Blocks) /\ Len(ring) \in Nat /\ Len(ring) > 0
    <3>1. ring \in Seq(Blocks) /\ ring # <<>>
      BY <1>1, <1>2 DEF BlockTypes
    <3> QED
      BY ONLY <3>1
  <2> QED
    BY <1>1, <1>2, <2>1 DEF HeaderInv
\* The number it had.
<1>5. PICK z \in Nat : /\ z = n - q /\ z < n /\ z \in 0 .. n - 1 /\ z >= n - q
                       /\ n - q + 1 - 1 = z /\ z + 1 = (n + 1) - q
  <2>1. /\ n - q \in Nat /\ n - q < n /\ n - q \in 0 .. n - 1 /\ n - q >= n - q
        /\ n - q + 1 - 1 = n - q /\ (n - q) + 1 = (n + 1) - q
    BY ONLY <1>4, n \in Nat, q \in Nat
  <2> QED
    BY <2>1
<1>6. PICK b \in Blocks : b = Head(ring) /\ b = blk[z]
  <2>1. 1 \in 1 .. Len(ring) /\ Head(ring) = ring[1] /\ ring[1] \in Blocks
    BY <1>2, <1>4 DEF BlockTypes
  <2>2. ring[1] = blk[n - Len(ring) + 1 - 1]
    BY <1>1, <1>2, <2>1 DEF RingInv
  <2> QED
    BY <1>4, <1>5, <2>1, <2>2
<1>7. \A k \in Nat : InUse(n, k) <=> z <= k /\ k < n
  <2>1. \A k \in Nat : InUse(n, k) <=> k \in 0 .. n - 1 /\ k >= n - q
    BY <1>1, <1>4 DEF InUse, Used
  <2> QED
    BY <1>5, <2>1
<1>8. home[b] = "used" /\ DoneIn(z) = Offsets /\ Vacant(b)
  <2>1. InUse(n, z)
    BY <1>5, <1>7
  <2>2. Holding(z, b)
    BY <1>2, <1>6, <2>1 DEF BlocksInv
  <2>3. DoneIn(z) = Offsets
    BY <1>1, <1>6, <2>2 DEF Holding
  <2>4. \A o \in Offsets : Content(Base(z) + o) = Gone
    BY <2>3, DoneIsTaken DEF DoneIn, Content
  <2> QED
    BY <2>2, <2>3, <2>4 DEF Holding, Vacant
<1>9. Full(z)
  BY <1>8 DEF DoneIn, Full
<1>10. PICK p \in Nat : p = n + 1 /\ p - 1 = n /\ z + 1 = p - q
  BY <1>5, n + 1 \in Nat /\ (n + 1) - 1 = n
<1>11. PICK blkp \in [Nat -> Nat] : blkp = [blk EXCEPT ![n] = b]
  <2>1. b \in Nat
    BY ProducerAssumption DEF Blocks
  <2> QED
    BY <1>2, <2>1
<1>12. blkp[n] = b /\ \A k \in Nat : k # n => blkp[k] = blk[k]
  BY <1>2, <1>11
<1>13. /\ \A i \in Nat : (Done(i)' <=> Done(i)) /\ (Taken(i)' <=> Taken(i))
       /\ \A k \in Nat : (Full(k)' <=> Full(k)) /\ DoneIn(k)' = DoneIn(k)
  BY <1>1, NothingTaken
<1>14. Built = Base(n) /\ Built' = Base(n)
  BY <1>1, <1>3 DEF Built
<1>15. \A i \in Nat : Content(i)' = Content(i)
  BY <1>13, <1>14 DEF Content
<1>16. /\ ring' \in Seq(Blocks) /\ Len(ring') = q /\ ring'[q] = b
       /\ \A j \in 1 .. q - 1 : ring'[j] = ring[j + 1] /\ j + 1 \in 1 .. q
  <2>1. PICK r \in Seq(Blocks) : r = ring
    BY <1>2 DEF BlockTypes
  <2>2. PICK t : t = Tail(r)
    OBVIOUS
  <2>3. t \in Seq(Blocks) /\ Len(t) = q - 1 /\ \A j \in 1 .. q - 1 : t[j] = r[j + 1]
    BY ONLY <1>4, <2>1, <2>2, q \in Nat
  <2>4. ring' = Append(t, b)
    BY <1>1, <1>6, <2>1, <2>2
  <2>5. /\ ring' \in Seq(Blocks) /\ Len(ring') = q - 1 + 1 /\ ring'[q - 1 + 1] = b
        /\ \A j \in 1 .. q - 1 : ring'[j] = t[j]
    <3>1. /\ Append(t, b) \in Seq(Blocks) /\ Len(Append(t, b)) = Len(t) + 1
          /\ Append(t, b)[Len(t) + 1] = b
          /\ \A j \in 1 .. Len(t) : Append(t, b)[j] = t[j]
      <4>1. t \in Seq(Blocks) /\ b \in Blocks
        BY <2>3
      <4> QED
        BY ONLY <4>1, AppendIs
    <3> QED
      BY <2>3, <2>4, <3>1
  <2>6. q - 1 + 1 = q /\ \A j \in 1 .. q - 1 : j + 1 \in 1 .. q
    BY ONLY <1>4, q \in Nat
  <2> QED
    BY <2>1, <2>3, <2>5, <2>6
<1>17. \A k \in Nat : /\ InUse(p, k)' <=> z < k /\ k <= n
                      /\ Held(p, k)' <=> z < k /\ k <= n
  <2>1. \A k \in Nat : /\ InUse(p, k)' <=> k \in 0 .. p - 1 /\ k >= p - q
                       /\ Held(p, k)' <=> k \in 0 .. p - 1 /\ k >= p - q
    BY <1>1, <1>16 DEF InUse, Held, Used
  <2>2. \A k \in Nat : k \in 0 .. p - 1 /\ k >= p - q <=> z < k /\ k <= n
    BY ONLY <1>10, z \in Nat, n \in Nat, p \in Nat, q \in Nat
  <2> QED
    BY <2>1, <2>2
<1>18. ASSUME NEW k \in Nat, z < k, k < n
       PROVE  InUse(n, k) /\ blk[k] # b /\ blkp[k] = blk[k] /\ Holding(k, blk[k])'
  <2>1. InUse(n, k) /\ InUse(n, z) /\ k # z /\ k # n
    BY <1>5, <1>7, <1>18
  <2>2. blk[k] # b /\ blkp[k] = blk[k]
    BY <1>2, <1>6, <1>12, <2>1 DEF BlocksInv
  <2>3. PICK a \in Blocks : a = blk[k] /\ Holding(k, a)
    BY <1>2, <2>1 DEF BlocksInv, Holding
  <2>4. emptyFlags'[a] = emptyFlags[a]
    BY <1>1, <1>2, <1>6, <2>2, <2>3 DEF BlockTypes
  <2>5. \A o \in Offsets : Base(k) + o \in Nat
    BY ElementIs
  <2>6. Holding(k, a)'
    BY <1>1, <1>13, <1>15, <2>3, <2>4, <2>5 DEF Holding
  <2> QED
    BY <2>1, <2>2, <2>3, <2>6
<1>19. Holding(n, b)'
  <2>1. emptyFlags'[b] = {} /\ DoneIn(n)' = {}
    BY <1>1, <1>2, <1>3, <1>6, <1>13, NextIsEmpty DEF BlockTypes
  <2>2. \A o \in Offsets : elements'[b][o] = Content(Base(n) + o)'
    <3> SUFFICES ASSUME NEW o \in Offsets PROVE elements'[b][o] = Content(Base(n) + o)'
      OBVIOUS
    <3>1. PICK i \in Nat : i = Base(n) + o /\ ~(i < Base(n))
      <4>1. Base(n) + o \in Nat /\ Base(n) <= Base(n) + o
        BY ElementIs
      <4> QED
        BY <1>3, <4>1
    <3>2. elements'[b][o] = Gone /\ Content(i)' = Gone
      BY <1>1, <1>8, <1>14, <3>1 DEF Vacant, Content
    <3> QED
      BY <3>1, <3>2
  <2> QED
    BY <1>1, <1>8, <2>1, <2>2 DEF Holding
<1>20. BlocksInv(p, blkp)'
  <2>1. ASSUME NEW k \in Nat, InUse(p, k)'
        PROVE  Holding(k, blkp[k])' /\ (k = n \/ (z < k /\ k < n /\ k # n))
    <3>1. k = n \/ (z < k /\ k < n /\ k # n)
      BY <1>17, <2>1
    <3> QED
      BY <1>12, <1>18, <1>19, <3>1
  <2>2. ASSUME NEW j \in Nat, NEW k \in Nat, InUse(p, j)', InUse(p, k)', blkp[j] = blkp[k]
        PROVE  j = k
    <3>1. /\ j = n \/ (z < j /\ j < n /\ j # n)
          /\ k = n \/ (z < k /\ k < n /\ k # n)
      BY <2>1, <2>2
    <3> QED
      BY <1>2, <1>12, <1>18, <2>2, <3>1 DEF BlocksInv
  <2>3. ASSUME NEW a \in Blocks, home'[a] = "used" PROVE \E k \in Nat : InUse(p, k)' /\ blkp[k] = a
    <3>1. PICK k \in Nat : InUse(n, k) /\ blk[k] = a
      BY <1>1, <1>2, <2>3 DEF BlocksInv
    <3>2. z <= k /\ k < n
      BY <1>7, <3>1
    <3>3. CASE k = z
      <4>1. InUse(p, n)' /\ blkp[n] = a
        BY <1>5, <1>6, <1>12, <1>17, <3>1, <3>3
      <4> QED
        BY <4>1
    <3>4. CASE k # z
      <4>1. z < k /\ k <= n /\ k # n
        BY <3>2, <3>4
      <4> QED
        BY <1>12, <1>17, <3>1, <4>1
    <3> QED
      BY <3>3, <3>4
  <2>4. \A a \in Blocks : home'[a] # "used" => Vacant(a)'
    BY <1>1, <1>2 DEF BlocksInv, Vacant
  <2> QED
    BY <2>1, <2>2, <2>3, <2>4 DEF BlocksInv
<1>21. RingInv(p, blkp)'
  <2>1. ASSUME NEW j \in 1 .. q PROVE ring'[j] = blkp[p - q + j - 1]
    <3>1. CASE j = q
      <4>1. p - q + j - 1 = n
        BY ONLY <1>10, <3>1, n \in Nat, p \in Nat, q \in Nat
      <4> QED
        BY <1>12, <1>16, <3>1, <4>1
    <3>2. CASE j # q
      <4>1. PICK i \in Nat : i = p - q + j - 1 /\ i = n - q + (j + 1) - 1 /\ i # n /\ j \in 1 .. q - 1
        <5>1. /\ p - q + j - 1 \in Nat /\ p - q + j - 1 = n - q + (j + 1) - 1 /\ p - q + j - 1 # n
              /\ j \in 1 .. q - 1
          <6>1. q > 0 /\ q <= n /\ p = n + 1
            BY <1>4, <1>10
          <6> QED
            BY ONLY <3>2, <6>1, n \in Nat, p \in Nat, q \in Nat, j \in 1 .. q
        <5> QED
          BY <5>1
      <4>2. ring'[j] = ring[j + 1] /\ j + 1 \in 1 .. Len(ring)
        BY <1>4, <1>16, <4>1
      <4>3. ring[j + 1] = blk[n - Len(ring) + (j + 1) - 1]
        BY <1>1, <1>2, <4>2 DEF RingInv
      <4> QED
        BY <1>4, <1>12, <4>1, <4>2, <4>3
    <3> QED
      BY <3>1, <3>2
  <2>2. ASSUME NEW k \in Nat, k < p - q PROVE Full(k)'
    <3>1. k < n - q \/ k = z
      BY ONLY <1>5, <1>10, <2>2, n \in Nat, p \in Nat, q \in Nat, k \in Nat, z \in Nat
    <3> QED
      BY <1>1, <1>2, <1>4, <1>9, <1>13, <3>1 DEF RingInv
  <2> QED
    BY <1>1, <1>16, <2>1, <2>2 DEF RingInv
<1>22. GetsReady(n, p)
  <2>1. Written(p)' = n
    BY <1>1, <1>10 DEF Written
  <2>2. ASSUME NEW m \in Nat, m < n, Held(p, m)' PROVE Held(n, m)
    <3>1. m \in 0 .. n - 1 /\ m >= n - q
      <4>1. z < m
        BY <1>17, <2>2
      <4> QED
        BY ONLY <1>5, <2>2, <4>1, n \in Nat, q \in Nat, m \in Nat, z \in Nat
    <3> QED
      BY <1>1, <1>4, <3>1 DEF Held, Used
  <2> QED
    BY <1>1, <1>3, <2>1, <2>2 DEF GetsReady
<1>23. IndexReady(n, p, blkp, org, lim) /\ SizeOf(Header)' = SizeOf(Header)
  <2>1. \A k \in Nat : k < n => blkp[k] = blk[k]
    BY <1>12
  <2> QED
    BY <1>1, <1>22, <2>1, KeepsIndex
<1>24. /\ pr_blockIndexSlotsUsed' = Len(ring') /\ Len(ring') <= p
       /\ SizeOf(Header)' \in Nat /\ Len(ring') <= SizeOf(Header)'
       /\ emptyFlags' \in [Blocks -> SUBSET Offsets]
       /\ home' \in [Blocks -> {"pool", "list", "heap", "used"}]
  <2>1. SizeOf(Header) \in Nat /\ q <= SizeOf(Header)
    BY <1>1, <1>2, <1>4, NewestIs, HeaderIs DEF HeaderInv
  <2>2. q <= p
    BY <1>4, <1>10
  <2>3. /\ emptyFlags' \in [Blocks -> SUBSET Offsets]
        /\ home' \in [Blocks -> {"pool", "list", "heap", "used"}]
    BY <1>1, <1>2, <1>6 DEF BlockTypes
  <2> QED
    BY <1>1, <1>4, <1>16, <1>23, <2>1, <2>2, <2>3
<1>25. Ghosts(p, blkp, org, lim) /\ Layout(p, blkp, org, lim)'
  BY <1>1, <1>10, <1>16, <1>20, <1>21, <1>22, <1>23, <1>24, ReadyLayout
<1> QED
  BY <1>25

-----------------------------------------------------------------------------
(* The invariant.                                                           *)

\* Every step of the producer.
LEMMA EnqueueKeeps ==
    ASSUME ClaimInv, NEW n, NEW blk, NEW org, NEW lim, Ghosts(n, blk, org, lim),
           Layout(n, blk, org, lim), Enqueue
    PROVE  \E p, blkp, orgp, limp :
              Ghosts(p, blkp, orgp, limp) /\ Layout(p, blkp, orgp, limp)'
<1>0. n \in Nat
  BY DEF Ghosts
<1>1. CASE Enqueue_InBlock
  BY <1>1, FillsBlock
<1>2. CASE Enqueue_Reuse
  BY <1>0, <1>2, ReusesBlock
<1>3. CASE Enqueue_NewBlock
  <2>1. \/ \E b \in RequisitionBlock :
             /\ home' = [home EXCEPT ![b] = "used"]
             /\ emptyFlags' = [emptyFlags EXCEPT ![b] = {}]
             /\ ring' = Append(ring, b)
             /\ pr_blockIndexSlotsUsed' = pr_blockIndexSlotsUsed + 1
             /\ ppc' = "entry"
        \/ UNCHANGED <<home, emptyFlags, ring, pr_blockIndexSlotsUsed, ppc>>
    BY <1>3 DEF Enqueue_NewBlock
  <2>2. CASE UNCHANGED <<home, emptyFlags, ring, pr_blockIndexSlotsUsed, ppc>>
    BY <1>0, <1>3, <2>2, InsertsNothing
  <2>3. ASSUME NEW b \in RequisitionBlock,
               home' = [home EXCEPT ![b] = "used"],
               emptyFlags' = [emptyFlags EXCEPT ![b] = {}],
               ring' = Append(ring, b),
               pr_blockIndexSlotsUsed' = pr_blockIndexSlotsUsed + 1,
               ppc' = "entry"
        PROVE  \E p, blkp, orgp, limp :
                  Ghosts(p, blkp, orgp, limp) /\ Layout(p, blkp, orgp, limp)'
    BY <1>0, <1>3, <2>3, InsertsBlock
  <2> QED
    BY <2>1, <2>2, <2>3
<1>4. CASE Enqueue_Entry
  BY <1>4, WritesEntry
<1>5. CASE Enqueue_Front
  BY <1>5, MovesFront
<1>6. CASE Enqueue_Insert
  <2>1. CASE FreeSlot(Header)
    BY <1>6, <2>1, ReusesSlot
  <2>2. CASE ~FreeSlot(Header)
    BY <1>6, <2>2, GrowsShared
  <2> QED
    BY <2>1, <2>2
<1>7. CASE Enqueue_Take
  BY <1>7, TakesBlock
<1>8. CASE Enqueue_Undo
  BY <1>8, GivesSlotBack
<1>9. CASE Enqueue_Tail
  BY <1>9, MovesTail
<1> QED
  BY <1>1, <1>2, <1>3, <1>4, <1>5, <1>6, <1>7, <1>8, <1>9 DEF Enqueue

\* A step that changes nothing.
LEMMA Stutters ==
    ASSUME ClaimInv, NEW n, NEW blk, NEW org, NEW lim, Ghosts(n, blk, org, lim),
           Layout(n, blk, org, lim), UNCHANGED vars
    PROVE  Layout(n, blk, org, lim)'
<1>1. /\ isExplicit' = isExplicit /\ tailIndex' = tailIndex /\ ring' = ring /\ ppc' = ppc
      /\ pr_blockIndexSlotsUsed' = pr_blockIndexSlotsUsed /\ headers' = headers
      /\ pr_blockIndexFront' = pr_blockIndexFront /\ cpc' = cpc /\ loc' = loc
      /\ headIndex' = headIndex /\ entries' = entries /\ home' = home /\ elements' = elements
      /\ emptyFlags' = emptyFlags /\ elementsCompletelyDequeued' = elementsCompletelyDequeued
  BY DEF vars, prodVars, consVars, blockVars
<1>2. /\ BlockTypes /\ TailInv(n) /\ BlocksInv(n, blk) /\ RingInv(n, blk) /\ n \in Nat
      /\ OldInv(n, org, lim) /\ HeaderInv(n, org) /\ EntriesInv(n, blk, org, lim)
      /\ org \in [Nat -> Int] /\ lim \in [Nat -> Nat]
  BY DEF Layout, Ghosts
<1>3. /\ \A i \in Nat : (Done(i)' <=> Done(i)) /\ (Taken(i)' <=> Taken(i))
      /\ \A k \in Nat : (Full(k)' <=> Full(k)) /\ DoneIn(k)' = DoneIn(k)
  BY <1>1, NothingTaken
<1>4. \A k \in Nat : (InUse(n, k)' <=> InUse(n, k)) /\ (Held(n, k)' <=> Held(n, k))
  BY <1>1, <1>2, NoBlockTaken
<1>5. BlockTypes' /\ TailInv(n)' /\ Newest' = Newest
  BY <1>1, <1>2 DEF BlockTypes, TailInv, Newest
<1>6. OldInv(n, org, lim)' /\ HeaderInv(n, org)' /\ EntriesInv(n, blk, org, lim)'
  BY <1>1, <1>2, <1>4, IndexStays
<1>7. BlocksInv(n, blk)' /\ RingInv(n, blk)'
  <2>1. Built' = Built
    BY <1>1 DEF Built
  <2>2. BlocksInv(n, blk)'
    BY <1>1, <1>2, <1>3, <1>4, <2>1, BlocksStay
  <2> QED
    BY <1>1, <1>2, <1>3, <2>2, RingStays
<1>8. ASSUME NEW c \in Consumers PROVE WayInv(c, n, blk, org, lim)'
  <2>1. WayInv(c, n, blk, org, lim)
    BY DEF Layout
  <2>2. \A h \in 1 .. Newest : headers'[h].slot = headers[h].slot
    BY <1>1
  <2>3. CurInv(c, n, org, lim) => CurInv(c, n, org, lim)'
    BY <1>1 DEF CurInv, Pos, SizeOf, Limit, Written, Newest, Spare, Id
  <2> QED
    BY <1>1, <1>2, <1>5, <2>1, <2>2, <2>3, WayStays
<1> QED
  BY <1>1, <1>5, <1>6, <1>7, <1>8, ProducerMoves

\* Who changes "alive", and when.
LEMMA Lives ==
    /\ Enqueue => cpc' = cpc /\ alive' = alive
    /\ \A c \in Consumers : Dequeue(c) => alive /\ alive'
    /\ Destroy => ~alive' /\ cpc' = cpc /\ \A c \in Consumers : cpc[c] = "idle"
<1>1. ASSUME Enqueue PROVE cpc' = cpc /\ alive' = alive
  BY <1>1 DEF Enqueue, Enqueue_InBlock, Enqueue_Reuse, Enqueue_NewBlock, Enqueue_Entry,
       Enqueue_Front, Enqueue_Insert, Enqueue_Take, Enqueue_Undo, Enqueue_Tail, consVars
<1>2. ASSUME NEW c \in Consumers, Dequeue(c) PROVE alive /\ alive'
  <2>1. ASSUME NEW from, NEW to, NEW l, ConsumerStep(c, from, to, l) PROVE alive /\ alive'
    <3>1. alive /\ alive' = alive
      BY <2>1 DEF ConsumerStep
    <3> QED
      BY <3>1
  <2>2. ASSUME NEW from, NextBlockOr(c, from) PROVE alive /\ alive'
    BY <2>1, <2>2 DEF NextBlockOr
  <2>3. CASE ClaimElements(c)
    BY <2>1, <2>3 DEF ClaimElements, Dequeue_Tail, Dequeue_Over, Dequeue_Count, Dequeue_Claim,
         Dequeue_Recheck, Dequeue_Give, Dequeue_Head
  <2>4. CASE GetBlockIndexIndexForIndex(c)
    BY <2>1, <2>4 DEF GetBlockIndexIndexForIndex, Dequeue_Index, Dequeue_Cur, Dequeue_Slot
  <2>5. CASE TakeElements(c)
    BY <2>1, <2>2, <2>5 DEF TakeElements, Dequeue_Read, Dequeue_Empty_Explicit,
         Dequeue_Empty_Implicit, Dequeue_Null, Dequeue_Free
  <2> QED
    BY <1>2, <2>3, <2>4, <2>5 DEF Dequeue
<1>3. ASSUME Destroy PROVE ~alive' /\ cpc' = cpc /\ \A c \in Consumers : cpc[c] = "idle"
  BY <1>3 DEF Destroy, Quiescent, consVars
<1> QED
  BY <1>1, <1>2, <1>3

LEMMA BlockNext == ClaimInv /\ BlockInv /\ [Next]_vars => BlockInv'
<1> SUFFICES ASSUME ClaimInv, BlockInv, [Next]_vars PROVE BlockInv'
  OBVIOUS
<1>1. \A n, blk, org, lim : Ghosts(n, blk, org, lim)' <=> Ghosts(n, blk, org, lim)
  BY DEF Ghosts
<1>2. CASE Enqueue
  <2>1. cpc' = cpc /\ alive' = alive
    BY <1>2, Lives
  <2>2. CASE alive
    <3>1. PICK n, blk, org, lim : Ghosts(n, blk, org, lim) /\ Layout(n, blk, org, lim)
      BY <2>2 DEF BlockInv
    <3>2. \E p, blkp, orgp, limp : Ghosts(p, blkp, orgp, limp) /\ Layout(p, blkp, orgp, limp)'
      BY <1>2, <3>1, EnqueueKeeps
    <3> QED
      BY <1>1, <2>1, <2>2, <3>2 DEF BlockInv
  <2>3. CASE ~alive
    BY <2>1, <2>3 DEF BlockInv
  <2> QED
    BY <2>2, <2>3
<1>3. ASSUME NEW c \in Consumers, Dequeue(c) PROVE BlockInv'
  <2>1. alive /\ alive'
    BY <1>3, Lives
  <2>2. PICK n, blk, org, lim : Ghosts(n, blk, org, lim) /\ Layout(n, blk, org, lim)
    BY <2>1 DEF BlockInv
  <2>3. Layout(n, blk, org, lim)'
    BY <1>3, <2>2, DequeueKeeps
  <2> QED
    BY <1>1, <2>1, <2>2, <2>3 DEF BlockInv
<1>4. CASE Destroy
  BY <1>4, Lives DEF BlockInv
<1>5. CASE UNCHANGED vars
  <2>1. alive' = alive /\ cpc' = cpc
    BY <1>5 DEF vars, consVars
  <2>2. CASE alive
    <3>1. PICK n, blk, org, lim : Ghosts(n, blk, org, lim) /\ Layout(n, blk, org, lim)
      BY <2>2 DEF BlockInv
    <3>2. Layout(n, blk, org, lim)'
      BY <1>5, <3>1, Stutters
    <3> QED
      BY <1>1, <2>1, <2>2, <3>1, <3>2 DEF BlockInv
  <2>3. CASE ~alive
    BY <2>1, <2>3 DEF BlockInv
  <2> QED
    BY <2>2, <2>3
<1> QED
  BY <1>2, <1>3, <1>4, <1>5 DEF Next

LEMMA BlockInit == Init => BlockInv
<1> SUFFICES ASSUME Init PROVE BlockInv
  OBVIOUS
<1>1. /\ isExplicit \in BOOLEAN /\ tailIndex = 0 /\ headIndex = 0 /\ ring = <<>>
      /\ elements = [b \in Blocks |-> [o \in Offsets |-> Gone]]
      /\ emptyFlags = [b \in Blocks |-> {}]
      /\ elementsCompletelyDequeued = [b \in Blocks |-> 0]
      /\ home = [b \in Blocks |-> IF b <= PoolSize THEN "pool" ELSE "heap"]
      /\ entries = [i \in 1 .. IndexSize |-> NoEntry]
      /\ headers = << [cur |-> IF isExplicit THEN -1 ELSE IndexSize - 1,
                       slot |-> [i \in 0 .. IndexSize - 1 |-> i + 1]] >>
      /\ pr_blockIndexSlotsUsed = 0 /\ pr_blockIndexFront = 0 /\ ppc = "idle"
      /\ cpc = [c \in Consumers |-> "idle"] /\ alive
  BY DEF Init
<1>2. PICK s \in Nat \ {0} : s = IndexSize /\ s > 1
  BY ProducerAssumption
<1>3. PICK f : f = [i \in 0 .. s - 1 |-> i + 1]
  OBVIOUS
<1>4. PICK x : x = IF isExplicit THEN -1 ELSE s - 1
  OBVIOUS
<1>5. f \in [0 .. s - 1 -> Nat] /\ f \in SlotMaps /\ x \in Int
  <2>1. f \in [0 .. s - 1 -> Nat] /\ x \in Int
    BY <1>3, <1>4
  <2> QED
    BY <2>1 DEF SlotMaps
<1>6. headers = << [cur |-> x, slot |-> f] >> /\ [cur |-> x, slot |-> f] \in HeaderSet
  BY <1>1, <1>2, <1>3, <1>4, <1>5 DEF HeaderSet
<1>7. /\ headers \in Seq(HeaderSet) /\ Len(headers) = 1 /\ Newest = 1
      /\ Header = [cur |-> x, slot |-> f] /\ headers[1] = Header
  BY ONLY <1>6 DEF Newest, Header
<1>8. DOMAIN f = 0 .. s - 1 /\ SizeOf(Header) = s
  <2>1. DOMAIN f = 0 .. s - 1
    BY <1>5
  <2>2. Cardinality(0 .. s - 1) = s
    BY FS_Interval
  <2> QED
    BY <1>7, <2>1, <2>2 DEF SizeOf
<1>9. entries \in Seq(EntrySet) /\ Len(entries) = s /\ \A e \in 1 .. s : entries[e] = NoEntry
  <2>1. NoEntry \in EntrySet
    BY DEF NoEntry, EntrySet, NoBase, NoBlock
  <2>2. entries \in [1 .. s -> EntrySet] /\ \A e \in 1 .. s : entries[e] = NoEntry
    BY <1>1, <1>2, <2>1
  <2> QED
    BY ONLY <2>2, s \in Nat \ {0}
<1>10. BlockTypes
  <2>1. Gone \in Int /\ ring \in Seq(Blocks)
    BY <1>1 DEF Gone
  <2> QED
    BY <1>1, <1>7, <1>9, <2>1 DEF BlockTypes
<1>11. PICK z \in [Nat -> Nat] : z = [k \in Nat |-> 0]
  OBVIOUS
<1>12. z \in [Nat -> Int] /\ Ghosts(0, z, z, z)
  BY <1>11 DEF Ghosts
<1>13. /\ \A k \in Int : Pos(1, k, z) = k % s
       /\ Pos(1, 0, z) = 0 /\ Pos(1, 0 - 1, z) = s - 1
  <2>1. \A k \in Int : Pos(1, k, z) = k % s
    <3>1. z[1] = 0
      BY <1>11
    <3>2. \A k \in Int : k - 0 = k
      OBVIOUS
    <3> QED
      BY <1>7, <1>8, <3>1, <3>2 DEF Pos
  <2>2. 0 % s = 0
    BY SmallMod
  <2>3. (0 - 1) % s = s - 1
    <3>1. s - 1 \in Nat /\ s - 1 < s /\ -1 \in Int
      OBVIOUS
    <3>2. (s * (-1) + (s - 1)) % s = s - 1
      BY ONLY <3>1, s \in Nat \ {0}, ModOf
    <3>3. s * (-1) + (s - 1) = 0 - 1
      OBVIOUS
    <3> QED
      BY <3>2, <3>3
  <2> QED
    BY <2>1, <2>2, <2>3
<1>14. Base(0) = 0 /\ BlockSize \in Nat /\ BlockSize > 1
  BY BlockSizeIs DEF Base
<1>15. \A k : ~InUse(0, k) /\ ~Held(0, k)
  <2>1. 0 .. 0 - 1 = {}
    OBVIOUS
  <2> QED
    BY <2>1 DEF InUse, Held, Used
<1>16. TailInv(0) /\ Written(0) = 0
  BY <1>1, <1>14 DEF TailInv, Written
<1>17. \A c \in Consumers : MineInv(c) /\ WayInv(c, 0, z, z, z) /\ LeaveInv(c)
  <2>1. \A c \in Consumers : cpc[c] = "idle"
    BY <1>1
  <2> QED
    BY <2>1 DEF MineInv, WayInv, LeaveInv, Working, Leaving
<1>18. OldInv(0, z, z)
  BY <1>7 DEF OldInv
<1>19. HeaderInv(0, z)
  <2>1. ~isExplicit => Header.cur = Pos(Newest, 0 - 1, z)
    BY <1>4, <1>7, <1>13
  <2>2. Len(ring) = 0
    BY <1>1
  <2>3. /\ pr_blockIndexSlotsUsed = Len(ring) /\ Len(ring) <= SizeOf(Header) /\ Len(ring) <= 0
        /\ pr_blockIndexFront = Pos(Newest, 0, z)
    BY <1>1, <1>7, <1>8, <1>13, <2>2
  <2> QED
    BY <1>1, <1>15, <2>1, <2>3 DEF HeaderInv
<1>20. EntriesInv(0, z, z, z)
  <2>1. \A h \in 1 .. Newest : h = Newest /\ GoodHeader(headers[h])
    <3>1. GoodHeader(headers[1])
      <4>1. headers[1].slot = f
        BY <1>7
      <4>2. \A i \in 0 .. s - 1 : f[i] = i + 1 /\ i + 1 \in 1 .. s
        BY <1>3
      <4>3. \A i, j \in 0 .. s - 1 : f[i] = f[j] => i = j
        BY <4>2
      <4>4. DOMAIN headers[1].slot = 0 .. s - 1 /\ Len(entries) = s
        BY <1>8, <1>9, <4>1
      <4>5. \A i \in DOMAIN headers[1].slot : headers[1].slot[i] \in 1 .. Len(entries)
        BY <4>1, <4>2, <4>4
      <4>6. \A i, j \in DOMAIN headers[1].slot : headers[1].slot[i] = headers[1].slot[j] => i = j
        BY <4>1, <4>3, <4>4
      <4> QED
        BY ONLY <4>5, <4>6 DEF GoodHeader
    <3> QED
      BY <1>7, <3>1
  <2>2. \A h \in 1 .. Newest : 0 .. Limit(h, 0, z) - 1 = {}
    BY <1>16, <2>1 DEF Limit
  <2>3. \A e \in 1 .. Len(entries) : entries[e].base = NoBase => entries[e].block = NoBlock
    BY <1>9 DEF NoEntry
  <2> QED
    BY <1>1, <2>1, <2>2, <2>3 DEF EntriesInv
<1>21. BlocksInv(0, z)
  <2>1. \A b \in Blocks : home[b] # "used" /\ Vacant(b)
    BY <1>1 DEF Vacant
  <2> QED
    BY <1>15, <2>1 DEF BlocksInv
<1>22. RingInv(0, z)
  BY <1>1 DEF RingInv
<1>23. Layout(0, z, z, z)
  BY <1>10, <1>16, <1>17, <1>18, <1>19, <1>20, <1>21, <1>22 DEF Layout
<1> QED
  BY <1>1, <1>12, <1>23 DEF BlockInv

\* What the invariant says of a block that is read.
LEMMA BlockFindsElement == ClaimInv /\ BlockInv => FindsItsElement
<1> SUFFICES ASSUME ClaimInv, BlockInv, NEW c \in Consumers, cpc[c] = "read"
             PROVE  LET e == entries[EntryOf(c)]
                    IN  /\ e.base = BlockBase(loc[c].idx)
                        /\ e.block # NoBlock /\ home[e.block] = "used"
                        /\ \A i \in InBlock(c) : elements[e.block][i % BlockSize] = i
  BY DEF FindsItsElement
<1>1. PICK n, blk, org, lim : Ghosts(n, blk, org, lim) /\ Layout(n, blk, org, lim)
  BY DEF BlockInv
<1>2. MineInv(c) /\ cpc[c] \in Working
  BY <1>1 DEF Layout, Working
<1>3. PICK k \in Nat : In(c, k)
  BY <1>2, PlaceExists
<1>4. /\ entries[EntryOf(c)] = [base |-> Base(k), block |-> blk[k]]
      /\ Holding(k, blk[k])
      /\ \A i \in InBlock(c) : elements[blk[k]][i % BlockSize] = i
  BY <1>1, <1>3, FoundElement
<1>5. BlockBase(loc[c].idx) = Base(k)
  BY <1>2, <1>3, PlaceIs
<1>6. blk[k] # NoBlock /\ home[blk[k]] = "used"
  BY <1>4, ProducerAssumption DEF Holding, Blocks, NoBlock
<1> QED
  BY <1>4, <1>5, <1>6

\* And of one whose slots are reported empty.
LEMMA BlockEmptiedOnce == ClaimInv /\ BlockInv => EmptiedOnce
<1> SUFFICES ASSUME ClaimInv, BlockInv, NEW c \in Consumers, cpc[c] = "empty"
             PROVE  /\ home[loc[c].blk] = "used"
                    /\ isExplicit => emptyFlags[loc[c].blk] \cap SlotsOf(c) = {}
                    /\ ~isExplicit =>
                         elementsCompletelyDequeued[loc[c].blk] + Cardinality(SlotsOf(c)) <= BlockSize
  BY DEF EmptiedOnce
<1>1. PICK n, blk, org, lim : Ghosts(n, blk, org, lim) /\ Layout(n, blk, org, lim)
  BY DEF BlockInv
<1>2. MineInv(c) /\ cpc[c] \in Working
  BY <1>1 DEF Layout, Working
<1>3. PICK k \in Nat : In(c, k)
  BY <1>2, PlaceExists
<1>4. ~Full(k) /\ loc[c].blk = blk[k] /\ Holding(k, blk[k])
  BY <1>1, <1>3, AtEmpty
<1>5. /\ DoneIn(k) \cap SlotsOf(c) = {}
      /\ Cardinality(DoneIn(k)) + Cardinality(SlotsOf(c)) <= BlockSize
  BY <1>2, <1>3, RoomAtEmpty
<1> QED
  BY <1>4, <1>5 DEF Holding

\* The invariant of one sub-queue: how it hands out its elements, and where each
\* block and each entry of the index is, through every enqueue, dequeue,
\* growth of the index and failed allocation.
THEOREM SubQueueSafe == Spec /\ []NobodyOversleeps => [](ClaimInv /\ BlockInv)
<1>1. Init => ClaimInv /\ BlockInv
  BY ClaimInit, BlockInit
<1>2. ClaimInv /\ BlockInv /\ NobodyOversleeps /\ [Next]_vars => (ClaimInv /\ BlockInv)'
  BY ClaimNext, BlockNext
<1> QED
  BY <1>1, <1>2, PTL DEF Spec

\* The asserts of get_block_index_index_for_index and of the dequeues: for any
\* consumers, batches and sizes of blocks and index, the block index leads a
\* consumer to its own elements, also when it read an index or a slot that
\* has been replaced since.
THEOREM ElementsAreFound == Spec /\ []NobodyOversleeps => []FindsItsElement
<1>1. ClaimInv /\ BlockInv => FindsItsElement
  BY BlockFindsElement
<1> QED
  BY <1>1, SubQueueSafe, PTL

\* The asserts of set_many_empty: no slot of a block is reported empty twice
\* between two uses of the block, and no block that has been given back.
THEOREM SlotsAreEmptiedOnce == Spec /\ []NobodyOversleeps => []EmptiedOnce
<1>1. ClaimInv /\ BlockInv => EmptiedOnce
  BY BlockEmptiedOnce
<1> QED
  BY <1>1, SubQueueSafe, PTL

-----------------------------------------------------------------------------
(* The destructors.                                                         *)

\* When nobody uses the queue, the elements left are those from head to tail.
LEMMA AtRest ==
    ASSUME ClaimInv, NEW n, NEW blk, NEW org, NEW lim, Ghosts(n, blk, org, lim),
           Layout(n, blk, org, lim), Quiescent
    PROVE  /\ n \in Nat /\ headIndex \in Nat /\ tailIndex \in Nat /\ headIndex <= tailIndex
           /\ Base(n) \in Nat /\ Base(n) - BlockSize < tailIndex /\ tailIndex <= Base(n)
           /\ Written(n) = n
           /\ \A i \in Nat : Done(i) <=> i < headIndex
           /\ \A i \in Nat : Content(i) # Gone <=> headIndex <= i /\ i < tailIndex
           /\ \A k \in Nat : Full(k) <=> Base(k) + BlockSize <= headIndex
           /\ \A k \in Nat : InUse(n, k) <=>
                /\ k < n /\ (isExplicit => k >= n - Len(ring))
                /\ ~isExplicit => headIndex < Base(k) + BlockSize
           /\ \A k \in Nat : InUse(n, k) => Held(n, k) /\ Kept(n, n - 1)
<1>1. /\ n \in Nat /\ BlockTypes /\ TailInv(n) /\ ppc = "idle"
      /\ \A c \in Consumers : cpc[c] = "idle"
  BY DEF Layout, Ghosts, Quiescent
<1>2. /\ headIndex \in Nat /\ tailIndex \in Nat /\ headIndex <= tailIndex
      /\ Base(n) \in Nat /\ Base(n) - BlockSize < tailIndex /\ tailIndex <= Base(n)
      /\ Written(n) = n
  BY <1>1, TailIs DEF TailInv, Written
<1>3. \A c \in Consumers : Todo(c) = {} /\ Unread(c) = {}
  BY <1>1 DEF Todo, Unread, Mine, Working
<1>4. \A i \in Nat : (Done(i) <=> i < headIndex) /\ (Taken(i) <=> i < headIndex)
  BY <1>3 DEF Done, Taken
<1>5. ASSUME NEW i \in Nat PROVE Content(i) # Gone <=> headIndex <= i /\ i < tailIndex
  <2>1. Built = tailIndex /\ i # Gone
    BY <1>1 DEF Built, Gone
  <2>2. i < headIndex <=> ~(headIndex <= i)
    BY <1>2
  <2> QED
    BY <1>4, <2>1, <2>2 DEF Content
<1>6. ASSUME NEW k \in Nat PROVE Full(k) <=> Base(k) + BlockSize <= headIndex
  <2>1. /\ Base(k) \in Nat /\ BlockSize \in Nat /\ BlockSize > 1
        /\ Offsets = 0 .. BlockSize - 1
    BY BaseOfNat, BlockSizeIs
  <2>2. Full(k) <=> \A o \in Offsets : Base(k) + o < headIndex
    <3>1. \A o \in Offsets : Base(k) + o \in Nat
      BY ElementIs
    <3> QED
      BY <1>4, <3>1 DEF Full
  <2>3. PICK o \in Offsets : o = BlockSize - 1
    BY <2>1
  <2>4. (\A d \in Offsets : Base(k) + d < headIndex) => Base(k) + BlockSize <= headIndex
    <3>1. Base(k) + o < headIndex => Base(k) + BlockSize <= headIndex
      BY <1>2, <2>1, <2>3
    <3> QED
      BY <3>1
  <2>5. Base(k) + BlockSize <= headIndex => \A d \in Offsets : Base(k) + d < headIndex
    BY <1>2, <2>1
  <2> QED
    BY <2>2, <2>4, <2>5
<1>7. \A k, places : ~({"idle"} \cap places # {}) => ~LeftAt(k, places)
  BY <1>1 DEF LeftAt
<1>8. \A k : ~LeftAt(k, Leaving) /\ ~LeftAt(k, {"null"})
  BY <1>7 DEF Leaving
<1>9. ASSUME NEW k \in Nat
      PROVE  /\ InUse(n, k) <=> /\ k < n /\ (isExplicit => k >= n - Len(ring))
                                /\ ~isExplicit => headIndex < Base(k) + BlockSize
             /\ InUse(n, k) => Held(n, k) /\ Kept(n, n - 1)
  <2>1. k \in 0 .. n - 1 <=> k < n
    BY <1>1
  <2>2. Base(k) \in Nat /\ BlockSize \in Nat
    BY BaseOfNat, BlockSizeIs
  <2>3. ~Full(k) <=> headIndex < Base(k) + BlockSize
    BY <1>2, <1>6, <2>2
  <2>4. InUse(n, k) => Held(n, k)
    BY <1>8 DEF InUse, Held, Used
  <2>5. Held(n, k) => Kept(n, n - 1)
    BY DEF Kept, Held, Used
  <2> QED
    BY <1>8, <2>1, <2>3, <2>4, <2>5 DEF InUse, Used
<1> QED
  BY <1>1, <1>2, <1>4, <1>5, <1>6, <1>9

\* Which blocks are in use then, and what they hold.
LEMMA BlocksLeft ==
    ASSUME ClaimInv, NEW n, NEW blk, NEW org, NEW lim, Ghosts(n, blk, org, lim),
           Layout(n, blk, org, lim), Quiescent
    PROVE  /\ \A k \in Nat : InUse(n, k) =>
                blk[k] \in Blocks /\ (isExplicit => emptyFlags[blk[k]] = DoneIn(k))
           /\ \A b \in Blocks : home[b] = "used" <=> \E k \in Nat : InUse(n, k) /\ blk[k] = b
           /\ \A b \in Blocks : \A o \in Offsets : elements[b][o] # Gone <=>
                \E k \in Nat : /\ InUse(n, k) /\ blk[k] = b
                               /\ headIndex <= Base(k) + o /\ Base(k) + o < tailIndex
<1>1. BlocksInv(n, blk)
  BY DEF Layout
<1>2. \A k \in Nat : InUse(n, k) => Holding(k, blk[k])
  BY <1>1 DEF BlocksInv
<1>3. \A b \in Blocks : home[b] = "used" <=> \E k \in Nat : InUse(n, k) /\ blk[k] = b
  BY <1>1, <1>2 DEF BlocksInv, Holding
<1>4. ASSUME NEW b \in Blocks, NEW o \in Offsets
      PROVE  elements[b][o] # Gone <=>
               \E k \in Nat : /\ InUse(n, k) /\ blk[k] = b
                              /\ headIndex <= Base(k) + o /\ Base(k) + o < tailIndex
  <2>1. ASSUME NEW k \in Nat, InUse(n, k), blk[k] = b
        PROVE  elements[b][o] # Gone <=> headIndex <= Base(k) + o /\ Base(k) + o < tailIndex
    <3>1. elements[b][o] = Content(Base(k) + o)
      BY <1>2, <2>1 DEF Holding
    <3>2. Base(k) + o \in Nat
      BY ElementIs
    <3> QED
      BY <3>1, <3>2, AtRest
  <2>2. elements[b][o] # Gone => \E k \in Nat : InUse(n, k) /\ blk[k] = b
    BY <1>1, <1>3 DEF BlocksInv, Vacant
  <2> QED
    BY <2>1, <2>2
<1>5. \A k \in Nat : InUse(n, k) => blk[k] \in Blocks /\ (isExplicit => emptyFlags[blk[k]] = DoneIn(k))
  BY <1>2 DEF Holding
<1> QED
  BY <1>3, <1>4, <1>5

\* The entry of a number in use, and the block it leads to.
LEMMA EntryLeft ==
    ASSUME ClaimInv, NEW n, NEW blk, NEW org, NEW lim, Ghosts(n, blk, org, lim),
           Layout(n, blk, org, lim), Quiescent, NEW k \in Nat, InUse(n, k)
    PROVE  /\ entries[Id(Newest, k, org)].base = Base(k)
           /\ entries[Id(Newest, k, org)].block = blk[k]
           /\ n - 1 \in Nat /\ entries[Id(Newest, n - 1, org)].base = Base(n - 1)
<1>1. /\ n \in Nat /\ k < n /\ Written(n) = n /\ Held(n, k) /\ Kept(n, n - 1)
  BY AtRest
<1>2. EntriesInv(n, blk, org, lim) /\ Newest \in 1 .. Newest
  BY NewestIs DEF Layout
<1>3. Limit(Newest, n, lim) = n
  BY <1>1 DEF Limit
<1>4. k \in 0 .. n - 1 /\ n - 1 \in 0 .. n - 1 /\ n - 1 \in Nat
  BY <1>1
<1>5. Kept(n, k)
  BY <1>1 DEF Kept
<1> QED
  BY <1>1, <1>2, <1>3, <1>4, <1>5 DEF EntriesInv

\* Where the element numbers of a block lie to head and tail.
LEMMA EndsOf ==
    ASSUME ClaimInv, NEW n, NEW blk, NEW org, NEW lim, Ghosts(n, blk, org, lim),
           Layout(n, blk, org, lim), Quiescent, NEW k \in Nat, k < n
    PROVE  /\ Base(k) \in Nat /\ BlockSize \in Nat /\ Base(k) + BlockSize <= Base(n)
           /\ k # n - 1 => Base(k) + BlockSize < tailIndex
           /\ k = n - 1 => Base(k) + BlockSize = Base(n) /\ Base(k) < tailIndex
           /\ AtBoundary <=> tailIndex = Base(n)
           /\ k = n - 1 /\ ~AtBoundary => tailIndex % BlockSize = tailIndex - Base(k)
<1>1. /\ n \in Nat /\ tailIndex \in Nat /\ Base(n) \in Nat
      /\ Base(n) - BlockSize < tailIndex /\ tailIndex <= Base(n)
  BY AtRest
<1>2. Base(k) \in Nat /\ BlockSize \in Nat /\ BlockSize > 1 /\ Offsets = 0 .. BlockSize - 1
  BY BaseOfNat, BlockSizeIs
<1>3. Base(k) + BlockSize <= Base(n)
  BY <1>1, BaseOrder
<1>4. PICK m \in Nat : m = n - 1 /\ Base(m) = Base(n) - BlockSize
  <2>1. n - 1 \in Nat /\ n \in Int
    BY <1>1
  <2> QED
    BY <2>1, BaseIs
<1>5. k # n - 1 => Base(k) + BlockSize < tailIndex
  <2> SUFFICES ASSUME k # n - 1 PROVE Base(k) + BlockSize < tailIndex
    OBVIOUS
  <2>1. k < m
    BY <1>1, <1>4
  <2>2. Base(k) + BlockSize <= Base(m) /\ Base(m) \in Nat
    BY <2>1, BaseOrder, BaseOfNat
  <2> QED
    BY <1>1, <1>2, <1>4, <2>2
<1>6. k = n - 1 => Base(k) + BlockSize = Base(n) /\ Base(k) < tailIndex
  BY <1>1, <1>2, <1>4
<1>7. tailIndex < Base(n) => tailIndex % BlockSize = tailIndex - Base(m) /\ tailIndex # Base(m)
  <2> SUFFICES ASSUME tailIndex < Base(n)
               PROVE  tailIndex % BlockSize = tailIndex - Base(m) /\ tailIndex # Base(m)
    OBVIOUS
  <2>1. Base(m) \in Nat
    BY <1>4, BaseOfNat
  <2>2. Base(m) <= tailIndex /\ tailIndex < Base(m) + BlockSize /\ tailIndex # Base(m)
    BY <1>1, <1>2, <1>4, <2>1
  <2> QED
    BY <1>1, <1>4, <2>2, OffsetIs
<1>8. tailIndex = Base(n) => tailIndex % BlockSize = 0
  <2> SUFFICES ASSUME tailIndex = Base(n) PROVE tailIndex % BlockSize = 0
    OBVIOUS
  <2>1. Base(n) <= tailIndex /\ tailIndex < Base(n) + BlockSize
    BY <1>1, <1>2
  <2>2. tailIndex % BlockSize = tailIndex - Base(n)
    BY <1>1, <2>1, OffsetIs
  <2> QED
    BY <1>1, <2>2
<1>9. AtBoundary <=> tailIndex = Base(n)
  <2>1. tailIndex < Base(n) => tailIndex % BlockSize # 0
    BY <1>1, <1>4, <1>7, BaseOfNat
  <2> QED
    BY <1>1, <1>8, <2>1 DEF AtBoundary
<1>10. k = n - 1 /\ ~AtBoundary => tailIndex % BlockSize = tailIndex - Base(k)
  BY <1>1, <1>4, <1>7, <1>9
<1> QED
  BY <1>2, <1>3, <1>5, <1>6, <1>9, <1>10

\* The explicit producer's ring holds the blocks in use.
LEMMA RingLeft ==
    ASSUME ClaimInv, NEW n, NEW blk, NEW org, NEW lim, Ghosts(n, blk, org, lim),
           Layout(n, blk, org, lim), Quiescent, isExplicit
    PROVE  /\ ToSet(ring) = {b \in Blocks : \E k \in Nat : InUse(n, k) /\ blk[k] = b}
           /\ \A k \in Nat : InUse(n, k) => (blk[k] = Last(ring) <=> k = n - 1)
           /\ IsInjective(ring)
<1>1. /\ ring \in Seq(Blocks) /\ RingInv(n, blk) /\ BlocksInv(n, blk) /\ HeaderInv(n, org)
      /\ n \in Nat
  BY AtRest DEF Layout, BlockTypes
<1>2. PICK q \in Nat : q = Len(ring) /\ q <= n
  BY <1>1 DEF HeaderInv
<1>3. \A k \in Nat : InUse(n, k) <=> k < n /\ k >= n - q
  BY <1>2, AtRest
<1>4. \A j \in 1 .. q : ring[j] = blk[n - q + j - 1] /\ ring[j] \in Blocks
  BY <1>1, <1>2 DEF RingInv
<1>5. ToSet(ring) = {ring[j] : j \in 1 .. q}
  BY <1>1, <1>2 DEF ToSet
<1>6. ASSUME NEW j \in 1 .. q PROVE \E k \in Nat : InUse(n, k) /\ blk[k] = ring[j]
  <2>1. PICK k \in Nat : k = n - q + j - 1 /\ k < n /\ k >= n - q
    <3>1. n - q + j - 1 \in Nat /\ n - q + j - 1 < n /\ n - q + j - 1 >= n - q
      BY <1>1, <1>2
    <3> QED
      BY <3>1
  <2> QED
    BY <1>3, <1>4, <2>1
<1>7. ASSUME NEW k \in Nat, InUse(n, k) PROVE \E j \in 1 .. q : ring[j] = blk[k]
  <2>1. k < n /\ k >= n - q
    BY <1>3, <1>7
  <2>2. PICK j \in 1 .. q : n - q + j - 1 = k
    <3>1. k - (n - q) + 1 \in 1 .. q /\ n - q + (k - (n - q) + 1) - 1 = k
      BY <1>1, <1>2, <2>1
    <3> QED
      BY <3>1
  <2> QED
    BY <1>4, <2>2
<1>8. ToSet(ring) = {b \in Blocks : \E k \in Nat : InUse(n, k) /\ blk[k] = b}
  BY <1>4, <1>5, <1>6, <1>7
<1>9. ASSUME NEW k \in Nat, InUse(n, k) PROVE blk[k] = Last(ring) <=> k = n - 1
  <2>1. k < n /\ k >= n - q /\ n - 1 \in Nat /\ n - 1 < n /\ n - 1 >= n - q /\ q \in 1 .. q
    <3>1. k < n /\ k >= n - q
      BY <1>3, <1>9
    <3> QED
      BY <1>1, <1>2, <3>1
  <2>2. InUse(n, n - 1)
    BY <1>3, <2>1
  <2>3. Last(ring) = blk[n - 1]
    <3>1. n - q + q - 1 = n - 1
      BY <1>1
    <3> QED
      BY <1>2, <1>4, <2>1, <3>1 DEF Last
  <2> QED
    BY <1>1, <1>9, <2>1, <2>2, <2>3 DEF BlocksInv
<1>10. ASSUME NEW i \in 1 .. q, NEW j \in 1 .. q, ring[i] = ring[j] PROVE i = j
  <2>1. PICK a \in Nat : a = n - q + i - 1 /\ a < n /\ a >= n - q
    <3>1. n - q + i - 1 \in Nat /\ n - q + i - 1 < n /\ n - q + i - 1 >= n - q
      BY <1>1, <1>2
    <3> QED
      BY <3>1
  <2>2. PICK b \in Nat : b = n - q + j - 1 /\ b < n /\ b >= n - q
    <3>1. n - q + j - 1 \in Nat /\ n - q + j - 1 < n /\ n - q + j - 1 >= n - q
      BY <1>1, <1>2
    <3> QED
      BY <3>1
  <2>3. InUse(n, a) /\ InUse(n, b) /\ blk[a] = blk[b]
    BY <1>3, <1>4, <1>10, <2>1, <2>2
  <2>4. a = b
    BY <1>1, <2>3 DEF BlocksInv
  <2> QED
    BY <1>1, <1>2, <2>1, <2>2, <2>4
<1>11. IsInjective(ring)
  <2>1. DOMAIN ring = 1 .. q
    BY <1>1, <1>2
  <2> QED
    BY <1>10, <2>1 DEF IsInjective
<1> QED
  BY <1>8, <1>9, <1>11

\* The block the destructor takes to be half dequeued.
LEMMA HalfIs ==
    ASSUME ClaimInv, NEW n, NEW blk, NEW org, NEW lim, Ghosts(n, blk, org, lim),
           Layout(n, blk, org, lim), Quiescent, isExplicit, NEW k \in Nat, InUse(n, k)
    PROVE  HalfDequeued(blk[k]) <=> headIndex % BlockSize # 0 /\ BlockBase(headIndex) = Base(k)
<1>1. /\ BlockTypes /\ RingInv(n, blk) /\ BlocksInv(n, blk) /\ HeaderInv(n, org)
      /\ n \in Nat /\ org \in [Nat -> Int] /\ ppc = "idle" /\ Newest \in 1 .. Newest
  BY NewestIs, AtRest DEF Layout, Ghosts, Quiescent
<1>2. PICK q \in Nat : q = Len(ring) /\ q <= n /\ pr_blockIndexSlotsUsed = q
  <2>1. Len(ring) \in Nat
    BY <1>1 DEF BlockTypes
  <2> QED
    BY <1>1, <2>1 DEF HeaderInv
<1>3. \A m \in Nat : InUse(n, m) <=> m < n /\ m >= n - q
  BY <1>2, AtRest
<1>4. ASSUME NEW i \in 0 .. q - 1, NEW m \in Nat, m = n - q + i
      PROVE  /\ InUse(n, m)
             /\ entries[Header.slot[OldestSlot(i)]].block = blk[m]
             /\ entries[Header.slot[OldestSlot(i)]].base = Base(m)
  <2>1. InUse(n, m)
    <3>1. m < n /\ m >= n - q
      BY <1>1, <1>2, <1>4
    <3> QED
      BY <1>3, <3>1
  <2>2. OldestSlot(i) = Pos(Newest, m, org)
    <3>1. pr_blockIndexFront = Pos(Newest, n, org)
      BY <1>1 DEF HeaderInv
    <3>2. Pos(Newest, n, org) \in Int /\ i - q \in Int /\ n + (i - q) = m /\ n \in Int
      <4>0. n \in Int
        BY <1>1
      <4>1. Pos(Newest, n, org) \in 0 .. SizeOf(headers[Newest]) - 1
        BY <1>1, <4>0, PosIs
      <4>2. i - q \in Int /\ n + (i - q) = m
        BY <1>1, <1>2, <1>4
      <4> QED
        BY <1>1, <4>1, <4>2
    <3>3. (Pos(Newest, n, org) + (i - q)) % SizeOf(headers[Newest]) = Pos(Newest, m, org)
      BY <1>1, <3>2, PosIs
    <3>4. Pos(Newest, n, org) - q + i = Pos(Newest, n, org) + (i - q)
      BY <3>2
    <3> QED
      BY <1>1, <1>2, <3>1, <3>3, <3>4, NewestIs DEF OldestSlot
  <2>3. Header.slot[OldestSlot(i)] = Id(Newest, m, org)
    BY <1>1, <2>2, NewestIs DEF Id
  <2> QED
    BY <2>1, <2>3, EntryLeft
<1>5. PICK j \in 0 .. q - 1 : n - q + j = k
  <2>1. k < n /\ k >= n - q
    BY <1>3
  <2>2. k - (n - q) \in 0 .. q - 1 /\ n - q + (k - (n - q)) = k
    BY <1>1, <1>2, <2>1
  <2> QED
    BY <2>2
<1>6. BlockBase(headIndex) = Base(k) =>
        \E i \in 0 .. q - 1 : LET e == entries[Header.slot[OldestSlot(i)]]
                              IN  e.block = blk[k] /\ e.base = BlockBase(headIndex)
  BY <1>4, <1>5
<1>7. ASSUME NEW i \in 0 .. q - 1,
             entries[Header.slot[OldestSlot(i)]].block = blk[k],
             entries[Header.slot[OldestSlot(i)]].base = BlockBase(headIndex)
      PROVE  BlockBase(headIndex) = Base(k)
  <2>1. PICK m \in Nat : m = n - q + i
    <3>1. n - q + i \in Nat
      BY <1>1, <1>2
    <3> QED
      BY <3>1
  <2>2. InUse(n, m) /\ blk[m] = blk[k] /\ BlockBase(headIndex) = Base(m)
    BY <1>4, <1>7, <2>1
  <2> QED
    BY <1>1, <2>2 DEF BlocksInv
<1> QED
  BY <1>2, <1>6, <1>7 DEF HalfDequeued

\* What the destructor of the explicit producer destroys in one block.
LEMMA DestroysInBlock ==
    ASSUME ClaimInv, NEW n, NEW blk, NEW org, NEW lim, Ghosts(n, blk, org, lim),
           Layout(n, blk, org, lim), Quiescent, isExplicit, NEW k \in Nat, InUse(n, k),
           NEW o \in Offsets
    PROVE  (/\ ~IsEmptyExplicit(blk[k])
            /\ HalfDequeued(blk[k]) => o >= headIndex % BlockSize
            /\ blk[k] = Last(ring) => o < LastValid)
           <=> headIndex <= Base(k) + o /\ Base(k) + o < tailIndex
<1>1. /\ headIndex \in Nat /\ tailIndex \in Nat /\ n \in Nat /\ Base(n) \in Nat
      /\ Full(k) <=> Base(k) + BlockSize <= headIndex
      /\ k < n /\ tailIndex <= Base(n)
  BY AtRest
<1>2. /\ Base(k) \in Nat /\ BlockSize \in Nat /\ BlockSize > 1 /\ Offsets = 0 .. BlockSize - 1
      /\ k # n - 1 => Base(k) + BlockSize < tailIndex
      /\ k = n - 1 => Base(k) + BlockSize = Base(n)
      /\ AtBoundary <=> tailIndex = Base(n)
      /\ k = n - 1 /\ ~AtBoundary => tailIndex % BlockSize = tailIndex - Base(k)
  BY <1>1, EndsOf, BlockSizeIs
<1>3. IsEmptyExplicit(blk[k]) <=> Base(k) + BlockSize <= headIndex
  <2>1. emptyFlags[blk[k]] = DoneIn(k)
    BY BlocksLeft
  <2>2. DoneIn(k) = Offsets <=> Full(k)
    BY DEF DoneIn, Full
  <2> QED
    BY <1>1, <2>1, <2>2 DEF IsEmptyExplicit
<1>4. (blk[k] = Last(ring) => o < LastValid) <=> Base(k) + o < tailIndex
  <2>1. blk[k] = Last(ring) <=> k = n - 1
    BY RingLeft
  <2>2. CASE k # n - 1
    <3>1. Base(k) + o < tailIndex
      BY <1>1, <1>2, <2>2
    <3> QED
      BY <2>1, <2>2, <3>1
  <2>3. CASE k = n - 1
    <3>1. LastValid = tailIndex - Base(k)
      BY <1>1, <1>2, <2>3 DEF LastValid
    <3>2. o < tailIndex - Base(k) <=> Base(k) + o < tailIndex
      BY <1>1, <1>2
    <3> QED
      BY <2>1, <2>3, <3>1, <3>2
  <2> QED
    BY <2>2, <2>3
<1>5. ASSUME ~(Base(k) + BlockSize <= headIndex)
      PROVE  (HalfDequeued(blk[k]) => o >= headIndex % BlockSize) <=> headIndex <= Base(k) + o
  <2>1. HalfDequeued(blk[k]) <=> headIndex % BlockSize # 0 /\ BlockBase(headIndex) = Base(k)
    BY HalfIs
  <2>2. CASE Base(k) <= headIndex
    <3>1. headIndex < Base(k) + BlockSize
      BY <1>1, <1>2, <1>5
    <3>2. headIndex % BlockSize = headIndex - Base(k) /\ BlockBase(headIndex) = Base(k)
      BY <1>1, <2>2, <3>1, OffsetIs
    <3>3. /\ o >= headIndex - Base(k) <=> headIndex <= Base(k) + o
          /\ headIndex - Base(k) = 0 => headIndex <= Base(k) + o
      BY <1>1, <1>2, <2>2
    <3> QED
      BY <2>1, <3>2, <3>3
  <2>3. CASE ~(Base(k) <= headIndex)
    <3>1. PICK j \in Nat : Base(j) <= headIndex /\ headIndex < Base(j) + BlockSize
      BY <1>1, NumberOf
    <3>2. BlockBase(headIndex) = Base(j)
      BY <1>1, <3>1, OffsetIs
    <3>3. Base(j) # Base(k) /\ headIndex <= Base(k) + o
      BY <1>1, <1>2, <2>3, <3>1
    <3> QED
      BY <2>1, <3>2, <3>3
  <2> QED
    BY <2>2, <2>3
<1>6. Base(k) + BlockSize <= headIndex => ~(headIndex <= Base(k) + o)
  BY <1>1, <1>2
<1> QED
  BY <1>3, <1>4, <1>5, <1>6

LEMMA ExplicitExact ==
    ASSUME ClaimInv, NEW n, NEW blk, NEW org, NEW lim, Ghosts(n, blk, org, lim),
           Layout(n, blk, org, lim), Quiescent, isExplicit
    PROVE  /\ DestructedExplicit = UNION {{b} \X {o \in Offsets : elements[b][o] # Gone} : b \in Blocks}
           /\ ToSet(ring) = At("used")
           /\ IsInjective(ring)
<1>1. /\ ToSet(ring) = {b \in Blocks : \E k \in Nat : InUse(n, k) /\ blk[k] = b}
      /\ \A b \in Blocks : home[b] = "used" <=> \E k \in Nat : InUse(n, k) /\ blk[k] = b
  BY RingLeft, BlocksLeft
<1>2. ToSet(ring) = At("used")
  BY <1>1 DEF At
<1>3. \A x : x \in DestructedExplicit <=>
        \E b \in ToSet(ring) : \E o \in Offsets :
          /\ x = <<b, o>> /\ ~IsEmptyExplicit(b)
          /\ HalfDequeued(b) => o >= headIndex % BlockSize
          /\ b = Last(ring) => o < LastValid
  BY DEF DestructedExplicit
<1>4. \A x : x \in UNION {{b} \X {o \in Offsets : elements[b][o] # Gone} : b \in Blocks} <=>
        \E b \in Blocks : \E o \in Offsets : x = <<b, o>> /\ elements[b][o] # Gone
  OBVIOUS
<1>5. ASSUME NEW b \in Blocks, NEW o \in Offsets
      PROVE  (/\ b \in ToSet(ring) /\ ~IsEmptyExplicit(b)
              /\ HalfDequeued(b) => o >= headIndex % BlockSize
              /\ b = Last(ring) => o < LastValid) <=> elements[b][o] # Gone
  <2>1. ASSUME b \in ToSet(ring), ~IsEmptyExplicit(b),
               HalfDequeued(b) => o >= headIndex % BlockSize,
               b = Last(ring) => o < LastValid
        PROVE  elements[b][o] # Gone
    <3>1. PICK k \in Nat : InUse(n, k) /\ blk[k] = b
      BY <1>1, <2>1
    <3>2. headIndex <= Base(k) + o /\ Base(k) + o < tailIndex
      BY <2>1, <3>1, DestroysInBlock
    <3> QED
      BY <3>1, <3>2, BlocksLeft
  <2>2. ASSUME elements[b][o] # Gone
        PROVE  /\ b \in ToSet(ring) /\ ~IsEmptyExplicit(b)
               /\ HalfDequeued(b) => o >= headIndex % BlockSize
               /\ b = Last(ring) => o < LastValid
    <3>1. PICK k \in Nat : /\ InUse(n, k) /\ blk[k] = b
                           /\ headIndex <= Base(k) + o /\ Base(k) + o < tailIndex
      BY <2>2, BlocksLeft
    <3>2. b \in ToSet(ring)
      BY <1>1, <3>1
    <3> QED
      BY <3>1, <3>2, DestroysInBlock
  <2> QED
    BY <2>1, <2>2
<1>6. ToSet(ring) \subseteq Blocks /\ IsInjective(ring)
  BY <1>1, RingLeft
<1> QED
  BY <1>2, <1>3, <1>4, <1>5, <1>6

\* The destructor of the implicit producer finds each element's block.
LEMMA BlockAtIs ==
    ASSUME ClaimInv, NEW n, NEW blk, NEW org, NEW lim, Ghosts(n, blk, org, lim),
           Layout(n, blk, org, lim), Quiescent, ~isExplicit,
           NEW i \in headIndex .. tailIndex - 1, NEW k \in Nat,
           Base(k) <= i, i < Base(k) + BlockSize
    PROVE  InUse(n, k) /\ BlockAt(i) = blk[k] /\ i % BlockSize = i - Base(k)
<1>1. /\ BlockTypes /\ HeaderInv(n, org) /\ n \in Nat /\ org \in [Nat -> Int] /\ ppc = "idle"
      /\ Newest \in 1 .. Newest /\ Header = headers[Newest]
      /\ headIndex \in Nat /\ tailIndex \in Nat /\ Base(n) \in Nat /\ tailIndex <= Base(n)
  BY NewestIs, AtRest DEF Layout, Ghosts, Quiescent
<1>2. i \in Nat /\ i < Base(n) /\ headIndex <= i
  BY <1>1
<1>3. k < n
  <2>1. n \in Int
    BY <1>1
  <2> QED
    BY <1>2, <2>1, NumberBelow
<1>4. InUse(n, k)
  <2>1. Base(k) \in Nat /\ BlockSize \in Nat
    BY BaseOfNat, BlockSizeIs
  <2>2. headIndex < Base(k) + BlockSize
    BY <1>1, <1>2, <2>1
  <2> QED
    BY <1>3, <2>2, AtRest
<1>5. /\ entries[Id(Newest, k, org)].block = blk[k]
      /\ n - 1 \in Nat /\ entries[Id(Newest, n - 1, org)].base = Base(n - 1)
  BY <1>4, EntryLeft
<1>6. PICK m \in Nat : m = n - 1 /\ m \in Int
  BY <1>5
<1>7. Header.cur = Pos(Newest, m, org)
  BY <1>1, <1>3, <1>6 DEF HeaderInv
<1>8. BlockBase(i) = Base(k) /\ i % BlockSize = i - Base(k)
  BY <1>2, OffsetIs
<1>9. (BlockBase(i) - entries[Header.slot[Header.cur]].base) \div BlockSize = k - m
  <2>1. entries[Header.slot[Header.cur]].base = Base(m)
    BY <1>1, <1>5, <1>6, <1>7 DEF Id
  <2>2. k \in Int
    OBVIOUS
  <2> QED
    BY <1>6, <1>8, <2>1, <2>2, Apart
<1>10. (Header.cur + (k - m)) % SizeOf(Header) = Pos(Newest, k, org)
  <2>1. k - m \in Int /\ m + (k - m) = k
    BY <1>6
  <2>2. (Pos(Newest, m, org) + (k - m)) % SizeOf(headers[Newest]) = Pos(Newest, m + (k - m), org)
    BY <1>1, <1>6, <2>1, PosIs
  <2> QED
    BY <1>1, <1>7, <2>1, <2>2
<1>11. BlockAt(i) = entries[Id(Newest, k, org)].block
  BY <1>1, <1>9, <1>10 DEF BlockAt, Id
<1> QED
  BY <1>4, <1>5, <1>8, <1>11

LEMMA ImplicitExact ==
    ASSUME ClaimInv, NEW n, NEW blk, NEW org, NEW lim, Ghosts(n, blk, org, lim),
           Layout(n, blk, org, lim), Quiescent, ~isExplicit
    PROVE  /\ DestructedImplicit = UNION {{b} \X {o \in Offsets : elements[b][o] # Gone} : b \in Blocks}
           /\ FreedImplicit = At("used")
           /\ \A i, j \in headIndex .. tailIndex - 1 :
                BlockAt(i) = BlockAt(j) /\ i % BlockSize = j % BlockSize => i = j
           /\ \A i, j \in BlockEnds : BlockAt(i) = BlockAt(j) => i = j
           /\ \A i \in BlockEnds : BlockAt(i) \notin TailFreed
<1>1. /\ n \in Nat /\ headIndex \in Nat /\ tailIndex \in Nat /\ headIndex <= tailIndex
      /\ Base(n) \in Nat /\ tailIndex <= Base(n) /\ RingInv(n, blk)
      /\ \A k \in Nat : InUse(n, k) <=> k < n /\ headIndex < Base(k) + BlockSize
  BY AtRest DEF Layout
<1>2. /\ \A k \in Nat : InUse(n, k) => blk[k] \in Blocks
      /\ \A b \in Blocks : b \in At("used") <=> \E k \in Nat : InUse(n, k) /\ blk[k] = b
  BY BlocksLeft DEF At
<1>3. \A i \in headIndex .. tailIndex - 1 :
        /\ i \in Nat /\ headIndex <= i /\ i < tailIndex
        /\ \E k \in Nat : Base(k) <= i /\ i < Base(k) + BlockSize
  BY <1>1, NumberOf
<1>4. ASSUME NEW i \in headIndex .. tailIndex - 1
      PROVE  /\ BlockAt(i) \in Blocks /\ BlockAt(i) \in At("used") /\ i % BlockSize \in Offsets
             /\ elements[BlockAt(i)][i % BlockSize] # Gone
  <2>1. PICK k \in Nat : Base(k) <= i /\ i < Base(k) + BlockSize
    BY <1>3
  <2>2. InUse(n, k) /\ BlockAt(i) = blk[k] /\ i % BlockSize = i - Base(k)
    BY <2>1, BlockAtIs
  <2>3. i - Base(k) \in Offsets
    BY <1>3, <2>1, OffsetIs
  <2>4. Base(k) + (i - Base(k)) = i
    BY <1>3, BaseOfNat
  <2>5. blk[k] \in Blocks /\ blk[k] \in At("used")
    BY <1>2, <2>2
  <2>6. elements[blk[k]][i - Base(k)] # Gone
    BY <1>3, <2>2, <2>3, <2>4, <2>5, BlocksLeft
  <2> QED
    BY <2>2, <2>3, <2>5, <2>6
<1>5. ASSUME NEW b \in Blocks, NEW o \in Offsets, elements[b][o] # Gone
      PROVE  \E i \in headIndex .. tailIndex - 1 : <<BlockAt(i), i % BlockSize>> = <<b, o>>
  <2>1. PICK k \in Nat : /\ InUse(n, k) /\ blk[k] = b
                         /\ headIndex <= Base(k) + o /\ Base(k) + o < tailIndex
    BY <1>5, BlocksLeft
  <2>2. PICK i \in Nat : /\ i = Base(k) + o /\ Base(k) <= i /\ i < Base(k) + BlockSize
                         /\ i - Base(k) = o /\ i \in headIndex .. tailIndex - 1
    <3>1. /\ Base(k) + o \in Nat /\ Base(k) <= Base(k) + o /\ Base(k) + o < Base(k) + BlockSize
          /\ Base(k) \in Nat
      BY ElementIs, BaseOfNat
    <3>2. PICK i \in Nat : i = Base(k) + o
      BY <3>1
    <3>3. i - Base(k) = o /\ i \in headIndex .. tailIndex - 1
      BY <1>1, <2>1, <3>1, <3>2, BlockSizeIs
    <3> QED
      BY <3>1, <3>2, <3>3
  <2>3. BlockAt(i) = blk[k] /\ i % BlockSize = i - Base(k)
    BY <2>2, BlockAtIs
  <2> QED
    BY <2>1, <2>2, <2>3
<1>6. DestructedImplicit = UNION {{b} \X {o \in Offsets : elements[b][o] # Gone} : b \in Blocks}
  <2>1. \A x : x \in DestructedImplicit <=>
          \E i \in headIndex .. tailIndex - 1 : x = <<BlockAt(i), i % BlockSize>>
    BY DEF DestructedImplicit
  <2>2. \A x : x \in UNION {{b} \X {o \in Offsets : elements[b][o] # Gone} : b \in Blocks} <=>
          \E b \in Blocks : \E o \in Offsets : x = <<b, o>> /\ elements[b][o] # Gone
    OBVIOUS
  <2>3. ASSUME NEW x PROVE (\E i \in headIndex .. tailIndex - 1 : x = <<BlockAt(i), i % BlockSize>>)
          <=> \E b \in Blocks : \E o \in Offsets : x = <<b, o>> /\ elements[b][o] # Gone
    BY <1>4, <1>5
  <2> QED
    BY <2>1, <2>2, <2>3
\* The tail block is left for itself when no element is in it.
<1>7. n > 0 => /\ headIndex # tailIndex \/ ~AtBoundary <=> InUse(n, n - 1)
               /\ n - 1 \in Nat /\ ToSet(ring) = {blk[n - 1]} /\ ring # <<>>
  <2> SUFFICES ASSUME n > 0
               PROVE  /\ headIndex # tailIndex \/ ~AtBoundary <=> InUse(n, n - 1)
                      /\ n - 1 \in Nat /\ ToSet(ring) = {blk[n - 1]} /\ ring # <<>>
    OBVIOUS
  <2>1. PICK m \in Nat : m = n - 1 /\ m < n
    BY <1>1
  <2>2. Base(m) + BlockSize = Base(n) /\ (AtBoundary <=> tailIndex = Base(n))
    BY <2>1, EndsOf
  <2>3. InUse(n, m) <=> headIndex < Base(n)
    BY <1>1, <2>1, <2>2
  <2>4. headIndex # tailIndex \/ tailIndex # Base(n) <=> headIndex < Base(n)
    BY <1>1
  <2>5. ring = <<blk[m]>>
    BY <1>1, <2>1 DEF RingInv
  <2>6. ToSet(ring) = {blk[m]} /\ ring # <<>>
    BY <2>5 DEF ToSet
  <2> QED
    BY <2>1, <2>2, <2>3, <2>4, <2>6
<1>8. n = 0 => ring = <<>>
  BY <1>1 DEF RingInv
\* The loop gives a block back at its last element, when more elements follow.
<1>e. ASSUME NEW i \in BlockEnds
      PROVE  /\ i \in headIndex .. tailIndex - 1
             /\ \E k \in Nat : /\ i = Base(k) + BlockSize - 1 /\ Base(k) + BlockSize < tailIndex
                               /\ InUse(n, k) /\ BlockAt(i) = blk[k]
  <2>1. /\ i \in Nat /\ headIndex <= i /\ i + 1 < tailIndex /\ (i + 1) % BlockSize = 0
        /\ i \in headIndex .. tailIndex - 1
    BY <1>1 DEF BlockEnds
  <2>2. PICK k \in Nat : Base(k) <= i /\ i < Base(k) + BlockSize
    BY <1>3, <2>1
  <2>3. Base(k) \in Nat /\ BlockSize \in Nat /\ BlockSize > 1
    BY BaseOfNat, BlockSizeIs
  <2>4. i + 1 = Base(k) + BlockSize
    <3> SUFFICES ASSUME i + 1 # Base(k) + BlockSize PROVE FALSE
      OBVIOUS
    <3>1. PICK j \in Nat : j = i + 1
      BY <2>1
    <3>2. Base(k) <= j /\ j < Base(k) + BlockSize /\ j # Base(k)
      BY <2>1, <2>2, <2>3, <3>1
    <3>3. j % BlockSize = j - Base(k)
      BY <3>2, OffsetIs
    <3> QED
      BY <2>1, <2>3, <3>1, <3>2, <3>3
  <2>5. InUse(n, k) /\ BlockAt(i) = blk[k]
    BY <2>1, <2>2, BlockAtIs
  <2>6. i = Base(k) + BlockSize - 1 /\ Base(k) + BlockSize < tailIndex
    BY <2>1, <2>3, <2>4
  <2> QED
    BY <2>1, <2>5, <2>6
\* A block in use has one number.
<1>i. \A j, k \in Nat : InUse(n, j) /\ InUse(n, k) /\ blk[j] = blk[k] => j = k
  BY DEF Layout, BlocksInv
<1>9. ASSUME NEW b \in FreedImplicit PROVE b \in At("used")
  <2>1. CASE b \in {BlockAt(i) : i \in BlockEnds}
    BY <1>4, <1>e, <2>1
  <2>2. CASE ring # <<>> /\ (headIndex # tailIndex \/ ~AtBoundary) /\ b \in ToSet(ring)
    <3>1. n > 0
      BY <1>1, <1>8, <2>2
    <3>2. InUse(n, n - 1) /\ n - 1 \in Nat /\ b = blk[n - 1]
      BY <1>7, <2>2, <3>1
    <3> QED
      BY <1>2, <3>2
  <2> QED
    BY <1>9, <2>1, <2>2 DEF FreedImplicit, TailFreed
<1>10. ASSUME NEW b \in At("used") PROVE b \in FreedImplicit
  <2>1. b \in Blocks
    BY DEF At
  <2>2. PICK k \in Nat : InUse(n, k) /\ blk[k] = b
    BY <1>2, <2>1
  <2>3. k < n /\ headIndex < Base(k) + BlockSize
    BY <1>1, <2>2
  <2>4. CASE k = n - 1
    <3>1. n > 0
      BY <1>1, <2>3
    <3>2. (headIndex # tailIndex \/ ~AtBoundary) /\ b \in ToSet(ring) /\ ring # <<>>
      BY <1>7, <2>2, <2>4, <3>1
    <3> QED
      BY <3>2 DEF FreedImplicit, TailFreed
  <2>5. CASE k # n - 1
    <3>1. Base(k) \in Nat /\ BlockSize \in Nat /\ BlockSize > 1 /\ Base(k) + BlockSize < tailIndex
      BY <2>3, <2>5, EndsOf, BlockSizeIs
    <3>2. PICK i \in Nat : i = Base(k) + BlockSize - 1
      BY <3>1
    <3>3. /\ i \in headIndex .. tailIndex - 2 /\ i \in headIndex .. tailIndex - 1
          /\ Base(k) <= i /\ i < Base(k) + BlockSize /\ i + 1 = Base(k) + BlockSize
      BY <1>1, <2>3, <3>1, <3>2
    <3>4. (i + 1) % BlockSize = 0
      <4>1. PICK m \in Nat : m = k + 1
        OBVIOUS
      <4>2. Base(m) = Base(k) + BlockSize
        BY <4>1, BaseIs
      <4>3. PICK j \in Nat : j = i + 1
        BY <3>2, <3>1
      <4>4. Base(m) = j /\ Base(m) <= j /\ j < Base(m) + BlockSize
        BY <3>1, <3>3, <4>2, <4>3
      <4>5. j % BlockSize = j - Base(m)
        BY <4>4, OffsetIs
      <4> QED
        BY <4>3, <4>4, <4>5
    <3>5. i \in BlockEnds /\ BlockAt(i) = blk[k]
      BY <3>3, <3>4, BlockAtIs DEF BlockEnds
    <3> QED
      BY <2>2, <3>5 DEF FreedImplicit
  <2> QED
    BY <2>4, <2>5
<1>11. ASSUME NEW i \in headIndex .. tailIndex - 1, NEW j \in headIndex .. tailIndex - 1,
              BlockAt(i) = BlockAt(j), i % BlockSize = j % BlockSize
       PROVE  i = j
  <2>1. PICK k \in Nat : Base(k) <= i /\ i < Base(k) + BlockSize
    BY <1>3
  <2>2. PICK m \in Nat : Base(m) <= j /\ j < Base(m) + BlockSize
    BY <1>3
  <2>3. InUse(n, k) /\ BlockAt(i) = blk[k] /\ i % BlockSize = i - Base(k)
    BY <2>1, BlockAtIs
  <2>4. InUse(n, m) /\ BlockAt(j) = blk[m] /\ j % BlockSize = j - Base(m)
    BY <2>2, BlockAtIs
  <2>5. k = m
    BY <1>i, <1>11, <2>3, <2>4
  <2>6. i \in Nat /\ j \in Nat /\ Base(k) \in Nat
    BY <1>3, BaseOfNat
  <2> QED
    BY <1>11, <2>3, <2>4, <2>5, <2>6
<1>12. ASSUME NEW i \in BlockEnds, NEW j \in BlockEnds, BlockAt(i) = BlockAt(j) PROVE i = j
  <2>1. PICK k \in Nat : i = Base(k) + BlockSize - 1 /\ InUse(n, k) /\ BlockAt(i) = blk[k]
    BY <1>e
  <2>2. PICK m \in Nat : j = Base(m) + BlockSize - 1 /\ InUse(n, m) /\ BlockAt(j) = blk[m]
    BY <1>e
  <2>3. k = m
    BY <1>i, <1>12, <2>1, <2>2
  <2> QED
    BY <2>1, <2>2, <2>3
<1>13. ASSUME NEW i \in BlockEnds, BlockAt(i) \in TailFreed PROVE FALSE
  <2>1. PICK k \in Nat : /\ i = Base(k) + BlockSize - 1 /\ Base(k) + BlockSize < tailIndex
                         /\ InUse(n, k) /\ BlockAt(i) = blk[k]
    BY <1>e
  <2>2. ring # <<>> /\ (headIndex # tailIndex \/ ~AtBoundary) /\ BlockAt(i) \in ToSet(ring)
    BY <1>13 DEF TailFreed
  <2>3. n > 0
    BY <1>1, <1>8, <2>2
  <2>4. InUse(n, n - 1) /\ n - 1 \in Nat /\ BlockAt(i) = blk[n - 1]
    BY <1>7, <2>2, <2>3
  <2>5. k = n - 1
    BY <1>i, <2>1, <2>4
  <2>6. Base(k) + BlockSize = Base(n)
    BY <1>1, <2>5, <2>3, EndsOf
  <2> QED
    BY <1>1, <2>1, <2>6
<1> QED
  BY <1>6, <1>9, <1>10, <1>11, <1>12, <1>13

LEMMA BlocksDestroyed == ClaimInv /\ BlockInv => DestructorExact
<1> SUFFICES ASSUME ClaimInv, BlockInv, alive, Quiescent
             PROVE  /\ NothingTwice
                    /\ Destructed = UNION {{b} \X {o \in Offsets : elements[b][o] # Gone} : b \in Blocks}
                    /\ Freed = At("used")
  BY DEF DestructorExact
<1>1. PICK n, blk, org, lim : Ghosts(n, blk, org, lim) /\ Layout(n, blk, org, lim)
  BY DEF BlockInv
<1>2. CASE isExplicit
  BY <1>1, <1>2, ExplicitExact DEF Destructed, Freed, NothingTwice
<1>3. CASE ~isExplicit
  BY <1>1, <1>3, ImplicitExact DEF Destructed, Freed, NothingTwice
<1> QED
  BY <1>2, <1>3

\* The destructors, for any sizes of blocks and index: they destroy every
\* element that is left and none that is not there, and none twice, though the
\* block index went round or grew, and give back every block of the sub-queue
\* exactly once.
THEOREM DestructorsAreExact == Spec /\ []NobodyOversleeps => []DestructorExact
<1>1. ClaimInv /\ BlockInv => DestructorExact
  BY BlocksDestroyed
<1> QED
  BY <1>1, SubQueueSafe, PTL

=============================================================================
