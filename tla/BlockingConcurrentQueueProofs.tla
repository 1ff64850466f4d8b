------------------- MODULE BlockingConcurrentQueueProofs -------------------
(***************************************************************************)
(* The semaphore and the blocking queue, for any finite sets of producers  *)
(* and consumers, any batch size and any quota.                            *)
(*                                                                         *)
(* First the semaphore alone: SemaInv relates m_count to the threads       *)
(* between their fetch_sub and their permit, and every step is one of the  *)
(* counting semaphore.  Then the queue around it: a permit is an element.  *)
(***************************************************************************)
EXTENDS BlockingConcurrentQueue, FiniteSetTheorems, TLAPS

-----------------------------------------------------------------------------
(* Sums                                                                     *)

\* The units of one element of the domain.
LEMMA UnitsOfOne ==
    ASSUME NEW x, NEW n \in Nat
    PROVE  /\ IsFiniteSet({x} \X (1 .. n))
           /\ Cardinality({x} \X (1 .. n)) = n
<1>1. IsFiniteSet(1 .. n) /\ Cardinality(1 .. n) = n
  BY FS_Interval
<1>2. IsFiniteSet({x}) /\ Cardinality({x}) = 1
  BY FS_Singleton
<1> QED
  BY <1>1, <1>2, FS_Product

\* The units of a function with a finite domain are finitely many.
LEMMA UnitsFinite ==
    ASSUME NEW S, IsFiniteSet(S), NEW f \in [S -> Nat]
    PROVE  IsFiniteSet(Units(f)) /\ Total(f) \in Nat
<1> DEFINE Parts == {{x} \X (1 .. f[x]) : x \in S}
           part  == [x \in S |-> {x} \X (1 .. f[x])]
<1>1. IsFiniteSet(Parts)
  <2>1. part \in Surjection(S, Parts)
    BY DEF Surjection
  <2> QED
    BY <2>1, FS_Surjection
<1>2. \A P \in Parts : IsFiniteSet(P)
  <2>1. \A x \in S : IsFiniteSet({x} \X (1 .. f[x]))
    BY UnitsOfOne
  <2> QED
    BY <2>1
<1>3. Units(f) = UNION Parts
  BY DEF Units
<1>4. IsFiniteSet(Units(f))
  BY <1>1, <1>2, <1>3, FS_UNION
<1> QED
  BY <1>4, FS_CardinalityType DEF Total

\* The sum without the value at x.
LEMMA TotalSplit ==
    ASSUME NEW S, IsFiniteSet(S), NEW f \in [S -> Nat], NEW x \in S
    PROVE  LET Rest == UNION {{y} \X (1 .. f[y]) : y \in S \ {x}}
           IN  IsFiniteSet(Rest) /\ Total(f) = Cardinality(Rest) + f[x]
<1> DEFINE Rest == UNION {{y} \X (1 .. f[y]) : y \in S \ {x}}
           One  == {x} \X (1 .. f[x])
<1>1. Units(f) = Rest \cup One
  BY DEF Units
<1>2. Rest \cap One = {}
  OBVIOUS
<1>3. IsFiniteSet(Units(f)) /\ IsFiniteSet(Rest)
  BY <1>1, UnitsFinite, FS_Subset
<1>4. IsFiniteSet(One) /\ Cardinality(One) = f[x]
  BY UnitsOfOne
<1> HIDE DEF Rest, One
<1>5. Cardinality(Rest \cup One) = Cardinality(Rest) + Cardinality(One) - Cardinality(Rest \cap One)
  BY <1>3, <1>4, FS_Union
<1>6. Cardinality(Rest \cap One) = 0
  BY <1>2, FS_EmptySet
<1>7. Cardinality(Rest) \in Nat
  BY <1>3, FS_CardinalityType
<1>8. Total(f) = Cardinality(Rest) + f[x]
  BY <1>1, <1>4, <1>5, <1>6, <1>7 DEF Total
<1> QED
  BY <1>3, <1>8 DEF Rest

\* A change at x changes the sum by as much.
LEMMA TotalChange ==
    ASSUME NEW S, IsFiniteSet(S), NEW f \in [S -> Nat], NEW g \in [S -> Nat], NEW x \in S,
           \A y \in S \ {x} : g[y] = f[y]
    PROVE  Total(g) = Total(f) - f[x] + g[x]
<1> DEFINE RestF == UNION {{y} \X (1 .. f[y]) : y \in S \ {x}}
           RestG == UNION {{y} \X (1 .. g[y]) : y \in S \ {x}}
<1>1. RestF = RestG
  OBVIOUS
<1>2. IsFiniteSet(RestF) /\ Total(f) = Cardinality(RestF) + f[x]
  BY TotalSplit
<1>3. Total(g) = Cardinality(RestG) + g[x]
  BY TotalSplit
<1>4. Cardinality(RestF) \in Nat
  BY <1>2, FS_CardinalityType
<1> HIDE DEF RestF, RestG
<1> QED
  BY <1>1, <1>2, <1>3, <1>4

\* The sum of zeros.
LEMMA TotalZero ==
    ASSUME NEW S, NEW f \in [S -> {0}]
    PROVE  Total(f) = 0
<1>1. Units(f) = {}
  BY DEF Units
<1> QED
  BY <1>1, FS_EmptySet DEF Total

\* A set that one element enters.
LEMMA Enters ==
    ASSUME NEW S, IsFiniteSet(S), NEW A \in SUBSET S, NEW B \in SUBSET S, NEW x \in S,
           x \notin A, x \in B, \A y \in S \ {x} : y \in A <=> y \in B
    PROVE  Cardinality(B) = Cardinality(A) + 1
<1>1. IsFiniteSet(A)
  BY FS_Subset
<1>2. B = A \cup {x}
  OBVIOUS
<1> QED
  BY <1>1, <1>2, FS_AddElement

-----------------------------------------------------------------------------
(* The semaphore                                                            *)

SleepStates == {"wait", "recover", "trywait", "undo"}

\* What a waiter knows at each point of waitMany: before its permit it has
\* none, after it there is room for more; the count it is about to take from
\* was positive, the one it is about to undo was negative.
WaiterInv(c) ==
    /\ got[c] <= wanted[c]
    /\ at[c] = "out" => got[c] = 0
    /\ at[c] # "out" => wanted[c] > 0
    /\ at[c] \in SleepStates \cup {"spin", "spincas"} => got[c] = 0
    /\ at[c] \in {"try", "more"} => got[c] < wanted[c]
    /\ at[c] = "spincas" => oldCount[c] > 0
    /\ at[c] = "undo" => oldCount[c] < 0

SemaInv ==
    /\ SemaTypeOK
    /\ at = [t \in Producers \cup Consumers |-> at[t]]
    /\ SleepersAccounted
    /\ \A c \in Consumers : WaiterInv(c)

\* No permits at first.
LEMMA NoPermits == Init => Permits = 0
<1> SUFFICES ASSUME Init PROVE Permits = 0
  OBVIOUS
<1>1. {p \in Producers : at[p] = "post"} = {}
  BY DEF Init
<1> QED
  BY <1>1, FS_EmptySet DEF Init, Permits, Owed, AvailableApprox

\* The semaphore starts in the invariant.
LEMMA SemaInit == Init => SemaInv
<1> SUFFICES ASSUME Init PROVE SemaInv
  OBVIOUS
<1>1. Sleepers = {} /\ {p \in Producers : at[p] = "post"} = {}
  BY DEF Init, Sleepers
<1>2. SleepersAccounted
  BY <1>1, FS_EmptySet DEF Init, SleepersAccounted, Owed
<1>3. SemaTypeOK
  BY SemaphoreAssumption DEF Init, SemaTypeOK
<1>4. \A c \in Consumers : WaiterInv(c)
  BY DEF Init, WaiterInv, SleepStates
<1> QED
  BY <1>2, <1>3, <1>4 DEF SemaInv, Init

\* The counts are numbers.
LEMMA CountTypes ==
    SemaInv => /\ Owed \in Nat /\ Cardinality(Sleepers) \in Nat
               /\ AvailableApprox \in Nat /\ Permits \in Nat
<1> SUFFICES ASSUME SemaInv PROVE /\ Owed \in Nat /\ Cardinality(Sleepers) \in Nat
                                  /\ AvailableApprox \in Nat /\ Permits \in Nat
  OBVIOUS
<1>1. Owed \in Nat
  BY SemaphoreAssumption, FS_Subset, FS_CardinalityType DEF Owed
<1>2. Cardinality(Sleepers) \in Nat
  BY SemaphoreAssumption, FS_Subset, FS_CardinalityType DEF Sleepers
<1>3. AvailableApprox \in Nat
  BY DEF SemaInv, SemaTypeOK, AvailableApprox
<1> QED
  BY <1>1, <1>2, <1>3 DEF SemaInv, SemaTypeOK, Permits

\* A step of a waiter owes nobody a post, and moves only itself in or out of
\* the sleepers.
LEMMA ConsumerMoves ==
    ASSUME SemaInv, NEW c \in Consumers, NEW to, at' = [at EXCEPT ![c] = to]
    PROVE  /\ Owed' = Owed
           /\ (at[c] \in SleepStates <=> to \in SleepStates)
                => Cardinality(Sleepers)' = Cardinality(Sleepers)
           /\ at[c] \notin SleepStates /\ to \in SleepStates
                => Cardinality(Sleepers)' = Cardinality(Sleepers) + 1
           /\ at[c] \in SleepStates /\ to \notin SleepStates
                => Cardinality(Sleepers)' = Cardinality(Sleepers) - 1
<1>1. \A t \in Producers \cup Consumers : at'[t] = IF t = c THEN to ELSE at[t]
  BY DEF SemaInv
<1>2. Owed' = Owed
  BY <1>1, SemaphoreAssumption DEF Owed
<1>3. \A d \in Consumers : d # c => (d \in Sleepers <=> d \in Sleepers')
  BY <1>1 DEF Sleepers
<1>4. (c \in Sleepers <=> at[c] \in SleepStates) /\ (c \in Sleepers' <=> to \in SleepStates)
  BY <1>1 DEF Sleepers, SleepStates
<1>5. Sleepers \in SUBSET Consumers /\ Sleepers' \in SUBSET Consumers
  BY DEF Sleepers
<1>6. CASE at[c] \in SleepStates <=> to \in SleepStates
  <2>1. Sleepers' = Sleepers
    BY <1>3, <1>4, <1>5, <1>6
  <2> QED
    BY <1>2, <1>6, <2>1
<1>7. CASE at[c] \notin SleepStates /\ to \in SleepStates
  <2>1. Cardinality(Sleepers') = Cardinality(Sleepers) + 1
    BY <1>3, <1>4, <1>5, <1>7, SemaphoreAssumption, Enters
  <2> QED
    BY <1>2, <1>7, <2>1
<1>8. CASE at[c] \in SleepStates /\ to \notin SleepStates
  <2>1. Cardinality(Sleepers) = Cardinality(Sleepers') + 1
    BY <1>3, <1>4, <1>5, <1>8, SemaphoreAssumption, Enters
  <2>2. Cardinality(Sleepers') \in Nat
    BY <1>5, SemaphoreAssumption, FS_Subset, FS_CardinalityType
  <2> QED
    BY <1>2, <1>8, <2>1, <2>2
<1> QED
  BY <1>6, <1>7, <1>8

\* signal() adds a permit: to the count, or as a post that it owes.
LEMMA SignalStep ==
    ASSUME SemaInv, NEW p \in Producers, Signal(p)
    PROVE  SemaInv' /\ Permits' = Permits + 1 /\ got' = got
<1> DEFINE to == IF m_count < 0 THEN "post" ELSE "out"
<1>1. \A t \in Producers \cup Consumers : at'[t] = IF t = p THEN to ELSE at[t]
  BY DEF SemaInv, Signal, Go
<1>2. at' = [t \in Producers \cup Consumers |-> at'[t]]
  BY DEF SemaInv, Signal, Go
<1>3. SemaTypeOK'
  BY <1>1, SemaphoreAssumption DEF SemaInv, SemaTypeOK, Signal
<1>4. \A c \in Consumers : WaiterInv(c)'
  BY <1>1, SemaphoreAssumption DEF SemaInv, WaiterInv, Signal
<1>5. Sleepers' = Sleepers
  BY <1>1, SemaphoreAssumption DEF Sleepers
<1>6. Owed' = Owed + (IF m_count < 0 THEN 1 ELSE 0)
  <2>1. CASE m_count < 0
    <3>1. at[p] # "post" /\ at'[p] = "post"
      BY <1>1, <2>1 DEF Signal, Go
    <3> QED
      BY <1>1, <2>1, <3>1, SemaphoreAssumption, Enters DEF Owed
  <2>2. CASE ~(m_count < 0)
    <3>1. {q \in Producers : at'[q] = "post"} = {q \in Producers : at[q] = "post"}
      BY <1>1, <2>2 DEF Signal, Go
    <3> QED
      BY <2>2, <3>1, CountTypes DEF Owed
  <2> QED
    BY <2>1, <2>2
<1>7. /\ m_count \in Int /\ m_sema \in Nat /\ Owed \in Nat
      /\ m_count' = m_count + 1 /\ m_sema' = m_sema /\ got' = got
  BY CountTypes DEF SemaInv, SemaTypeOK, Signal
<1>8. SleepersAccounted'
  BY <1>5, <1>6, <1>7 DEF SemaInv, SleepersAccounted
<1>9. Permits' = Permits + 1
  BY <1>6, <1>7 DEF Permits, AvailableApprox
<1> QED
  BY <1>2, <1>3, <1>4, <1>7, <1>8, <1>9 DEF SemaInv

\* The post that was owed is there.
LEMMA PostStep ==
    ASSUME SemaInv, NEW p \in Producers, Post(p)
    PROVE  SemaInv' /\ Permits' = Permits /\ got' = got
<1>1. \A t \in Producers \cup Consumers : at'[t] = IF t = p THEN "out" ELSE at[t]
  BY DEF SemaInv, Post, Go
<1>2. at' = [t \in Producers \cup Consumers |-> at'[t]]
  BY DEF SemaInv, Post, Go
<1>3. SemaTypeOK'
  BY <1>1, SemaphoreAssumption DEF SemaInv, SemaTypeOK, Post
<1>4. \A c \in Consumers : WaiterInv(c)'
  BY <1>1, SemaphoreAssumption DEF SemaInv, WaiterInv, Post
<1>5. Sleepers' = Sleepers
  BY <1>1, SemaphoreAssumption DEF Sleepers
<1>6. Owed = Owed' + 1
  <2>1. at[p] = "post" /\ at'[p] # "post"
    BY <1>1 DEF Post, Go
  <2> QED
    BY <1>1, <2>1, SemaphoreAssumption, Enters DEF Owed
<1>7. Owed' \in Nat
  BY SemaphoreAssumption, FS_Subset, FS_CardinalityType DEF Owed
<1>8. /\ m_count \in Int /\ m_sema \in Nat
      /\ m_count' = m_count /\ m_sema' = m_sema + 1 /\ got' = got
  BY DEF SemaInv, SemaTypeOK, Post
<1>9. SleepersAccounted' /\ Permits' = Permits
  BY <1>5, <1>6, <1>7, <1>8 DEF SemaInv, SleepersAccounted, Permits, AvailableApprox
<1> QED
  BY <1>2, <1>3, <1>4, <1>8, <1>9 DEF SemaInv

\* A step of waiter c changes nobody else's part of the invariant.
LEMMA OneWaiter ==
    ASSUME SemaInv, NEW c \in Consumers, NEW to, at' = [at EXCEPT ![c] = to],
           to \in {"out", "try", "spin", "spincas", "wait", "recover", "trywait", "undo",
                   "more", "done"},
           NEW o \in Int, oldCount' = [oldCount EXCEPT ![c] = o],
           NEW w \in 0 .. MaxBatch, wanted' = [wanted EXCEPT ![c] = w],
           NEW g \in 0 .. MaxBatch, got' = [got EXCEPT ![c] = g],
           m_count' \in Int, m_sema' \in Nat,
           WaiterInv(c)', SleepersAccounted'
    PROVE  SemaInv'
<1>1. \A t \in Producers \cup Consumers : at'[t] = IF t = c THEN to ELSE at[t]
  BY DEF SemaInv
<1>2. at' = [t \in Producers \cup Consumers |-> at'[t]]
  BY DEF SemaInv
<1>3. SemaTypeOK'
  BY <1>1, SemaphoreAssumption DEF SemaInv, SemaTypeOK
<1>4. ASSUME NEW d \in Consumers, d # c PROVE WaiterInv(d)'
  BY <1>1, <1>4 DEF SemaInv, SemaTypeOK, WaiterInv
<1> QED
  BY <1>2, <1>3, <1>4 DEF SemaInv

\* What a step of waitMany does to the permits: it takes k of them, or none.
Redeems(c, k) ==
    /\ k \in 0 .. Permits
    /\ Permits' = Permits - k
    /\ got' = [got EXCEPT ![c] = @ + k]

\* A step that changes neither the count nor the permits.
LEMMA IdleStep ==
    ASSUME SemaInv, NEW c \in Consumers, NEW to, at' = [at EXCEPT ![c] = to],
           to \in {"out", "try", "spin", "spincas", "wait", "recover", "trywait", "undo",
                   "more", "done"},
           at[c] \in SleepStates <=> to \in SleepStates,
           NEW o \in Int, oldCount' = [oldCount EXCEPT ![c] = o],
           NEW w \in 0 .. MaxBatch, wanted' = [wanted EXCEPT ![c] = w],
           UNCHANGED <<m_count, m_sema, got>>, WaiterInv(c)'
    PROVE  SemaInv' /\ Redeems(c, 0)
<1>1. m_count \in Int /\ m_sema \in Nat /\ got \in [Consumers -> 0 .. MaxBatch]
  BY DEF SemaInv, SemaTypeOK
<1>2. Owed' = Owed /\ Cardinality(Sleepers)' = Cardinality(Sleepers)
  BY ConsumerMoves
<1>3. SleepersAccounted' /\ Permits' = Permits
  BY <1>2 DEF SemaInv, SleepersAccounted, Permits, AvailableApprox
<1>4. got' = [got EXCEPT ![c] = got[c]] /\ got[c] \in 0 .. MaxBatch
  BY <1>1
<1>5. SemaInv'
  BY <1>1, <1>3, <1>4, OneWaiter
<1>6. Redeems(c, 0)
  BY <1>1, <1>3, CountTypes DEF Redeems
<1> QED
  BY <1>5, <1>6

\* compare_exchange on a positive count.
LEMMA CasStep ==
    ASSUME SemaInv, NEW c \in Consumers, NEW from \in {"try", "spincas"},
           NEW failed \in {"try", "spin"}, from = "try" <=> failed = "try",
           oldCount[c] > 0, Cas(c, from, failed)
    PROVE  SemaInv' /\ \E k \in Nat : Redeems(c, k)
<1>1. /\ m_count \in Int /\ m_sema \in Nat /\ oldCount \in [Consumers -> Int]
      /\ wanted \in [Consumers -> 0 .. MaxBatch] /\ got \in [Consumers -> 0 .. MaxBatch]
      /\ Owed \in Nat /\ Permits \in Nat /\ MaxBatch \in Nat
  BY CountTypes, SemaphoreAssumption DEF SemaInv, SemaTypeOK
<1>2. /\ at[c] = from /\ got[c] < wanted[c]
      /\ from = "spincas" => got[c] = 0
  BY <1>1 DEF Cas, Go, SemaInv, WaiterInv
<1>4. CASE m_count = oldCount[c]
  <2> DEFINE k == Greedy(c)
  <2>1. k \in 1 .. m_count /\ got[c] + k \in 0 .. MaxBatch /\ got[c] + k <= wanted[c]
    BY <1>1, <1>2, <1>4 DEF Greedy
  <2>2. /\ at' = [at EXCEPT ![c] = "done"] /\ at'[c] = "done"
        /\ m_count' = m_count - k /\ m_sema' = m_sema
        /\ got' = [got EXCEPT ![c] = @ + k] /\ UNCHANGED <<oldCount, wanted>>
    BY <1>4 DEF Cas, Go, Take, SemaInv
  <2> HIDE DEF k
  <2>3. Owed' = Owed /\ Cardinality(Sleepers)' = Cardinality(Sleepers)
    BY <1>2, <2>2, ConsumerMoves DEF SleepStates
  <2>4. SleepersAccounted' /\ Permits' = Permits - k /\ k \in 0 .. Permits
    BY <1>1, <2>1, <2>2, <2>3 DEF SemaInv, SleepersAccounted, Permits, AvailableApprox
  <2>5. WaiterInv(c)'
    BY <1>1, <1>2, <2>1, <2>2 DEF WaiterInv, SleepStates
  <2>6. /\ got' = [got EXCEPT ![c] = got[c] + k]
        /\ oldCount' = [oldCount EXCEPT ![c] = oldCount[c]] /\ oldCount[c] \in Int
        /\ wanted' = [wanted EXCEPT ![c] = wanted[c]] /\ wanted[c] \in 0 .. MaxBatch
        /\ m_count' \in Int /\ m_sema' \in Nat
    BY <1>1, <2>1, <2>2
  <2>7. SemaInv'
    BY <2>1, <2>2, <2>4, <2>5, <2>6, OneWaiter
  <2>8. k \in Nat /\ Redeems(c, k)
    BY <1>1, <2>1, <2>2, <2>4 DEF Redeems
  <2> QED
    BY <2>7, <2>8
<1>5. CASE m_count # oldCount[c]
  <2>1. /\ at' = [at EXCEPT ![c] = failed] /\ at'[c] = failed
        /\ oldCount' = [oldCount EXCEPT ![c] = m_count]
        /\ UNCHANGED <<m_count, m_sema, wanted, got>>
    BY <1>5 DEF Cas, Go, Load, SemaInv
  <2>2. WaiterInv(c)'
    BY <1>1, <1>2, <2>1 DEF WaiterInv, SleepStates
  <2>3. wanted' = [wanted EXCEPT ![c] = wanted[c]] /\ wanted[c] \in 0 .. MaxBatch
    BY <1>1, <2>1
  <2>4. SemaInv' /\ Redeems(c, 0)
    BY <1>1, <1>2, <2>1, <2>2, <2>3, IdleStep DEF SleepStates
  <2> QED
    BY <2>4
<1> QED
  BY <1>4, <1>5

\* The permit of the wait itself, from the count or from a post.
LEMMA GrantedStep ==
    ASSUME SemaInv, NEW c \in Consumers, NEW from \in {"spin", "wait", "trywait"},
           Granted(c, from), UNCHANGED <<oldCount, wanted>>,
           IF from = "spin" THEN m_count > 0 /\ m_count' = m_count - 1 /\ UNCHANGED m_sema
                            ELSE m_sema > 0 /\ m_sema' = m_sema - 1 /\ UNCHANGED m_count
    PROVE  SemaInv' /\ Redeems(c, 1)
<1> DEFINE to == IF wanted[c] > 1 THEN "more" ELSE "done"
<1>1. /\ m_count \in Int /\ m_sema \in Nat /\ oldCount \in [Consumers -> Int]
      /\ wanted \in [Consumers -> 0 .. MaxBatch] /\ got \in [Consumers -> 0 .. MaxBatch]
      /\ Owed \in Nat /\ Permits \in Nat /\ MaxBatch \in Nat
  BY CountTypes, SemaphoreAssumption DEF SemaInv, SemaTypeOK
<1>2. at[c] = from /\ got[c] = 0 /\ wanted[c] > 0
  BY DEF Granted, Go, SemaInv, WaiterInv, SleepStates
<1>3. at' = [at EXCEPT ![c] = to] /\ at'[c] = to /\ got' = [got EXCEPT ![c] = @ + 1]
  BY DEF SemaInv, Granted, Go, Take
<1>4. /\ Owed' = Owed
      /\ Cardinality(Sleepers)' = Cardinality(Sleepers) - (IF from = "spin" THEN 0 ELSE 1)
  <2>1. (from \in SleepStates <=> from # "spin") /\ to \notin SleepStates
    BY DEF SleepStates
  <2>2. at[c] \in SleepStates <=> from # "spin"
    BY <1>2, <2>1
  <2> HIDE DEF to
  <2>3. /\ Owed' = Owed
        /\ from = "spin" => Cardinality(Sleepers)' = Cardinality(Sleepers)
        /\ from # "spin" => Cardinality(Sleepers)' = Cardinality(Sleepers) - 1
    BY <1>3, <2>1, <2>2, ConsumerMoves
  <2> QED
    BY <2>3, CountTypes
<1>5. SleepersAccounted' /\ Permits' = Permits - 1 /\ 1 \in 0 .. Permits
  BY <1>1, <1>4 DEF SemaInv, SleepersAccounted, Permits, AvailableApprox
<1>6. WaiterInv(c)'
  BY <1>1, <1>2, <1>3 DEF WaiterInv, SleepStates
<1>7. /\ got' = [got EXCEPT ![c] = 1] /\ 1 \in 0 .. MaxBatch
      /\ oldCount' = [oldCount EXCEPT ![c] = oldCount[c]] /\ oldCount[c] \in Int
      /\ wanted' = [wanted EXCEPT ![c] = wanted[c]] /\ wanted[c] \in 0 .. MaxBatch
      /\ m_count' \in Int /\ m_sema' \in Nat
  BY <1>1, <1>2, <1>3
<1>8. SemaInv'
  BY <1>3, <1>5, <1>6, <1>7, OneWaiter
<1> QED
  BY <1>3, <1>5, <1>8 DEF Redeems

\* Every step of waitMany keeps the invariant and takes permits that are there.
LEMMA WaitStepStep ==
    ASSUME SemaInv, NEW c \in Consumers, WaitStep(c)
    PROVE  SemaInv' /\ \E k \in Nat : Redeems(c, k)
<1>1. /\ m_count \in Int /\ m_sema \in Nat /\ oldCount \in [Consumers -> Int]
      /\ wanted \in [Consumers -> 0 .. MaxBatch] /\ got \in [Consumers -> 0 .. MaxBatch]
      /\ Owed \in Nat /\ Permits \in Nat /\ MaxBatch \in Nat
  BY CountTypes, SemaphoreAssumption DEF SemaInv, SemaTypeOK
<1>2. wanted = [wanted EXCEPT ![c] = wanted[c]] /\ wanted[c] \in 0 .. MaxBatch
  BY <1>1
<1>3. oldCount = [oldCount EXCEPT ![c] = oldCount[c]] /\ oldCount[c] \in Int
  BY <1>1
<1>4. got = [got EXCEPT ![c] = got[c]] /\ got[c] \in 0 .. MaxBatch
  BY <1>1
<1>5. WaiterInv(c) /\ at = [t \in Producers \cup Consumers |-> at[t]]
  BY DEF SemaInv
<1>6. ASSUME Redeems(c, 0) \/ Redeems(c, 1) PROVE \E k \in Nat : Redeems(c, k)
  BY <1>6
<1>7. CASE Try_Cas(c)
  BY <1>7, CasStep DEF Try_Cas
<1>8. CASE Try_None(c)
  <2> DEFINE to == IF got[c] = 0 THEN "spin" ELSE "done"
  <2>1. at[c] = "try" /\ at' = [at EXCEPT ![c] = to] /\ at'[c] = to
    BY <1>5, <1>8 DEF Try_None, Go
  <2>2. UNCHANGED <<m_count, m_sema, oldCount, wanted, got>>
    BY <1>8 DEF Try_None
  <2>3. WaiterInv(c)'
    BY <1>1, <1>5, <2>1, <2>2 DEF WaiterInv, SleepStates
  <2>4. at[c] \notin SleepStates /\ to \notin SleepStates
    BY <2>1 DEF SleepStates
  <2>5. SemaInv' /\ Redeems(c, 0)
    BY <1>2, <1>3, <2>1, <2>2, <2>3, <2>4, IdleStep
  <2> QED
    BY <1>6, <2>5
<1>9. CASE Spin_Load(c)
  <2>1. at[c] = "spin" /\ at' = [at EXCEPT ![c] = "spincas"] /\ at'[c] = "spincas"
    BY <1>5, <1>9 DEF Spin_Load, Go
  <2>2. /\ oldCount' = [oldCount EXCEPT ![c] = m_count] /\ m_count > 0
        /\ UNCHANGED <<m_count, m_sema, wanted, got>>
    BY <1>9 DEF Spin_Load, Load
  <2>3. WaiterInv(c)'
    BY <1>1, <1>5, <2>1, <2>2 DEF WaiterInv, SleepStates
  <2>4. at[c] \notin SleepStates /\ "spincas" \notin SleepStates
    BY <2>1 DEF SleepStates
  <2>5. SemaInv' /\ Redeems(c, 0)
    BY <1>1, <1>2, <2>1, <2>2, <2>3, <2>4, IdleStep
  <2> QED
    BY <1>6, <2>5
<1>10. CASE Spin_Cas(c)
  <2>1. oldCount[c] > 0
    BY <1>5, <1>10 DEF Spin_Cas, Cas, Go, WaiterInv
  <2> QED
    BY <1>10, <2>1, CasStep DEF Spin_Cas
<1>11. CASE Spin_Sub(c) /\ m_count > 0
  <2>1. SemaInv' /\ Redeems(c, 1)
    BY <1>11, GrantedStep DEF Spin_Sub
  <2> QED
    BY <1>6, <2>1
<1>12. CASE Spin_Sub(c) /\ ~(m_count > 0)
  <2>1. at[c] = "spin" /\ at' = [at EXCEPT ![c] = "wait"] /\ at'[c] = "wait"
    BY <1>5, <1>12 DEF Spin_Sub, Go
  <2>2. m_count' = m_count - 1 /\ UNCHANGED <<m_sema, oldCount, wanted, got>>
    BY <1>12 DEF Spin_Sub
  <2>3. WaiterInv(c)'
    BY <1>1, <1>5, <2>1, <2>2 DEF WaiterInv, SleepStates
  <2>4. at[c] \notin SleepStates /\ "wait" \in SleepStates
    BY <2>1 DEF SleepStates
  <2>5. Owed' = Owed /\ Cardinality(Sleepers)' = Cardinality(Sleepers) + 1
    BY <2>1, <2>4, ConsumerMoves
  <2>6. SleepersAccounted' /\ Permits' = Permits
    BY <1>1, <1>12, <2>2, <2>5 DEF SemaInv, SleepersAccounted, Permits, AvailableApprox
  <2>7. SemaInv'
    <3>1. /\ m_count' \in Int /\ m_sema' \in Nat
          /\ got' = [got EXCEPT ![c] = got[c]]
          /\ oldCount' = [oldCount EXCEPT ![c] = oldCount[c]]
          /\ wanted' = [wanted EXCEPT ![c] = wanted[c]]
      BY <1>1, <1>2, <1>3, <1>4, <2>2
    <3> QED
      BY <1>2, <1>3, <1>4, <2>1, <2>3, <2>6, <3>1, OneWaiter
  <2>8. Redeems(c, 0)
    BY <1>1, <2>2, <2>6 DEF Redeems
  <2> QED
    BY <1>6, <2>7, <2>8
<1>13. CASE Wait_Take(c)
  <2>1. SemaInv' /\ Redeems(c, 1)
    BY <1>13, GrantedStep DEF Wait_Take
  <2> QED
    BY <1>6, <2>1
<1>14. CASE Wait_Timeout(c)
  <2>1. at[c] = "wait" /\ at' = [at EXCEPT ![c] = "recover"] /\ at'[c] = "recover"
    BY <1>5, <1>14 DEF Wait_Timeout, Go
  <2>2. UNCHANGED <<m_count, m_sema, oldCount, wanted, got>>
    BY <1>14 DEF Wait_Timeout
  <2>3. WaiterInv(c)'
    BY <1>1, <1>5, <2>1, <2>2 DEF WaiterInv, SleepStates
  <2>4. at[c] \in SleepStates /\ "recover" \in SleepStates
    BY <2>1 DEF SleepStates
  <2>5. SemaInv' /\ Redeems(c, 0)
    BY <1>2, <1>3, <2>1, <2>2, <2>3, <2>4, IdleStep
  <2> QED
    BY <1>6, <2>5
<1>15. CASE Recover_Load(c)
  <2> DEFINE to == IF m_count >= 0 THEN "trywait" ELSE "undo"
  <2>1. at[c] = "recover" /\ at' = [at EXCEPT ![c] = to] /\ at'[c] = to
    BY <1>5, <1>15 DEF Recover_Load, Go
  <2>2. /\ oldCount' = [oldCount EXCEPT ![c] = m_count]
        /\ UNCHANGED <<m_count, m_sema, wanted, got>>
    BY <1>15 DEF Recover_Load, Load
  <2>3. WaiterInv(c)'
    BY <1>1, <1>5, <2>1, <2>2 DEF WaiterInv, SleepStates
  <2>4. at[c] \in SleepStates /\ to \in SleepStates
    BY <2>1 DEF SleepStates
  <2>5. SemaInv' /\ Redeems(c, 0)
    BY <1>1, <1>2, <2>1, <2>2, <2>3, <2>4, IdleStep
  <2> QED
    BY <1>6, <2>5
<1>16. CASE Recover_TryWait(c) /\ m_sema > 0
  <2>1. SemaInv' /\ Redeems(c, 1)
    BY <1>16, GrantedStep DEF Recover_TryWait
  <2> QED
    BY <1>6, <2>1
<1>17. CASE Recover_TryWait(c) /\ ~(m_sema > 0)
  <2>1. at[c] = "trywait" /\ at' = [at EXCEPT ![c] = "recover"] /\ at'[c] = "recover"
    BY <1>5, <1>17 DEF Recover_TryWait, Go
  <2>2. UNCHANGED <<m_count, m_sema, oldCount, wanted, got>>
    BY <1>17 DEF Recover_TryWait
  <2>3. WaiterInv(c)'
    BY <1>1, <1>5, <2>1, <2>2 DEF WaiterInv, SleepStates
  <2>4. at[c] \in SleepStates /\ "recover" \in SleepStates
    BY <2>1 DEF SleepStates
  <2>5. SemaInv' /\ Redeems(c, 0)
    BY <1>2, <1>3, <2>1, <2>2, <2>3, <2>4, IdleStep
  <2> QED
    BY <1>6, <2>5
<1>18. CASE Recover_Undo(c) /\ m_count = oldCount[c]
  <2>1. at[c] = "undo" /\ at' = [at EXCEPT ![c] = "done"] /\ at'[c] = "done"
    BY <1>5, <1>18 DEF Recover_Undo, Go
  <2>2. m_count' = m_count + 1 /\ UNCHANGED <<m_sema, oldCount, wanted, got>>
    BY <1>18 DEF Recover_Undo
  <2>3. m_count < 0
    BY <1>5, <1>18, <2>1 DEF WaiterInv
  <2>4. WaiterInv(c)'
    BY <1>1, <1>5, <2>1, <2>2 DEF WaiterInv, SleepStates
  <2>5. at[c] \in SleepStates /\ "done" \notin SleepStates
    BY <2>1 DEF SleepStates
  <2>6. Owed' = Owed /\ Cardinality(Sleepers)' = Cardinality(Sleepers) - 1
    BY <2>1, <2>5, ConsumerMoves
  <2>7. SleepersAccounted' /\ Permits' = Permits
    BY <1>1, <2>2, <2>3, <2>6 DEF SemaInv, SleepersAccounted, Permits, AvailableApprox
  <2>8. SemaInv'
    <3>1. /\ m_count' \in Int /\ m_sema' \in Nat
          /\ got' = [got EXCEPT ![c] = got[c]]
          /\ oldCount' = [oldCount EXCEPT ![c] = oldCount[c]]
          /\ wanted' = [wanted EXCEPT ![c] = wanted[c]]
      BY <1>1, <1>2, <1>3, <1>4, <2>2
    <3> QED
      BY <1>2, <1>3, <1>4, <2>1, <2>4, <2>7, <3>1, OneWaiter
  <2>9. Redeems(c, 0)
    BY <1>1, <2>2, <2>7 DEF Redeems
  <2> QED
    BY <1>6, <2>8, <2>9
<1>19. CASE Recover_Undo(c) /\ m_count # oldCount[c]
  <2>1. at[c] = "undo" /\ at' = [at EXCEPT ![c] = "recover"] /\ at'[c] = "recover"
    BY <1>5, <1>19 DEF Recover_Undo, Go
  <2>2. UNCHANGED <<m_count, m_sema, oldCount, wanted, got>>
    BY <1>19 DEF Recover_Undo
  <2>3. WaiterInv(c)'
    BY <1>1, <1>5, <2>1, <2>2 DEF WaiterInv, SleepStates
  <2>4. at[c] \in SleepStates /\ "recover" \in SleepStates
    BY <2>1 DEF SleepStates
  <2>5. SemaInv' /\ Redeems(c, 0)
    BY <1>2, <1>3, <2>1, <2>2, <2>3, <2>4, IdleStep
  <2> QED
    BY <1>6, <2>5
<1>20. CASE More_Load(c)
  <2>1. at[c] = "more" /\ at' = [at EXCEPT ![c] = "try"] /\ at'[c] = "try"
    BY <1>5, <1>20 DEF More_Load, Go
  <2>2. /\ oldCount' = [oldCount EXCEPT ![c] = m_count]
        /\ UNCHANGED <<m_count, m_sema, wanted, got>>
    BY <1>20 DEF More_Load, Load
  <2>3. WaiterInv(c)'
    BY <1>1, <1>5, <2>1, <2>2 DEF WaiterInv, SleepStates
  <2>4. at[c] \notin SleepStates /\ "try" \notin SleepStates
    BY <2>1 DEF SleepStates
  <2>5. SemaInv' /\ Redeems(c, 0)
    BY <1>1, <1>2, <2>1, <2>2, <2>3, <2>4, IdleStep
  <2> QED
    BY <1>6, <2>5
<1> QED
  BY <1>7, <1>8, <1>9, <1>10, <1>11, <1>12, <1>13, <1>14, <1>15, <1>16, <1>17, <1>18, <1>19,
     <1>20 DEF WaitStep

\* The start of waitMany takes nothing.
LEMMA WaitManyStep ==
    ASSUME SemaInv, NEW c \in Consumers, NEW max \in 1 .. MaxBatch, WaitMany(c, max)
    PROVE  SemaInv' /\ Permits' = Permits /\ got' = got
<1>1. /\ m_count \in Int /\ got \in [Consumers -> 0 .. MaxBatch] /\ MaxBatch \in Nat
      /\ wanted \in [Consumers -> 0 .. MaxBatch] /\ oldCount \in [Consumers -> Int]
      /\ Permits \in Nat /\ max \in 0 .. MaxBatch
  BY CountTypes, SemaphoreAssumption DEF SemaInv, SemaTypeOK
<1>2. at[c] = "out" /\ at' = [at EXCEPT ![c] = "try"] /\ at'[c] = "try"
  BY DEF WaitMany, Go, SemaInv
<1>3. /\ wanted' = [wanted EXCEPT ![c] = max] /\ oldCount' = [oldCount EXCEPT ![c] = m_count]
      /\ UNCHANGED <<m_count, m_sema, got>>
  BY DEF WaitMany, Load
<1>4. got[c] = 0
  BY <1>2 DEF SemaInv, WaiterInv
<1>5. WaiterInv(c)'
  BY <1>1, <1>2, <1>3, <1>4 DEF WaiterInv, SleepStates
<1>6. at[c] \notin SleepStates /\ "try" \notin SleepStates
  BY <1>2 DEF SleepStates
<1>7. SemaInv' /\ Redeems(c, 0)
  BY <1>1, <1>2, <1>3, <1>5, <1>6, IdleStep
<1> QED
  BY <1>1, <1>3, <1>7 DEF Redeems

\* waitMany returns, and the caller has the permits.
LEMMA ReturnStep ==
    ASSUME SemaInv, NEW c \in Consumers, Return(c)
    PROVE  SemaInv' /\ Permits' = Permits /\ got' = [got EXCEPT ![c] = 0]
<1>1. /\ m_count \in Int /\ m_sema \in Nat /\ MaxBatch \in Nat
      /\ oldCount \in [Consumers -> Int] /\ wanted \in [Consumers -> 0 .. MaxBatch]
      /\ got \in [Consumers -> 0 .. MaxBatch] /\ 0 \in 0 .. MaxBatch
  BY SemaphoreAssumption DEF SemaInv, SemaTypeOK
<1>2. at[c] = "done" /\ at' = [at EXCEPT ![c] = "out"] /\ at'[c] = "out"
  BY DEF Return, Go, SemaInv
<1>3. /\ oldCount' = [oldCount EXCEPT ![c] = 0] /\ wanted' = [wanted EXCEPT ![c] = 0]
      /\ got' = [got EXCEPT ![c] = 0] /\ UNCHANGED <<m_count, m_sema>>
  BY DEF Return
<1>4. at[c] \notin SleepStates /\ "out" \notin SleepStates
  BY <1>2 DEF SleepStates
<1>5. Owed' = Owed /\ Cardinality(Sleepers)' = Cardinality(Sleepers)
  BY <1>2, <1>4, ConsumerMoves
<1>6. SleepersAccounted' /\ Permits' = Permits
  BY <1>3, <1>5 DEF SemaInv, SleepersAccounted, Permits, AvailableApprox
<1>7. WaiterInv(c)'
  BY <1>1, <1>2, <1>3 DEF WaiterInv, SleepStates
<1>8. m_count' \in Int /\ m_sema' \in Nat /\ 0 \in Int
  BY <1>1, <1>3
<1>9. SemaInv'
  BY <1>1, <1>2, <1>3, <1>6, <1>7, <1>8, OneWaiter
<1> QED
  BY <1>3, <1>6, <1>9

\* Every step of the semaphore keeps its invariant, and is a step of the
\* counting semaphore or changes nothing of it.
LEMMA SemaNext ==
    ASSUME SemaInv, [Next]_semaVars
    PROVE  SemaInv' /\ [Counting!Next]_<<Permits, got>>
<1>1. got \in [Consumers -> 0 .. MaxBatch] /\ Permits \in Nat /\ 1 .. Permits \subseteq Nat
  BY CountTypes DEF SemaInv, SemaTypeOK
<1>2. ASSUME NEW p \in Producers, Signal(p) PROVE SemaInv' /\ [Counting!Next]_<<Permits, got>>
  BY <1>2, SignalStep DEF Counting!Next, Counting!Release
<1>3. ASSUME NEW p \in Producers, Post(p) PROVE SemaInv' /\ [Counting!Next]_<<Permits, got>>
  BY <1>3, PostStep
<1>4. ASSUME NEW c \in Consumers, WaitStep(c) PROVE SemaInv' /\ [Counting!Next]_<<Permits, got>>
  <2>1. SemaInv' /\ \E k \in Nat : Redeems(c, k)
    BY <1>4, WaitStepStep
  <2>2. PICK k \in Nat : Redeems(c, k)
    BY <2>1
  <2>3. CASE k = 0
    BY <1>1, <2>1, <2>2, <2>3 DEF Redeems
  <2>4. CASE k # 0
    <3>1. k \in 1 .. Permits
      BY <1>1, <2>2, <2>4 DEF Redeems
    <3> QED
      BY <2>1, <2>2, <3>1 DEF Redeems, Counting!Next, Counting!Acquire
  <2> QED
    BY <2>3, <2>4
<1>5. ASSUME NEW c \in Consumers, Return(c) PROVE SemaInv' /\ [Counting!Next]_<<Permits, got>>
  BY <1>5, ReturnStep DEF Counting!Next, Counting!Return
<1>6. ASSUME NEW c \in Consumers, NEW max \in 1 .. MaxBatch, WaitMany(c, max)
      PROVE  SemaInv' /\ [Counting!Next]_<<Permits, got>>
  BY <1>6, WaitManyStep
<1>7. CASE UNCHANGED semaVars
  BY <1>7 DEF semaVars, SemaInv, SemaTypeOK, WaiterInv, SleepersAccounted, Sleepers, Owed,
     Permits, AvailableApprox
<1> QED
  BY <1>2, <1>3, <1>4, <1>5, <1>6, <1>7 DEF Next

\* The invariant of the semaphore holds for any producers, consumers and batch.
THEOREM SemaphoreSafe == Spec => []SemaInv
<1>1. SemaInv /\ [Next]_semaVars => SemaInv'
  BY SemaNext
<1> QED
  BY <1>1, SemaInit, PTL DEF Spec

\* LightweightSemaphore is a counting semaphore: a timeout that races a signal
\* loses no permit, and no permit is taken twice.
THEOREM SemaphoreCounts == Spec => IsCountingSemaphore
<1>1. Init => Counting!Init
  <2> SUFFICES ASSUME Init PROVE Counting!Init
    OBVIOUS
  <2>1. Permits = 0
    BY NoPermits
  <2> QED
    BY <2>1 DEF Init, Counting!Init
<1>2. SemaInv /\ [Next]_semaVars => [Counting!Next]_<<Permits, got>>
  BY SemaNext
<1> QED
  BY <1>1, <1>2, SemaphoreSafe, PTL DEF Spec, IsCountingSemaphore, Counting!Spec

-----------------------------------------------------------------------------
(* The queue                                                                *)

Tokens == [initialOffset : Nat, lastKnownGlobalOffset : Int, itemsConsumedFromCurrent : Nat,
           currentProducer : Nat, desiredProducer : Nat]

QueueTypes ==
    /\ producerList \in Seq(Producers) /\ producerCount \in Nat
    /\ size \in [Producers -> Nat] /\ need \in [Consumers -> Nat]
    /\ ppc \in [Producers -> {"new", "link", "idle", "signal"}]
    /\ qpc \in [Consumers -> {"idle", "token", "rotate", "current", "next", "full"}]
    /\ token \in [Consumers -> Tokens] /\ globalExplicitConsumerOffset \in Nat
    /\ tail \in [Consumers -> Nat] /\ ptr \in [Consumers -> Nat]

\* A producer is counted before it is linked.
CountedInv ==
    producerCount = Len(producerList) + Cardinality({p \in Producers : ppc[p] = "link"})

\* Where a consumer is in try_dequeue_bulk: it has returned from waitMany, its
\* pointers are producers of the list (or null where the code allows it), and
\* it stops when it needs nothing more.
ScanInv(c) ==
    /\ qpc[c] # "idle" => at[c] = "done"
    /\ qpc[c] = "full" => need[c] = 0
    /\ {token[c].currentProducer, token[c].desiredProducer, ptr[c], tail[c]}
         \subseteq 0 .. Len(producerList)
    /\ token[c].desiredProducer # NoProducer => token[c].currentProducer # NoProducer
    /\ qpc[c] = "rotate" /\ token[c].desiredProducer # NoProducer => tail[c] # 0
    /\ qpc[c] = "current" => token[c].currentProducer # NoProducer
    /\ qpc[c] = "next" => ptr[c] # NoProducer /\ tail[c] # 0

\* A permit is an element: the first part of PermitsMatchElements.
Matched ==
    Total(size) = Permits + Total([c \in Consumers |-> Redeemable(c)]) + Cardinality(Signalling)

QueueInv ==
    /\ SemaInv /\ QueueTypes /\ CountedInv
    /\ \A c \in Consumers : ScanInv(c)
    /\ Matched

\* The queue starts in the invariant.
LEMMA QueueInit == QInit => QueueInv
<1> SUFFICES ASSUME QInit PROVE QueueInv
  OBVIOUS
<1>1. SemaInv
  BY SemaInit DEF QInit
<1>2. QueueTypes
  <2>1. Cardinality(Consumers) \in Nat
    BY SemaphoreAssumption, FS_CardinalityType
  <2>2. token \in [Consumers -> Tokens]
    BY <2>1 DEF QInit, Tokens, NoProducer
  <2> QED
    BY <2>2 DEF QInit, QueueTypes, NoProducer
<1>3. CountedInv
  <2>1. {p \in Producers : ppc[p] = "link"} = {}
    BY DEF QInit
  <2>2. producerCount = 0 /\ Len(producerList) = 0
    BY DEF QInit
  <2> QED
    BY <2>1, <2>2, FS_EmptySet DEF CountedInv
<1>4. \A c \in Consumers : ScanInv(c)
  <2>1. /\ qpc = [c \in Consumers |-> "idle"] /\ producerList = <<>>
        /\ tail = [c \in Consumers |-> 0] /\ ptr = [c \in Consumers |-> 0]
    BY DEF QInit, NoProducer
  <2>2. \A c \in Consumers : token[c].currentProducer = 0 /\ token[c].desiredProducer = 0
    BY DEF QInit, NoProducer
  <2>3. Len(producerList) = 0
    BY <2>1
  <2> QED
    BY <2>1, <2>2, <2>3 DEF ScanInv, NoProducer
<1>5. Matched
  <2>1. Signalling = {}
    BY DEF QInit, Signalling
  <2>2. Permits = 0
    BY NoPermits DEF QInit
  <2>3. Total(size) = 0
    BY TotalZero DEF QInit
  <2>4. [c \in Consumers |-> Redeemable(c)] \in [Consumers -> {0}]
    BY DEF QInit, Init, Redeemable
  <2>5. Total([c \in Consumers |-> Redeemable(c)]) = 0
    BY <2>4, TotalZero
  <2> QED
    BY <2>1, <2>2, <2>3, <2>5, FS_EmptySet DEF Matched
<1> QED
  BY <1>1, <1>2, <1>3, <1>4, <1>5 DEF QueueInv

\* A step that leaves the semaphore alone.
LEMMA SemaSame ==
    ASSUME SemaInv, UNCHANGED semaVars
    PROVE  SemaInv' /\ Permits' = Permits
BY SemaNext DEF semaVars, Permits, AvailableApprox, Owed

\* The sums of the balance are numbers.
LEMMA BalanceTypes ==
    ASSUME SemaInv, QueueTypes
    PROVE  /\ Permits \in Nat /\ Total(size) \in Nat /\ Cardinality(Signalling) \in Nat
           /\ [c \in Consumers |-> Redeemable(c)] \in [Consumers -> Nat]
           /\ Total([c \in Consumers |-> Redeemable(c)]) \in Nat
<1>1. Permits \in Nat
  BY CountTypes
<1>2. Total(size) \in Nat
  BY SemaphoreAssumption, UnitsFinite DEF QueueTypes
<1>3. Cardinality(Signalling) \in Nat
  BY SemaphoreAssumption, FS_Subset, FS_CardinalityType DEF Signalling
<1>4. [c \in Consumers |-> Redeemable(c)] \in [Consumers -> Nat]
  BY SemaphoreAssumption DEF SemaInv, SemaTypeOK, QueueTypes, Redeemable
<1>5. Total([c \in Consumers |-> Redeemable(c)]) \in Nat
  BY <1>4, SemaphoreAssumption, UnitsFinite
<1> QED
  BY <1>1, <1>2, <1>3, <1>4, <1>5

\* One consumer's permits change the sum by as much.
LEMMA RedeemableChange ==
    ASSUME SemaInv, SemaInv', QueueTypes, QueueTypes', NEW c \in Consumers,
           \A d \in Consumers \ {c} : Redeemable(d)' = Redeemable(d)
    PROVE  Total([d \in Consumers |-> Redeemable(d)])'
             = Total([d \in Consumers |-> Redeemable(d)]) - Redeemable(c) + Redeemable(c)'
<1> DEFINE F == [d \in Consumers |-> Redeemable(d)]
           G == [d \in Consumers |-> Redeemable(d)']
<1>1. F \in [Consumers -> Nat]
  BY BalanceTypes
<1>2. G \in [Consumers -> Nat]
  BY SemaphoreAssumption DEF SemaInv, SemaTypeOK, QueueTypes, Redeemable
<1>3. \A d \in Consumers \ {c} : G[d] = F[d]
  OBVIOUS
<1>4. F[c] = Redeemable(c) /\ G[c] = Redeemable(c)'
  OBVIOUS
<1>5. Total(G) = Total(F) - F[c] + G[c]
  <2> HIDE DEF F, G
  <2> QED
    BY <1>1, <1>2, <1>3, SemaphoreAssumption, TotalChange
<1>6. Total([d \in Consumers |-> Redeemable(d)])' = Total(G)
  BY DEF Total, Units
<1> QED
  BY <1>4, <1>5, <1>6

\* A step of consumer c in the queue changes its own entries, and takes n
\* elements for n of its permits.
LEMMA ScanFrame ==
    ASSUME QueueInv, UNCHANGED <<semaVars, prodVars>>, QueueTypes', NEW c \in Consumers,
           NEW n \in Nat, Redeemable(c)' = Redeemable(c) - n, Total(size)' = Total(size) - n,
           \A d \in Consumers \ {c} :
             /\ qpc'[d] = qpc[d] /\ need'[d] = need[d] /\ token'[d] = token[d]
             /\ tail'[d] = tail[d] /\ ptr'[d] = ptr[d],
           ScanInv(c)'
    PROVE  QueueInv'
<1>1. SemaInv' /\ Permits' = Permits /\ UNCHANGED <<at, got>>
  BY SemaSame DEF QueueInv, semaVars
<1>2. UNCHANGED <<producerList, producerCount, ppc>>
  BY DEF prodVars
<1>3. CountedInv'
  BY <1>2 DEF QueueInv, CountedInv
<1>4. \A d \in Consumers : ScanInv(d)'
  <2>1. ASSUME NEW d \in Consumers \ {c} PROVE ScanInv(d)'
    BY <1>1, <1>2, <2>1 DEF QueueInv, ScanInv
  <2> QED
    BY <2>1
<1>5. \A d \in Consumers \ {c} : Redeemable(d)' = Redeemable(d)
  BY <1>1 DEF Redeemable
<1>6. Total([d \in Consumers |-> Redeemable(d)])'
        = Total([d \in Consumers |-> Redeemable(d)]) - Redeemable(c) + Redeemable(c)'
  BY <1>1, <1>5, RedeemableChange DEF QueueInv
<1>7. Signalling' = Signalling
  BY <1>2 DEF Signalling
<1>8. Redeemable(c) \in Nat
  BY SemaphoreAssumption DEF QueueInv, SemaInv, SemaTypeOK, QueueTypes, Redeemable
<1>9. Matched'
  BY <1>1, <1>6, <1>7, <1>8, BalanceTypes DEF QueueInv, Matched
<1> QED
  BY <1>1, <1>3, <1>4, <1>9 DEF QueueInv

\* next_prod() stays within the snapshot of the list.
LEMMA NextProdRange ==
    ASSUME NEW k \in Int, NEW times \in Int, NEW end \in Nat \ {0}
    PROVE  NextProd(k, times, end) \in 1 .. end
BY DEF NextProd

\* update_current_producer_after_rotation finds a producer of the list.
LEMMA DesiredRange ==
    ASSUME NEW t \in Tokens, NEW end \in Nat \ {0}, NEW count \in Nat \ {0}, NEW offset \in Nat
    PROVE  Desired(t, end, count, offset) \in 1 .. end
<1>1. t.initialOffset \in Nat /\ t.lastKnownGlobalOffset \in Int /\ t.desiredProducer \in Nat
  BY DEF Tokens
<1> DEFINE first == IF t.desiredProducer = NoProducer
                    THEN NextProd(end, count - 1 - (t.initialOffset % count), end)
                    ELSE t.desiredProducer
<1>2. t.initialOffset % count \in Int /\ (offset - t.lastKnownGlobalOffset) % count \in Int
  BY <1>1
<1>3. NextProd(end, count - 1 - (t.initialOffset % count), end) \in 1 .. end
  <2>1. end \in Int /\ count - 1 - (t.initialOffset % count) \in Int
    BY <1>2
  <2> QED
    BY <2>1, NextProdRange
<1>4. first \in Int
  BY <1>1, <1>3
<1> HIDE DEF first
<1>5. NextProd(first, (offset - t.lastKnownGlobalOffset) % count, end) \in 1 .. end
  BY <1>2, <1>4, NextProdRange
<1> QED
  BY <1>5 DEF Desired, first

\* A token that took elements, from its producer or from another one, is a
\* token.
LEMMA TokenTook ==
    ASSUME NEW t \in Tokens, NEW n \in Nat
    PROVE  LET u == [t EXCEPT !.itemsConsumedFromCurrent = @ + n]
           IN  /\ u \in Tokens /\ u.currentProducer = t.currentProducer
               /\ u.desiredProducer = t.desiredProducer
BY DEF Tokens

LEMMA TokenMoved ==
    ASSUME NEW t \in Tokens, NEW n \in Nat, NEW p \in Nat
    PROVE  LET u == [t EXCEPT !.currentProducer = p, !.itemsConsumedFromCurrent = n]
           IN  u \in Tokens /\ u.currentProducer = p /\ u.desiredProducer = t.desiredProducer
BY DEF Tokens

\* dequeue_bulk takes n elements for n of what the consumer needs.
LEMMA TakeFromStep ==
    ASSUME QueueInv, NEW c \in Consumers, NEW k \in 1 .. Len(producerList), TakeFrom(c, k)
    PROVE  /\ Dequeued(c, k) \in 0 .. need[c]
           /\ need' = [need EXCEPT ![c] = need[c] - Dequeued(c, k)]
           /\ size' \in [Producers -> Nat] /\ need' \in [Consumers -> Nat]
           /\ Total(size)' = Total(size) - Dequeued(c, k)
<1> DEFINE p == producerList[k]
           n == Dequeued(c, k)
<1>1. /\ size \in [Producers -> Nat] /\ need \in [Consumers -> Nat]
      /\ producerList \in Seq(Producers)
  BY DEF QueueInv, QueueTypes
<1>2. p \in Producers
  BY <1>1
<1>3. n \in 0 .. need[c] /\ n <= size[p]
  BY <1>1, <1>2 DEF Dequeued
<1>4. size' = [size EXCEPT ![p] = @ - n] /\ need' = [need EXCEPT ![c] = need[c] - n]
  BY DEF TakeFrom
<1> HIDE DEF p, n
<1>5. size' \in [Producers -> Nat] /\ need' \in [Consumers -> Nat]
  BY <1>1, <1>2, <1>3, <1>4
<1>6. size'[p] = size[p] - n /\ \A q \in Producers \ {p} : size'[q] = size[q]
  BY <1>1, <1>2, <1>4
<1>7. Total(size') = Total(size) - size[p] + size'[p]
  <2>1. IsFiniteSet(Producers)
    BY SemaphoreAssumption
  <2> QED
    BY <1>1, <1>2, <1>5, <1>6, <2>1, TotalChange
<1>8. Total(size) \in Nat
  BY BalanceTypes DEF QueueInv
<1>9. Total(size') = Total(size) - n
  BY <1>1, <1>2, <1>3, <1>6, <1>7, <1>8
<1> QED
  BY <1>3, <1>4, <1>5, <1>9 DEF n, Total, Units

\* try_dequeue_bulk keeps the balance.
LEMMA ScanStepInv ==
    ASSUME QueueInv, NEW c \in Consumers,
           Scan_Token(c) \/ Scan_Rotate(c) \/ Scan_Current(c) \/ Scan_Next(c) \/ Scan_Again(c)
    PROVE  QueueInv'
<1>1. QueueTypes /\ ScanInv(c)
  BY DEF QueueInv
<1>2. /\ qpc \in [Consumers -> {"idle", "token", "rotate", "current", "next", "full"}]
      /\ need \in [Consumers -> Nat] /\ token \in [Consumers -> Tokens]
      /\ tail \in [Consumers -> Nat] /\ ptr \in [Consumers -> Nat]
      /\ globalExplicitConsumerOffset \in Nat /\ Len(producerList) \in Nat
      /\ producerCount \in Nat /\ Total(size) \in Nat
  BY <1>1, BalanceTypes DEF QueueInv, QueueTypes
<1>3. UNCHANGED <<semaVars, prodVars>>
  BY DEF Scan_Token, Scan_Rotate, Scan_Current, Scan_Next, Scan_Again
<1>4. UNCHANGED <<at, got, producerList, producerCount, ppc>>
  BY <1>3 DEF semaVars, prodVars
<1>5. CASE Scan_Token(c)
  <2>1. UNCHANGED <<size, globalExplicitConsumerOffset, token, need, ptr>>
    BY <1>5 DEF Scan_Token
  <2>2. CASE /\ qpc[c] = "token" /\ qpc' = [qpc EXCEPT ![c] = "rotate"]
             /\ tail' = [tail EXCEPT ![c] = Len(producerList)]
    <3>1. QueueTypes'
      BY <1>1, <1>2, <1>4, <2>1, <2>2 DEF QueueTypes
    <3>2. ScanInv(c)'
      BY <1>1, <1>2, <1>4, <2>1, <2>2 DEF ScanInv, NoProducer
    <3>3. Redeemable(c)' = Redeemable(c) - 0 /\ Total(size)' = Total(size) - 0
      BY <1>2, <2>1, <2>2 DEF Redeemable, Total, Units
    <3>4. \A d \in Consumers \ {c} : qpc'[d] = qpc[d] /\ tail'[d] = tail[d]
      BY <1>2, <2>2
    <3> QED
      BY <1>3, <2>1, <3>1, <3>2, <3>3, <3>4, ScanFrame
  <2>3. CASE /\ qpc[c] = "token" /\ qpc' = [qpc EXCEPT ![c] = "current"] /\ UNCHANGED tail
             /\ token[c].desiredProducer # NoProducer
    <3>1. QueueTypes'
      BY <1>1, <1>2, <1>4, <2>1, <2>3 DEF QueueTypes
    <3>2. ScanInv(c)'
      BY <1>1, <1>2, <1>4, <2>1, <2>3 DEF ScanInv, NoProducer
    <3>3. Redeemable(c)' = Redeemable(c) - 0 /\ Total(size)' = Total(size) - 0
      BY <1>2, <2>1, <2>3 DEF Redeemable, Total, Units
    <3>4. \A d \in Consumers \ {c} : qpc'[d] = qpc[d] /\ tail'[d] = tail[d]
      BY <1>2, <2>3
    <3> QED
      BY <1>3, <2>1, <3>1, <3>2, <3>3, <3>4, ScanFrame
  <2> QED
    BY <1>5, <2>2, <2>3 DEF Scan_Token, ScanStep
<1>6. CASE Scan_Rotate(c)
  <2>1. /\ qpc[c] = "rotate"
        /\ UNCHANGED <<size, globalExplicitConsumerOffset, need, tail, ptr>>
    BY <1>6 DEF Scan_Rotate, ScanStep
  <2>2. Total(size)' = Total(size) - 0
    BY <1>2, <2>1 DEF Total, Units
  <2>3. CASE qpc' = [qpc EXCEPT ![c] = "token"] /\ UNCHANGED token
    <3>1. QueueTypes'
      BY <1>1, <1>2, <1>4, <2>1, <2>3 DEF QueueTypes
    <3>2. ScanInv(c)'
      BY <1>1, <1>2, <1>4, <2>1, <2>3 DEF ScanInv, NoProducer
    <3>3. Redeemable(c)' = Redeemable(c) - 0
      BY <1>2, <2>1, <2>3 DEF Redeemable
    <3>4. \A d \in Consumers \ {c} : qpc'[d] = qpc[d]
      BY <1>2, <2>3
    <3> QED
      BY <1>3, <2>1, <2>2, <2>3, <3>1, <3>2, <3>3, <3>4, ScanFrame
  <2>4. CASE ~(tail[c] = 0 /\ token[c].desiredProducer = NoProducer)
    <3> DEFINE prod == Desired(token[c], tail[c], producerCount, globalExplicitConsumerOffset)
               new == [token[c] EXCEPT !.lastKnownGlobalOffset = globalExplicitConsumerOffset,
                                       !.itemsConsumedFromCurrent = 0,
                                       !.currentProducer = prod, !.desiredProducer = prod]
    <3>1. tail[c] \in Nat \ {0} /\ tail[c] <= Len(producerList)
      BY <1>1, <1>2, <2>1, <2>4 DEF ScanInv, NoProducer
    <3>2. producerCount \in Nat \ {0}
      <4>1. Cardinality({p \in Producers : ppc[p] = "link"}) \in Nat
        BY SemaphoreAssumption, FS_Subset, FS_CardinalityType
      <4> QED
        BY <1>2, <3>1, <4>1 DEF QueueInv, CountedInv
    <3>3. prod \in 1 .. tail[c]
      BY <1>2, <3>1, <3>2, DesiredRange
    <3>4. token' = [token EXCEPT ![c] = new] /\ qpc' = [qpc EXCEPT ![c] = "current"]
      BY <1>6, <2>4 DEF Scan_Rotate, ScanStep
    <3> HIDE DEF prod
    <3>5. new \in Tokens /\ new.currentProducer = prod /\ new.desiredProducer = prod
      <4>1. token[c] \in Tokens /\ globalExplicitConsumerOffset \in Int /\ prod \in Nat
        BY <1>2, <3>1, <3>3
      <4> QED
        BY <4>1 DEF Tokens
    <3> HIDE DEF new
    <3>6. QueueTypes'
      BY <1>1, <1>2, <1>4, <2>1, <3>4, <3>5 DEF QueueTypes
    <3>7. ScanInv(c)'
      BY <1>1, <1>2, <1>4, <2>1, <3>1, <3>3, <3>4, <3>5 DEF ScanInv, NoProducer
    <3>8. Redeemable(c)' = Redeemable(c) - 0
      BY <1>2, <2>1, <3>4 DEF Redeemable
    <3>9. \A d \in Consumers \ {c} : qpc'[d] = qpc[d] /\ token'[d] = token[d]
      BY <1>2, <3>4
    <3> QED
      BY <1>3, <2>1, <2>2, <3>6, <3>7, <3>8, <3>9, ScanFrame
  <2> QED
    BY <1>6, <2>3, <2>4 DEF Scan_Rotate, ScanStep
<1>7. CASE Scan_Current(c)
  <2> DEFINE k == token[c].currentProducer
             n == Dequeued(c, k)
             full == n = need[c]
  <2>1. qpc[c] = "current" /\ k \in 1 .. Len(producerList)
    BY <1>1, <1>2, <1>7 DEF Scan_Current, ScanStep, ScanInv, NoProducer, Tokens
  <2>2. TakeFrom(c, k)
    BY <1>7 DEF Scan_Current
  <2>3. /\ n \in 0 .. need[c] /\ need' = [need EXCEPT ![c] = need[c] - n]
        /\ size' \in [Producers -> Nat] /\ need' \in [Consumers -> Nat]
        /\ Total(size)' = Total(size) - n
    BY <2>1, <2>2, TakeFromStep
  <2>4. NextProd(k, 1, Len(producerList)) \in 1 .. Len(producerList)
    <3>1. k \in Int /\ Len(producerList) \in Nat \ {0} /\ 1 \in Int
      BY <1>2, <2>1
    <3> QED
      BY <3>1, NextProdRange
  <2>5. /\ qpc' = [qpc EXCEPT ![c] = IF full THEN "full" ELSE "next"]
        /\ token' = [token EXCEPT ![c].itemsConsumedFromCurrent = @ + n]
        /\ tail' = [tail EXCEPT ![c] = IF full THEN 0 ELSE Len(producerList)]
        /\ ptr' = [ptr EXCEPT ![c] = IF full THEN NoProducer
                                     ELSE NextProd(k, 1, Len(producerList))]
    BY <1>7 DEF Scan_Current, ScanStep
  <2>6. globalExplicitConsumerOffset' \in Nat
    BY <1>2, <1>7 DEF Scan_Current
  <2> HIDE DEF n
  <2>7. /\ token'[c] \in Tokens /\ token'[c].currentProducer = k
        /\ token'[c].desiredProducer = token[c].desiredProducer
        /\ \A d \in Consumers \ {c} : token'[d] = token[d]
        /\ token' \in [Consumers -> Tokens]
    <3> DEFINE u == [token[c] EXCEPT !.itemsConsumedFromCurrent = @ + n]
    <3>1. token[c] \in Tokens /\ n \in Nat
      BY <1>2, <2>3
    <3>2. u \in Tokens /\ u.currentProducer = k /\ u.desiredProducer = token[c].desiredProducer
      BY <3>1, TokenTook
    <3>3. token' = [token EXCEPT ![c] = u]
      BY <2>5
    <3> HIDE DEF u
    <3> QED
      BY <1>2, <3>2, <3>3
  <2>8. QueueTypes'
    <3>1. /\ qpc' \in [Consumers -> {"idle", "token", "rotate", "current", "next", "full"}]
          /\ tail' \in [Consumers -> Nat] /\ ptr' \in [Consumers -> Nat]
      BY <1>2, <2>4, <2>5 DEF NoProducer
    <3> QED
      BY <1>1, <1>4, <2>3, <2>6, <2>7, <3>1 DEF QueueTypes
  <2>9. ScanInv(c)'
    BY <1>1, <1>2, <1>4, <2>1, <2>3, <2>4, <2>5, <2>7 DEF ScanInv, NoProducer
  <2>10. Redeemable(c)' = Redeemable(c) - n /\ n \in Nat
    BY <1>2, <2>1, <2>3, <2>5 DEF Redeemable
  <2>11. \A d \in Consumers \ {c} : /\ qpc'[d] = qpc[d] /\ need'[d] = need[d]
                                    /\ tail'[d] = tail[d] /\ ptr'[d] = ptr[d]
    BY <1>2, <2>3, <2>5
  <2> QED
    BY <1>3, <2>3, <2>7, <2>8, <2>9, <2>10, <2>11, ScanFrame
<1>8. CASE Scan_Next(c)
  <2> DEFINE k == ptr[c]
             n == Dequeued(c, k)
             full == n = need[c]
  <2>1. qpc[c] = "next" /\ k \in 1 .. Len(producerList) /\ tail[c] \in 1 .. Len(producerList)
    BY <1>1, <1>2, <1>8 DEF Scan_Next, ScanInv, NoProducer
  <2>2. TakeFrom(c, k)
    BY <1>8 DEF Scan_Next
  <2>3. /\ n \in 0 .. need[c] /\ need' = [need EXCEPT ![c] = need[c] - n]
        /\ size' \in [Producers -> Nat] /\ need' \in [Consumers -> Nat]
        /\ Total(size)' = Total(size) - n
    BY <2>1, <2>2, TakeFromStep
  <2>4. NextProd(k, 1, tail[c]) \in 1 .. tail[c]
    <3>1. k \in Int /\ tail[c] \in Nat \ {0} /\ 1 \in Int
      BY <1>2, <2>1
    <3> QED
      BY <3>1, NextProdRange
  <2>5. /\ qpc' = [qpc EXCEPT ![c] = IF full THEN "full" ELSE "next"]
        /\ ptr' = [ptr EXCEPT ![c] = IF full THEN NoProducer ELSE NextProd(k, 1, tail[c])]
        /\ tail' = [tail EXCEPT ![c] = IF full THEN 0 ELSE @]
        /\ token' = IF n = 0 THEN token
                    ELSE [token EXCEPT ![c].currentProducer = k,
                                       ![c].itemsConsumedFromCurrent = n]
        /\ UNCHANGED globalExplicitConsumerOffset
    BY <1>8 DEF Scan_Next
  <2> HIDE DEF n
  <2>6. /\ token'[c] \in Tokens
        /\ token'[c].currentProducer = k \/ token'[c].currentProducer = token[c].currentProducer
        /\ token'[c].desiredProducer = token[c].desiredProducer
        /\ \A d \in Consumers \ {c} : token'[d] = token[d]
        /\ token' \in [Consumers -> Tokens]
    <3>1. CASE n = 0
      BY <1>2, <2>5, <3>1
    <3>2. CASE n # 0
      <4> DEFINE u == [token[c] EXCEPT !.currentProducer = k, !.itemsConsumedFromCurrent = n]
      <4>1. token[c] \in Tokens /\ n \in Nat /\ k \in Nat
        BY <1>2, <2>1, <2>3
      <4>2. u \in Tokens /\ u.currentProducer = k /\ u.desiredProducer = token[c].desiredProducer
        BY <4>1, TokenMoved
      <4>3. token' = [token EXCEPT ![c] = u]
        BY <1>2, <2>5, <3>2
      <4> HIDE DEF u
      <4> QED
        BY <1>2, <4>2, <4>3
    <3> QED
      BY <3>1, <3>2
  <2>7. QueueTypes'
    <3>1. /\ qpc' \in [Consumers -> {"idle", "token", "rotate", "current", "next", "full"}]
          /\ tail' \in [Consumers -> Nat] /\ ptr' \in [Consumers -> Nat]
      BY <1>2, <2>4, <2>5 DEF NoProducer
    <3> QED
      BY <1>1, <1>4, <2>3, <2>5, <2>6, <3>1 DEF QueueTypes
  <2>8. ScanInv(c)'
    BY <1>1, <1>2, <1>4, <2>1, <2>3, <2>4, <2>5, <2>6 DEF ScanInv, NoProducer
  <2>9. Redeemable(c)' = Redeemable(c) - n /\ n \in Nat
    BY <1>2, <2>1, <2>3, <2>5 DEF Redeemable
  <2>10. \A d \in Consumers \ {c} : /\ qpc'[d] = qpc[d] /\ need'[d] = need[d]
                                    /\ tail'[d] = tail[d] /\ ptr'[d] = ptr[d]
    BY <1>2, <2>3, <2>5
  <2> QED
    BY <1>3, <2>3, <2>6, <2>7, <2>8, <2>9, <2>10, ScanFrame
<1>9. CASE Scan_Again(c)
  <2>1. /\ qpc[c] = "next" /\ qpc' = [qpc EXCEPT ![c] = "token"]
        /\ tail' = [tail EXCEPT ![c] = 0] /\ ptr' = [ptr EXCEPT ![c] = 0]
        /\ UNCHANGED <<size, globalExplicitConsumerOffset, token, need>>
    BY <1>9 DEF Scan_Again, ScanStep, NoProducer
  <2>2. QueueTypes'
    BY <1>1, <1>2, <1>4, <2>1 DEF QueueTypes
  <2>3. ScanInv(c)'
    BY <1>1, <1>2, <1>4, <2>1 DEF ScanInv, NoProducer
  <2>4. Redeemable(c)' = Redeemable(c) - 0 /\ Total(size)' = Total(size) - 0
    BY <1>2, <2>1 DEF Redeemable, Total, Units
  <2>5. \A d \in Consumers \ {c} : qpc'[d] = qpc[d] /\ tail'[d] = tail[d] /\ ptr'[d] = ptr[d]
    BY <1>2, <2>1
  <2> QED
    BY <1>3, <2>1, <2>2, <2>3, <2>4, <2>5, ScanFrame
<1> QED
  BY <1>5, <1>6, <1>7, <1>8, <1>9

\* A step of the semaphore by consumer c outside try_dequeue_bulk: k permits
\* are taken out of the count and the posts.
LEMMA WaitFrame ==
    ASSUME QueueInv, UNCHANGED <<prodVars, scanVars>>, NEW c \in Consumers, qpc[c] = "idle",
           SemaInv', \A d \in Consumers \ {c} : at'[d] = at[d] /\ got'[d] = got[d],
           NEW k \in Nat, got'[c] = got[c] + k, Permits' = Permits - k
    PROVE  QueueInv'
<1>1. /\ UNCHANGED <<producerList, producerCount, ppc>>
      /\ UNCHANGED <<size, globalExplicitConsumerOffset, token, qpc, need, tail, ptr>>
  BY DEF prodVars, scanVars
<1>2. QueueTypes' /\ CountedInv'
  BY <1>1 DEF QueueInv, QueueTypes, CountedInv
<1>3. \A d \in Consumers : ScanInv(d)'
  BY <1>1 DEF QueueInv, ScanInv
<1>4. \A d \in Consumers \ {c} : Redeemable(d)' = Redeemable(d)
  BY <1>1 DEF Redeemable
<1>5. Total([d \in Consumers |-> Redeemable(d)])'
        = Total([d \in Consumers |-> Redeemable(d)]) - Redeemable(c) + Redeemable(c)'
  BY <1>2, <1>4, RedeemableChange DEF QueueInv
<1>6. Redeemable(c)' = Redeemable(c) + k /\ Redeemable(c) \in Nat
  BY <1>1, SemaphoreAssumption DEF QueueInv, SemaInv, SemaTypeOK, Redeemable
<1>7. Total(size)' = Total(size) /\ Signalling' = Signalling
  BY <1>1 DEF Total, Units, Signalling
<1>8. Matched'
  BY <1>5, <1>6, <1>7, BalanceTypes DEF QueueInv, Matched
<1> QED
  BY <1>2, <1>3, <1>8 DEF QueueInv

\* waitMany on behalf of the queue.
LEMMA WaitInv ==
    ASSUME QueueInv, NEW c \in Consumers, Wait_Start(c) \/ Wait_Step(c)
    PROVE  QueueInv'
<1>1. SemaInv /\ got \in [Consumers -> 0 .. MaxBatch] /\ MaxBatch \in Nat
  BY SemaphoreAssumption DEF QueueInv, SemaInv, SemaTypeOK
<1>2. UNCHANGED <<prodVars, scanVars>>
  BY DEF Wait_Start, Wait_Step
<1>3. \A d \in Consumers \ {c} : at'[d] = at[d]
  BY <1>1 DEF SemaInv, Wait_Start, Wait_Step, WaitMany, WaitStep, Try_Cas, Try_None, Spin_Load,
     Spin_Cas, Spin_Sub, Wait_Take, Wait_Timeout, Recover_Load, Recover_TryWait, Recover_Undo,
     More_Load, Cas, Granted, Go
<1>4. CASE Wait_Start(c)
  <2>1. MaxBatch \in 1 .. MaxBatch
    BY SemaphoreAssumption
  <2>2. SemaInv' /\ Permits' = Permits /\ got' = got
    BY <1>1, <1>4, <2>1, WaitManyStep DEF Wait_Start
  <2>3. got'[c] = got[c] + 0 /\ Permits' = Permits - 0 /\ qpc[c] = "idle"
    BY <1>1, <1>4, <2>2, CountTypes DEF Wait_Start
  <2> QED
    BY <1>2, <1>3, <2>2, <2>3, WaitFrame
<1>5. CASE Wait_Step(c)
  <2>1. SemaInv' /\ \E k \in Nat : Redeems(c, k)
    BY <1>1, <1>5, WaitStepStep DEF Wait_Step
  <2>2. PICK k \in Nat : Redeems(c, k)
    BY <2>1
  <2>3. /\ got'[c] = got[c] + k /\ Permits' = Permits - k
        /\ \A d \in Consumers \ {c} : got'[d] = got[d]
    BY <1>1, <2>2 DEF Redeems
  <2>4. at[c] # "done"
    BY <1>5 DEF Wait_Step, WaitStep, Try_Cas, Try_None, Spin_Load, Spin_Cas, Spin_Sub, Wait_Take,
       Wait_Timeout, Recover_Load, Recover_TryWait, Recover_Undo, More_Load, Cas, Granted, Go
  <2>5. qpc[c] = "idle"
    BY <2>4 DEF QueueInv, ScanInv
  <2> QED
    BY <1>2, <1>3, <2>1, <2>3, <2>5, WaitFrame
<1> QED
  BY <1>4, <1>5

\* waitMany returns to the queue, with nothing or with permits to redeem, or
\* its permits have all been redeemed.
LEMMA ResultInv ==
    ASSUME QueueInv, NEW c \in Consumers, Wait_Result(c) \/ Scan_Done(c)
    PROVE  QueueInv'
<1>1. /\ SemaInv /\ got \in [Consumers -> 0 .. MaxBatch] /\ MaxBatch \in Nat /\ QueueTypes
      /\ ScanInv(c) /\ Permits \in Nat /\ Total(size) \in Nat /\ need \in [Consumers -> Nat]
      /\ qpc \in [Consumers -> {"idle", "token", "rotate", "current", "next", "full"}]
  BY SemaphoreAssumption, BalanceTypes DEF QueueInv, QueueTypes, SemaInv, SemaTypeOK
<1>2. UNCHANGED <<prodVars, size, globalExplicitConsumerOffset, token, tail, ptr>>
  BY DEF Wait_Result, Scan_Done
<1>3. CASE Wait_Result(c) /\ got[c] = 0
  <2>1. Return(c) /\ UNCHANGED <<qpc, need>> /\ qpc[c] = "idle"
    BY <1>3 DEF Wait_Result
  <2>2. SemaInv' /\ Permits' = Permits - 0 /\ got' = [got EXCEPT ![c] = 0]
    BY <1>1, <2>1, ReturnStep
  <2>3. \A d \in Consumers \ {c} : at'[d] = at[d]
    BY <1>1, <2>1 DEF Return, Go, SemaInv
  <2>4. got'[c] = got[c] + 0 /\ \A d \in Consumers \ {c} : got'[d] = got[d]
    BY <1>1, <1>3, <2>2
  <2>5. UNCHANGED <<prodVars, scanVars>>
    BY <1>2, <2>1 DEF scanVars
  <2> QED
    BY <2>1, <2>2, <2>3, <2>4, <2>5, WaitFrame
<1>4. CASE Wait_Result(c) /\ got[c] # 0
  <2>1. /\ at[c] = "done" /\ qpc[c] = "idle" /\ UNCHANGED <<semaVars, prodVars>>
        /\ need' = [need EXCEPT ![c] = got[c]] /\ qpc' = [qpc EXCEPT ![c] = "token"]
    BY <1>2, <1>4 DEF Wait_Result
  <2>2. UNCHANGED <<at, got, producerList, producerCount, ppc>>
    BY <2>1 DEF semaVars, prodVars
  <2>3. QueueTypes'
    BY <1>1, <1>2, <2>1, <2>2 DEF QueueTypes
  <2>4. ScanInv(c)'
    BY <1>1, <1>2, <2>1, <2>2 DEF ScanInv
  <2>5. Redeemable(c)' = Redeemable(c) - 0 /\ Total(size)' = Total(size) - 0
    BY <1>1, <1>2, <2>1, <2>2 DEF Redeemable, Total, Units
  <2>6. \A d \in Consumers \ {c} : qpc'[d] = qpc[d] /\ need'[d] = need[d]
    BY <1>1, <2>1
  <2> QED
    BY <1>2, <2>1, <2>3, <2>4, <2>5, <2>6, ScanFrame
<1>5. CASE Scan_Done(c)
  <2>1. /\ Return(c) /\ UNCHANGED need
        /\ qpc[c] = "full" /\ qpc' = [qpc EXCEPT ![c] = "idle"]
    BY <1>5 DEF Scan_Done, ScanStep
  <2>2. SemaInv' /\ Permits' = Permits /\ got' = [got EXCEPT ![c] = 0]
    BY <1>1, <2>1, ReturnStep
  <2>3. UNCHANGED <<producerList, producerCount, ppc>>
    BY <1>2 DEF prodVars
  <2>4. QueueTypes' /\ CountedInv'
    BY <1>1, <1>2, <2>1, <2>3 DEF QueueInv, QueueTypes, CountedInv
  <2>5. ASSUME NEW d \in Consumers PROVE ScanInv(d)'
    <3>1. d # c => at'[d] = at[d] /\ qpc'[d] = qpc[d]
      BY <1>1, <2>1 DEF Return, Go, SemaInv
    <3>2. qpc'[c] = "idle"
      BY <1>1, <2>1
    <3> QED
      BY <1>2, <2>1, <2>3, <3>1, <3>2 DEF QueueInv, ScanInv
  <2>6. Redeemable(c) = 0 /\ Redeemable(c)' = 0
    BY <1>1, <2>1, <2>2 DEF Redeemable, ScanInv
  <2>7. \A d \in Consumers \ {c} : Redeemable(d)' = Redeemable(d)
    BY <1>1, <2>1, <2>2 DEF Redeemable
  <2>8. Total([d \in Consumers |-> Redeemable(d)])'
          = Total([d \in Consumers |-> Redeemable(d)]) - Redeemable(c) + Redeemable(c)'
    BY <1>1, <2>2, <2>4, <2>7, RedeemableChange
  <2>9. Total(size)' = Total(size) /\ Signalling' = Signalling
    BY <1>2, <2>3 DEF Total, Units, Signalling
  <2>10. Matched'
    BY <1>1, <2>2, <2>6, <2>8, <2>9, BalanceTypes DEF QueueInv, Matched
  <2> QED
    BY <2>2, <2>4, <2>5, <2>10 DEF QueueInv
<1> QED
  BY <1>3, <1>4, <1>5

\* A step of a producer leaves the consumers alone: what they need is the
\* same, and their pointers are still in the list.
LEMMA ProducerFrame ==
    ASSUME QueueInv, SemaInv', QueueTypes', CountedInv', UNCHANGED got,
           \A c \in Consumers : at'[c] = at[c],
           UNCHANGED <<token, qpc, need, tail, ptr>>, Len(producerList) <= Len(producerList'),
           Total(size)' + Permits + Cardinality(Signalling)
             = Total(size) + Permits' + Cardinality(Signalling)'
    PROVE  QueueInv'
<1>1. Len(producerList) \in Nat /\ Len(producerList') \in Nat
  BY DEF QueueInv, QueueTypes
<1>2. ASSUME NEW c \in Consumers PROVE ScanInv(c)'
  <2>1. ScanInv(c) /\ 0 .. Len(producerList) \subseteq 0 .. Len(producerList')
    BY <1>1 DEF QueueInv
  <2> QED
    BY <2>1 DEF ScanInv
<1>3. Total([c \in Consumers |-> Redeemable(c)])' = Total([c \in Consumers |-> Redeemable(c)])
  BY DEF Redeemable, Total, Units
<1>4. /\ Permits \in Nat /\ Total(size) \in Nat /\ Cardinality(Signalling) \in Nat
      /\ Total([c \in Consumers |-> Redeemable(c)]) \in Nat
  BY BalanceTypes DEF QueueInv
<1>5. Permits' \in Nat /\ Total(size)' \in Nat /\ Cardinality(Signalling)' \in Nat
  <2>1. Permits' \in Nat
    <3>1. Owed' \in Nat
      BY SemaphoreAssumption, FS_Subset, FS_CardinalityType DEF Owed
    <3> QED
      BY <3>1 DEF Permits, AvailableApprox, SemaInv, SemaTypeOK
  <2>2. Total(size)' \in Nat
    BY SemaphoreAssumption, UnitsFinite DEF QueueTypes
  <2>3. Cardinality(Signalling)' \in Nat
    BY SemaphoreAssumption, FS_Subset, FS_CardinalityType DEF Signalling
  <2> QED
    BY <2>1, <2>2, <2>3
<1> DEFINE T == Total([c \in Consumers |-> Redeemable(c)])
<1>6. T' = T /\ T \in Nat
  BY <1>3, <1>4
<1>7. Total(size) = Permits + T + Cardinality(Signalling)
  BY DEF QueueInv, Matched
<1>8. Total(size)' = Permits' + T' + Cardinality(Signalling)'
  <2>1. Total(size)' = Permits' + T + Cardinality(Signalling)'
    <3> HIDE DEF T
    <3> QED
      BY ONLY Total(size)' + Permits + Cardinality(Signalling)
                = Total(size) + Permits' + Cardinality(Signalling)',
         <1>4, <1>5, <1>6, <1>7
  <2> QED
    BY <1>6, <2>1
<1>9. Matched'
  BY <1>8 DEF Matched
<1> QED
  BY <1>2, <1>9 DEF QueueInv

\* enqueue keeps the balance.
LEMMA EnqueueInv ==
    ASSUME QueueInv, NEW p \in Producers, Enqueue(p)
    PROVE  QueueInv'
<1> DEFINE Linking == {q \in Producers : ppc[q] = "link"}
<1>1. /\ SemaInv /\ QueueTypes /\ CountedInv /\ Permits \in Nat /\ Total(size) \in Nat
      /\ Cardinality(Signalling) \in Nat /\ Cardinality(Linking) \in Nat
      /\ ppc \in [Producers -> {"new", "link", "idle", "signal"}]
      /\ size \in [Producers -> Nat] /\ producerList \in Seq(Producers)
      /\ producerCount \in Nat
  BY BalanceTypes, SemaphoreAssumption, FS_Subset, FS_CardinalityType DEF QueueInv, QueueTypes
<1>2. CASE AddProducer_Count(p)
  <2>1. /\ ppc[p] = "new" /\ producerCount' = producerCount + 1
        /\ ppc' = [ppc EXCEPT ![p] = "link"] /\ UNCHANGED <<semaVars, scanVars, producerList>>
    BY <1>2 DEF AddProducer_Count
  <2>2. UNCHANGED <<at, got, size, globalExplicitConsumerOffset, token, qpc, need, tail, ptr>>
    BY <2>1 DEF semaVars, scanVars
  <2>3. SemaInv' /\ Permits' = Permits
    BY <1>1, <2>1, SemaSame
  <2>4. QueueTypes'
    BY <1>1, <2>1, <2>2 DEF QueueTypes
  <2>5. Cardinality(Linking') = Cardinality(Linking) + 1
    BY <1>1, <2>1, SemaphoreAssumption, Enters
  <2>6. CountedInv'
    BY <1>1, <2>1, <2>5 DEF CountedInv
  <2>7. Signalling' = Signalling /\ Total(size)' = Total(size)
    BY <1>1, <2>1, <2>2 DEF Signalling, Total, Units
  <2>8. Len(producerList) <= Len(producerList')
    BY <1>1, <2>1
  <2> QED
    BY <2>2, <2>3, <2>4, <2>6, <2>7, <2>8, ProducerFrame
<1>3. CASE AddProducer_Link(p)
  <2>1. /\ ppc[p] = "link" /\ producerList' = Append(producerList, p)
        /\ ppc' = [ppc EXCEPT ![p] = "idle"] /\ UNCHANGED <<semaVars, scanVars, producerCount>>
    BY <1>3 DEF AddProducer_Link
  <2>2. UNCHANGED <<at, got, size, globalExplicitConsumerOffset, token, qpc, need, tail, ptr>>
    BY <2>1 DEF semaVars, scanVars
  <2>3. SemaInv' /\ Permits' = Permits
    BY <1>1, <2>1, SemaSame
  <2>4. producerList' \in Seq(Producers) /\ Len(producerList') = Len(producerList) + 1
    BY <1>1, <2>1
  <2>5. QueueTypes'
    BY <1>1, <2>1, <2>2, <2>4 DEF QueueTypes
  <2>6. Cardinality(Linking) = Cardinality(Linking') + 1 /\ Cardinality(Linking') \in Nat
    BY <1>1, <2>1, SemaphoreAssumption, Enters, FS_Subset, FS_CardinalityType
  <2>7. CountedInv'
    BY <1>1, <2>1, <2>4, <2>6 DEF CountedInv
  <2>8. Signalling' = Signalling /\ Total(size)' = Total(size)
    BY <1>1, <2>1, <2>2 DEF Signalling, Total, Units
  <2>9. Len(producerList) <= Len(producerList')
    BY <1>1, <2>4
  <2> QED
    BY <2>2, <2>3, <2>5, <2>7, <2>8, <2>9, ProducerFrame
<1>4. CASE Enqueue_Inner(p)
  <2>1. /\ ppc[p] = "idle" /\ size' = [size EXCEPT ![p] = @ + 1]
        /\ ppc' = [ppc EXCEPT ![p] = "signal"]
        /\ UNCHANGED <<semaVars, producerList, producerCount>>
        /\ UNCHANGED <<globalExplicitConsumerOffset, token, qpc, need, tail, ptr>>
    BY <1>4 DEF Enqueue_Inner
  <2>2. SemaInv' /\ Permits' = Permits /\ UNCHANGED <<at, got>>
    BY <1>1, <2>1, SemaSame DEF semaVars
  <2>3. QueueTypes'
    BY <1>1, <2>1 DEF QueueTypes
  <2>4. Linking' = Linking
    BY <1>1, <2>1
  <2>5. CountedInv'
    BY <1>1, <2>1, <2>4 DEF CountedInv
  <2>6. Cardinality(Signalling') = Cardinality(Signalling) + 1
    BY <1>1, <2>1, SemaphoreAssumption, Enters DEF Signalling
  <2>7. Total(size)' = Total(size) + 1
    <3>1. /\ IsFiniteSet(Producers) /\ size \in [Producers -> Nat]
          /\ size' \in [Producers -> Nat] /\ size'[p] = size[p] + 1
      BY <1>1, <2>1, SemaphoreAssumption
    <3>2. \A q \in Producers \ {p} : size'[q] = size[q]
      BY <1>1, <2>1
    <3>3. Total(size') = Total(size) - size[p] + size'[p]
      BY <3>1, <3>2, TotalChange
    <3>4. Total(size') = Total(size) + 1
      BY <1>1, <3>1, <3>3
    <3> QED
      BY <3>4 DEF Total, Units
  <2>8. Len(producerList) <= Len(producerList')
    BY <1>1, <2>1
  <2> QED
    BY <1>1, <2>1, <2>2, <2>3, <2>5, <2>6, <2>7, <2>8, ProducerFrame
<1>5. CASE Enqueue_Signal(p)
  <2>1. /\ ppc[p] = "signal" /\ Signal(p) /\ ppc' = [ppc EXCEPT ![p] = "idle"]
        /\ UNCHANGED <<scanVars, producerList, producerCount>>
    BY <1>5 DEF Enqueue_Signal
  <2>2. UNCHANGED <<size, globalExplicitConsumerOffset, token, qpc, need, tail, ptr>>
    BY <2>1 DEF scanVars
  <2>3. SemaInv' /\ Permits' = Permits + 1 /\ got' = got
    BY <1>1, <2>1, SignalStep
  <2>4. \A c \in Consumers : at'[c] = at[c]
    BY <1>1, <2>1, SemaphoreAssumption DEF Signal, Go, SemaInv
  <2>5. QueueTypes'
    BY <1>1, <2>1, <2>2 DEF QueueTypes
  <2>6. Linking' = Linking
    BY <1>1, <2>1
  <2>7. CountedInv'
    BY <1>1, <2>1, <2>6 DEF CountedInv
  <2>8. Cardinality(Signalling) = Cardinality(Signalling') + 1
    BY <1>1, <2>1, SemaphoreAssumption, Enters DEF Signalling
  <2>9. Cardinality(Signalling') \in Nat
    BY SemaphoreAssumption, FS_Subset, FS_CardinalityType DEF Signalling
  <2>10. Total(size)' = Total(size) /\ Len(producerList) <= Len(producerList')
    BY <1>1, <2>1, <2>2 DEF Total, Units
  <2> QED
    BY <1>1, <2>2, <2>3, <2>4, <2>5, <2>7, <2>8, <2>9, <2>10, ProducerFrame
<1>6. CASE Enqueue_Post(p)
  <2>1. Post(p) /\ UNCHANGED <<prodVars, scanVars>>
    BY <1>6 DEF Enqueue_Post
  <2>2. /\ UNCHANGED <<size, globalExplicitConsumerOffset, token, qpc, need, tail, ptr>>
        /\ UNCHANGED <<producerList, producerCount, ppc>>
    BY <2>1 DEF scanVars, prodVars
  <2>3. SemaInv' /\ Permits' = Permits /\ got' = got
    BY <1>1, <2>1, PostStep
  <2>4. \A c \in Consumers : at'[c] = at[c]
    BY <1>1, <2>1, SemaphoreAssumption DEF Post, Go, SemaInv
  <2>5. QueueTypes' /\ CountedInv'
    BY <1>1, <2>2 DEF QueueTypes, CountedInv
  <2>6. Signalling' = Signalling /\ Total(size)' = Total(size)
    BY <2>2 DEF Signalling, Total, Units
  <2>7. Len(producerList) <= Len(producerList')
    BY <1>1, <2>2
  <2> QED
    BY <2>2, <2>3, <2>4, <2>5, <2>6, <2>7, ProducerFrame
<1> QED
  BY <1>2, <1>3, <1>4, <1>5, <1>6 DEF Enqueue

\* Every step of the queue keeps its invariant.
LEMMA QueueNext == QueueInv /\ [QNext]_queueVars => QueueInv'
<1> SUFFICES ASSUME QueueInv, [QNext]_queueVars PROVE QueueInv'
  OBVIOUS
<1>1. ASSUME NEW p \in Producers, Enqueue(p) PROVE QueueInv'
  BY <1>1, EnqueueInv
<1>2. ASSUME NEW c \in Consumers, WaitDequeueBulkTimed(c) PROVE QueueInv'
  BY <1>2, WaitInv, ResultInv, ScanStepInv DEF WaitDequeueBulkTimed, Scan
<1>3. CASE UNCHANGED queueVars
  <2>1. /\ UNCHANGED semaVars /\ UNCHANGED <<producerList, producerCount, ppc>>
        /\ UNCHANGED <<size, globalExplicitConsumerOffset, token, qpc, need, tail, ptr>>
    BY <1>3 DEF queueVars, prodVars, scanVars
  <2>2. SemaInv' /\ Permits' = Permits /\ UNCHANGED <<at, got>>
    BY <2>1, SemaSame DEF QueueInv, semaVars
  <2>3. QueueTypes' /\ CountedInv'
    BY <2>1 DEF QueueInv, QueueTypes, CountedInv
  <2>4. Signalling' = Signalling /\ Total(size)' = Total(size)
    BY <2>1 DEF Signalling, Total, Units
  <2>5. Len(producerList) <= Len(producerList')
    BY <2>1 DEF QueueInv, QueueTypes
  <2> QED
    BY <2>1, <2>2, <2>3, <2>4, <2>5, ProducerFrame
<1> QED
  BY <1>1, <1>2, <1>3 DEF QNext

\* A permit stands for an element, whatever the producers, the consumers, the
\* batch, the quota and the interleaving: "while (count != max)" never spins on
\* an empty queue, and no element is left that no permit announces.
THEOREM PermitIsElement == QSpec => []PermitsMatchElements
<1>1. QueueInv => PermitsMatchElements
  BY DEF QueueInv, SemaInv, Matched, PermitsMatchElements
<1> QED
  BY <1>1, QueueInit, QueueNext, PTL DEF QSpec

\* The queue uses the semaphore as it is meant to be used.
THEOREM QueueUsesSemaphore == QSpec => Spec
<1>1. QInit => Init
  BY DEF QInit
<1>2. [QNext]_queueVars => [Next]_semaVars
  <2> SUFFICES ASSUME [QNext]_queueVars PROVE [Next]_semaVars
    OBVIOUS
  <2>1. ASSUME NEW p \in Producers, Enqueue(p) PROVE [Next]_semaVars
    BY <2>1 DEF Enqueue, AddProducer_Count, AddProducer_Link, Enqueue_Inner, Enqueue_Signal,
       Enqueue_Post, Next
  <2>2. ASSUME NEW c \in Consumers, WaitDequeueBulkTimed(c) PROVE [Next]_semaVars
    <3>1. MaxBatch \in 1 .. MaxBatch
      BY SemaphoreAssumption
    <3> QED
      BY <2>2, <3>1 DEF WaitDequeueBulkTimed, Wait_Start, Wait_Step, Wait_Result, Scan,
         Scan_Token, Scan_Rotate, Scan_Current, Scan_Next, Scan_Again, Scan_Done, Next
  <2>3. CASE UNCHANGED queueVars
    BY <2>3 DEF queueVars
  <2> QED
    BY <2>1, <2>2, <2>3 DEF QNext
<1> QED
  BY <1>1, <1>2, PTL DEF QSpec, Spec

\* So the semaphore inside the queue is a counting semaphore.
THEOREM QueueSemaphoreCounts == QSpec => IsCountingSemaphore
BY QueueUsesSemaphore, SemaphoreCounts, PTL
=============================================================================
