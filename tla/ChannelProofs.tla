---------------------------- MODULE ChannelProofs ----------------------------
(***************************************************************************)
(* Proofs about StreamQueue and Channel, for any number of workers and     *)
(* producers, any buffer size, any stream and any messages.                *)
(*                                                                         *)
(* 1. StreamQueue.  2. The locks and the destructor.  3. The stream that   *)
(* is read.  4. The messages that are written.                             *)
(*                                                                         *)
(* First, when the loop of dequeueAsVec is right: it does what dequeue     *)
(* does as long as its index cannot run out of values, that is, when it is *)
(* asked for fewer bytes than the index has values or the queue is not     *)
(* longer.                                                                 *)
(***************************************************************************)
EXTENDS Channel, SequenceTheorems, WellFoundedInduction, TLAPS

\* No byte number below IndexRange wraps.
LEMMA NoWrap == \A k \in 0..IndexRange - 1 : k % IndexRange = k
  BY IndexRangePositive, SMT

\* The loop of dequeueAsVec pops exactly countToDequeue bytes.
LEMMA PopsCount ==
  ASSUME NEW S, NEW bytes \in Seq(S), NEW maxCount \in Nat,
         maxCount < IndexRange \/ Len(bytes) <= IndexRange
  PROVE  VecPops(bytes, maxCount) = CountToDequeue(bytes, maxCount)
<1> DEFINE c == CountToDequeue(bytes, maxCount)
           Stops(n) == /\ ~VecContinues(bytes, maxCount, n)
                       /\ \A k \in 0..n - 1 : VecContinues(bytes, maxCount, k)
<1>0. Len(bytes) \in Nat
  BY LenProperties
<1>1. c \in 0..Len(bytes) /\ c <= maxCount /\ (c = maxCount \/ c = Len(bytes))
  BY <1>0 DEF CountToDequeue
<1>2. \A k \in 0..c - 1 : k \in 0..IndexRange - 1 /\ k < maxCount /\ k < Len(bytes)
  BY <1>0, <1>1, IndexRangePositive
<1>3. \A k \in 0..c - 1 : VecContinues(bytes, maxCount, k)
  BY <1>2, NoWrap DEF VecContinues
<1>4. ~VecContinues(bytes, maxCount, c)
  <2>1. CASE c = Len(bytes)
    BY <2>1, <1>0 DEF VecContinues
  <2>2. CASE c # Len(bytes)
    <3>1. c = maxCount /\ c < Len(bytes)
      BY <2>2, <1>0, <1>1
    <3>2. c \in 0..IndexRange - 1
      BY <3>1, <1>0, <1>1, IndexRangePositive
    <3> QED BY <3>1, <3>2, NoWrap DEF VecContinues
  <2> QED BY <2>1, <2>2
<1>5. Stops(c)
  BY <1>3, <1>4
<1>6. \A n \in 0..Len(bytes) : Stops(n) => n = c
  <2> SUFFICES ASSUME NEW n \in 0..Len(bytes), Stops(n), n # c PROVE FALSE
    OBVIOUS
  <2>1. CASE n < c
    BY <2>1, <1>0, <1>1, <1>3
  <2>2. CASE c < n
    BY <2>2, <1>0, <1>1, <1>4
  <2> QED BY <2>1, <2>2, <1>0, <1>1
<1>7. VecPops(bytes, maxCount) = CHOOSE n \in 0..Len(bytes) : Stops(n)
  BY DEF VecPops
<1> HIDE DEF c, Stops
<1>8. (CHOOSE n \in 0..Len(bytes) : Stops(n)) = c
  BY <1>1, <1>5, <1>6
<1> QED BY <1>7, <1>8 DEF c

\* Max of a singleton.
LEMMA MaxSingleton == \A n \in Int : Max({n}) = n
  BY DEF Max

\* dequeueAsVec (and dequeAsMessage) returns the bytes dequeue would return and
\* leaves the queue dequeue would leave, unless it is asked for IndexRange bytes
\* or more while more than IndexRange bytes are queued.
THEOREM VecIsDequeue ==
  ASSUME NEW S, NEW bytes \in Seq(S), NEW maxCount \in Nat,
         maxCount < IndexRange \/ Len(bytes) <= IndexRange
  PROVE  /\ VecDequeued(bytes, maxCount) = Dequeued(bytes, maxCount)
         /\ VecRest(bytes, maxCount) = DequeueRest(bytes, maxCount)
<1> DEFINE c == CountToDequeue(bytes, maxCount)
           writes(j) == {k \in 0..VecPops(bytes, maxCount) - 1 : k % IndexRange = j - 1}
<1>0. Len(bytes) \in Nat
  BY LenProperties
<1>1. VecPops(bytes, maxCount) = c
  BY PopsCount
<1>2. c \in 0..Len(bytes) /\ c <= IndexRange
  BY <1>0, IndexRangePositive DEF CountToDequeue
<1>3. ASSUME NEW j \in 1..c PROVE writes(j) = {j - 1}
  <2>1. \A k \in 0..c - 1 : k % IndexRange = k
    BY <1>2, NoWrap, <1>0, IndexRangePositive
  <2> HIDE DEF c
  <2>2. j - 1 \in 0..c - 1
    BY <1>0, <1>2
  <2> QED BY <1>1, <2>1, <2>2
<1>4. ASSUME NEW j \in 1..c
      PROVE  (IF writes(j) = {} THEN Zero ELSE bytes[Max(writes(j)) + 1]) = bytes[j]
  <2>1. Max(writes(j)) = j - 1 /\ writes(j) # {}
    BY <1>3, <1>0, <1>2, MaxSingleton
  <2>2. Max(writes(j)) + 1 = j
    BY <2>1, <1>0, <1>2
  <2> QED BY <2>1, <2>2
<1>5. VecDequeued(bytes, maxCount) = [j \in 1..c |-> bytes[j]]
  BY <1>4 DEF VecDequeued
<1>6. Dequeued(bytes, maxCount) = [j \in 1..c |-> bytes[j]]
  BY <1>0, <1>2 DEF Dequeued
<1>7. VecRest(bytes, maxCount) = DequeueRest(bytes, maxCount)
  BY <1>1 DEF VecRest, DequeueRest
<1> QED BY <1>5, <1>6, <1>7

-----------------------------------------------------------------------------
(* What can be said when the index may wrap.                               *)

\* A non-empty set of naturals has a least element.
LEMMA LeastNat ==
  ASSUME NEW T \in SUBSET Nat, T # {}
  PROVE  \E n \in T : \A m \in T : n <= m
<1>1. PICK n \in T : \A m \in T : ~(<<m, n>> \in OpToRel(<, Nat))
  BY NatLessThanWellFounded, WFMin
<1>2. \A m \in T : ~(m < n)
  BY <1>1 DEF OpToRel
<1> QED BY <1>2

\* The loop always stops, at the latest when the queue is empty.
LEMMA PopsBounded ==
  ASSUME NEW S, NEW bytes \in Seq(S), NEW maxCount \in Nat
  PROVE  VecPops(bytes, maxCount) \in 0..Len(bytes)
<1> DEFINE T == {n \in 0..Len(bytes) : ~VecContinues(bytes, maxCount, n)}
           Stops(n) == /\ ~VecContinues(bytes, maxCount, n)
                       /\ \A k \in 0..n - 1 : VecContinues(bytes, maxCount, k)
<1>0. Len(bytes) \in Nat
  BY LenProperties
<1>1. Len(bytes) \in T
  BY <1>0 DEF VecContinues
<1>2. PICK n \in T : \A m \in T : n <= m
  <2>1. T \in SUBSET Nat /\ T # {}
    BY <1>0, <1>1
  <2> HIDE DEF T
  <2> QED BY <2>1, LeastNat
<1>3. n \in 0..Len(bytes) /\ Stops(n)
  BY <1>0, <1>2
<1>4. VecPops(bytes, maxCount) = CHOOSE k \in 0..Len(bytes) : Stops(k)
  BY DEF VecPops
<1> HIDE DEF Stops, T
<1> QED BY <1>3, <1>4

\* The greatest element of a non-empty bounded set of naturals.
LEMMA MaxBounded ==
  ASSUME NEW N \in Nat, NEW W \in SUBSET (0..N), W # {}
  PROVE  Max(W) \in W
<1> DEFINE T == {N - k : k \in W}
<1>1. T \in SUBSET Nat /\ T # {}
  <2>1. \A k \in W : N - k \in Nat
    OBVIOUS
  <2>2. PICK k \in W : TRUE
    OBVIOUS
  <2>3. N - k \in T
    BY <2>2
  <2> QED BY <2>1, <2>3
<1>2. PICK d \in T : \A e \in T : d <= e
  BY <1>1, LeastNat
<1>3. PICK k \in W : d = N - k
  OBVIOUS
<1>4. \A j \in W : k >= j
  BY <1>2, <1>3
<1> QED BY <1>4 DEF Max

\* Whatever wraps, dequeueAsVec returns bytes of the queue or zeroes, and
\* leaves a part of the queue.
LEMMA VecTyped ==
  ASSUME NEW bytes \in Seq(Nat), NEW maxCount \in Nat
  PROVE  /\ VecDequeued(bytes, maxCount) \in Seq(Nat)
         /\ VecRest(bytes, maxCount) \in Seq(Nat)
<1> DEFINE p == VecPops(bytes, maxCount)
           c == CountToDequeue(bytes, maxCount)
           writes(j) == {k \in 0..p - 1 : k % IndexRange = j - 1}
           v(j) == IF writes(j) = {} THEN Zero ELSE bytes[Max(writes(j)) + 1]
<1>0. Len(bytes) \in Nat /\ c \in Nat
  BY LenProperties DEF CountToDequeue
<1>1. p \in 0..Len(bytes)
  BY PopsBounded
<1>2. ASSUME NEW j \in 1..c PROVE v(j) \in Nat
  <2>1. CASE writes(j) = {}
    BY <2>1 DEF Zero
  <2>2. CASE writes(j) # {}
    <3>1. Max(writes(j)) \in writes(j)
      <4>1. writes(j) \in SUBSET (0..Len(bytes))
        BY <1>0, <1>1
      <4> HIDE DEF writes
      <4> QED BY <2>2, <4>1, <1>0, MaxBounded
    <3>2. Max(writes(j)) + 1 \in 1..Len(bytes)
      BY <3>1, <1>0, <1>1
    <3> QED BY <2>2, <3>2, ElementOfSeq
  <2> QED BY <2>1, <2>2
<1>3. VecDequeued(bytes, maxCount) = [j \in 1..c |-> v(j)]
  BY DEF VecDequeued
<1>4. VecDequeued(bytes, maxCount) \in Seq(Nat)
  <2> HIDE DEF v, c
  <2> QED BY <1>0, <1>2, <1>3, IsASeq
<1>5. VecRest(bytes, maxCount) \in Seq(Nat)
  BY <1>0, <1>1, SubSeqProperties DEF VecRest
<1> QED BY <1>4, <1>5

-----------------------------------------------------------------------------
\* readLock belongs to the one worker between try_lock and the end of readData.
ReadLockInv ==
    \A r \in ReadWorkers : rpc[r] \in {"recv", "check", "listen"} <=> readLock = r

\* writeLock belongs to the one worker between try_lock and the end of
\* handleWriteQueue.
WriteLockInv ==
    \A w \in WriteWorkers : wpc[w] \in {"dequeue", "enter", "test", "send"} <=> writeLock = w

\* A worker in sendBytes has a message, and no more left of it than its length.
BatchInv ==
    \A w \in WriteWorkers :
        /\ wpc[w] \in {"enter", "test", "send"} => batch[w] # <<>>
        /\ wpc[w] \in {"test", "send"} => left[w] <= Head(batch[w]).len

\* ~Channel went past both locks.
GoneInv == life = "gone" => readLock = Nobody /\ writeLock = Nobody

IInv == TypeOK /\ ReadLockInv /\ WriteLockInv /\ BatchInv /\ GoneInv

-----------------------------------------------------------------------------
\* The initial state satisfies the inductive invariant.
LEMMA InitIInv == Init => IInv
<1> SUFFICES ASSUME Init PROVE IInv
  OBVIOUS
<1>0. <<>> \in Seq(Nat) /\ <<>> \in Seq(Messages) /\ <<>> \in Seq([msg : Messages, byte : Nat])
  BY EmptySeq
<1>1. FlagTypeOK
  BY DEF Init, FlagTypeOK
<1>2. ReadTypeOK
  <2>1. peerSent \in 0..PeerBytes /\ received \in 0..peerSent
    BY BoundsAreNat DEF Init
  <2>2. peerOpen \in BOOLEAN
    BY DEF Init
  <2> QED
    BY <1>0, <2>1, <2>2 DEF Init, ReadTypeOK, ReadPcs
<1>3. WriteTypeOK
  <2>1. partial \in BOOLEAN
    BY DEF Init
  <2> QED
    BY <1>0, <2>1 DEF Init, WriteTypeOK, WritePcs
<1>4. ReadLockInv /\ WriteLockInv /\ BatchInv /\ GoneInv
  BY NobodyOutside DEF Init, ReadLockInv, WriteLockInv, BatchInv, GoneInv
<1> QED
  BY <1>1, <1>2, <1>3, <1>4 DEF IInv, TypeOK

-----------------------------------------------------------------------------
(* Reading.                                                                *)

\* recv returns the bytes that follow the ones it returned before, and no byte
\* the peer has not sent.
LEMMA RecvResults ==
    ASSUME ReadTypeOK, NEW result \in Recv
    PROVE  /\ result \in [kind : {"data", "again", "end", "failed"}, bytes : Seq(Nat)]
           /\ received + Len(result.bytes) \in 0..peerSent
           /\ \A i \in 1..Len(result.bytes) : result.bytes[i] = received + i
           /\ result.kind = "end" => received = peerSent /\ ~peerOpen
           /\ result.kind # "data" => Len(result.bytes) = 0
<1> DEFINE Result(k, n) == [kind |-> k, bytes |-> [i \in 1..n |-> received + i]]
           available == peerSent - received
<1>0. /\ received \in Nat /\ peerSent \in Nat /\ available \in Nat
      /\ BufferSize \in Nat \ {0}
  BY BoundsAreNat DEF ReadTypeOK
<1>1. ASSUME NEW n \in Nat
      PROVE  /\ Result("x", n).bytes \in Seq(Nat)
             /\ Len(Result("x", n).bytes) = n
             /\ \A i \in 1..n : Result("x", n).bytes[i] = received + i
  BY <1>0
<1>2. PICK k \in {"data", "again", "end", "failed"}, n \in Nat :
        /\ result = Result(k, n)
        /\ n <= available
        /\ k = "end" => available = 0 /\ ~peerOpen
        /\ k # "data" => n = 0
  <2>1. CASE result \in {Result("data", n) : n \in 1..Min({BufferSize, available})}
    <3>1. Min({BufferSize, available}) \in Nat /\ Min({BufferSize, available}) <= available
      BY <1>0 DEF Min
    <3> QED BY <2>1, <3>1, <1>0
  <2>2. CASE available = 0 /\ result = Result(IF peerOpen THEN "again" ELSE "end", 0)
    BY <2>2, <1>0
  <2>3. CASE result = Result("failed", 0)
    BY <2>3, <1>0
  <2> QED
    <3>1. available > 0 \/ available = 0
      BY <1>0
    <3> QED BY <2>1, <2>2, <2>3, <3>1 DEF Recv
<1>3. result.kind = k /\ result.bytes = [i \in 1..n |-> received + i]
  BY <1>2
<1>4. /\ result.bytes \in Seq(Nat) /\ Len(result.bytes) = n
      /\ \A i \in 1..n : result.bytes[i] = received + i
  BY <1>1, <1>3
<1> QED
  BY <1>0, <1>2, <1>3, <1>4

\* Either way of dequeuing returns a sequence of bytes and leaves one.
LEMMA DequeueTyped ==
    ASSUME NEW bytes \in Seq(Nat), NEW maxCount \in Nat
    PROVE  /\ Dequeued(bytes, maxCount) \in Seq(Nat)
           /\ DequeueRest(bytes, maxCount) \in Seq(Nat)
<1>1. Len(bytes) \in Nat /\ CountToDequeue(bytes, maxCount) \in 0..Len(bytes)
  BY LenProperties DEF CountToDequeue
<1> QED
  BY <1>1, SubSeqProperties DEF Dequeued, DequeueRest

\* What reading leaves alone.
LEMMA ReadLeavesWriting ==
    ASSUME IInv, UNCHANGED <<sendVars, queueVars>>
    PROVE  WriteTypeOK' /\ WriteLockInv' /\ BatchInv'
BY DEF IInv, TypeOK, WriteTypeOK, WriteLockInv, BatchInv, sendVars, queueVars

\* What writing leaves alone.
LEMMA WriteLeavesReading ==
    ASSUME IInv, UNCHANGED <<peerVars, readVars>>
    PROVE  ReadTypeOK' /\ ReadLockInv'
BY DEF IInv, TypeOK, ReadTypeOK, ReadLockInv, peerVars, readVars, heard

\* Every step of readData preserves the inductive invariant.
LEMMA ReadDataIInv ==
    ASSUME IInv, NEW r \in ReadWorkers, ReadData(r)
    PROVE  IInv'
<1> USE DEF IInv, TypeOK
<1>0. r # Nobody
  BY NobodyOutside
<1>1. CASE ReadData_Enter(r)
  <2>1. FlagTypeOK' /\ ReadTypeOK'
    BY <1>1 DEF ReadData_Enter, ReadGoto, FlagTypeOK, ReadTypeOK, ReadPcs, flags, notRead, peerVars, heard
  <2>2. ReadLockInv' /\ GoneInv'
    BY <1>1 DEF ReadData_Enter, ReadGoto, ReadLockInv, GoneInv, ReadTypeOK, flags, notRead, sendVars
  <2> QED
    BY <1>1, <2>1, <2>2, ReadLeavesWriting DEF ReadData_Enter, notRead
<1>2. CASE ReadData_TryLock(r)
  <2>1. FlagTypeOK' /\ ReadTypeOK'
    BY <1>2 DEF ReadData_TryLock, ReadGoto, FlagTypeOK, ReadTypeOK, ReadPcs, flags, notRead, peerVars, heard
  <2>2. ReadLockInv' /\ GoneInv'
    BY <1>0, <1>2, NobodyOutside
    DEF ReadData_TryLock, ReadGoto, ReadLockInv, GoneInv, ReadTypeOK, flags, notRead, sendVars
  <2> QED
    BY <1>2, <2>1, <2>2, ReadLeavesWriting DEF ReadData_TryLock, notRead
<1>3. CASE ReadData_Recv(r)
  <2> PICK result \in Recv : /\ got' = [got EXCEPT ![r] = result]
                             /\ received' = received + Len(result.bytes)
    BY <1>3 DEF ReadData_Recv
  <2>0. /\ result \in [kind : {"data", "again", "end", "failed"}, bytes : Seq(Nat)]
        /\ received' \in 0..peerSent
    BY RecvResults
  <2>1. FlagTypeOK' /\ ReadTypeOK'
    BY <1>3, <2>0 DEF ReadData_Recv, ReadGoto, FlagTypeOK, ReadTypeOK, ReadPcs, flags, notRead, peerVars, heard
  <2>2. ReadLockInv' /\ GoneInv'
    BY <1>3 DEF ReadData_Recv, ReadGoto, ReadLockInv, GoneInv, ReadTypeOK, flags, notRead, sendVars
  <2> QED
    BY <1>3, <2>1, <2>2, ReadLeavesWriting DEF ReadData_Recv, notRead
<1>4. CASE ReadData_Check(r)
  <2>0. got[r].bytes \in Seq(Nat) /\ incoming \o got[r].bytes \in Seq(Nat)
    <3>1. got[r].bytes \in Seq(Nat) /\ incoming \in Seq(Nat)
      BY DEF ReadTypeOK
    <3> QED BY <3>1, ConcatProperties
  <2>1. FlagTypeOK'
    BY <1>4 DEF ReadData_Check, FlagTypeOK
  <2>2. ReadTypeOK'
    BY <1>4, <2>0
    DEF ReadData_Check, ReadGoto, ReadTypeOK, ReadPcs, EnqueueMove, notRead, peerVars, heard
  <2>3. ReadLockInv' /\ GoneInv'
    BY <1>0, <1>4, NobodyOutside
    DEF ReadData_Check, ReadGoto, ReadLockInv, GoneInv, ReadTypeOK, notRead, sendVars
  <2> QED
    BY <1>4, <2>1, <2>2, <2>3, ReadLeavesWriting DEF ReadData_Check, notRead
<1>5. CASE ReadData_Listen(r)
  <2>0. consumed' \in Seq(Nat) /\ incoming' \in Seq(Nat) /\ wrapped' \in BOOLEAN
    <3> PICK maxCount \in 0..Len(incoming) :
          \/ /\ consumed' = consumed \o Dequeued(incoming, maxCount)
             /\ incoming' = DequeueRest(incoming, maxCount)
             /\ wrapped' = wrapped
          \/ /\ consumed' = consumed \o VecDequeued(incoming, maxCount)
             /\ incoming' = VecRest(incoming, maxCount)
             /\ wrapped' = (wrapped \/ Wraps(incoming, maxCount))
      BY <1>5 DEF ReadData_Listen
    <3>1. incoming \in Seq(Nat) /\ consumed \in Seq(Nat) /\ maxCount \in Nat
      BY LenProperties DEF ReadTypeOK
    <3>2. /\ Dequeued(incoming, maxCount) \in Seq(Nat) /\ DequeueRest(incoming, maxCount) \in Seq(Nat)
          /\ VecDequeued(incoming, maxCount) \in Seq(Nat) /\ VecRest(incoming, maxCount) \in Seq(Nat)
      BY <3>1, DequeueTyped, VecTyped
    <3>3. wrapped' \in BOOLEAN
      BY Zenon DEF ReadTypeOK
    <3> QED BY <3>1, <3>2, <3>3, ConcatProperties
  <2>1. FlagTypeOK' /\ ReadTypeOK'
    BY <1>5, <2>0
    DEF ReadData_Listen, ReadGoto, FlagTypeOK, ReadTypeOK, ReadPcs, flags, notRead, peerVars
  <2>2. ReadLockInv' /\ GoneInv'
    BY <1>0, <1>5, NobodyOutside
    DEF ReadData_Listen, ReadGoto, ReadLockInv, GoneInv, ReadTypeOK, flags, notRead, sendVars
  <2> QED
    BY <1>5, <2>1, <2>2, ReadLeavesWriting DEF ReadData_Listen, notRead
<1> QED
  BY <1>1, <1>2, <1>3, <1>4, <1>5 DEF ReadData

-----------------------------------------------------------------------------
(* Writing.                                                                *)

\* Going on to the next message keeps writeLock, leaving handleWriteQueue
\* releases it.
LEMMA ContinueIInv ==
    ASSUME IInv, NEW w \in WriteWorkers, NEW messages \in Seq(Messages),
           NEW from \in {"dequeue", "enter", "test", "send"},
           Continue(w, from, messages), UNCHANGED left
    PROVE  /\ wpc' \in [WriteWorkers -> WritePcs]
           /\ batch' \in [WriteWorkers -> Seq(Messages)]
           /\ writeLock' \in WriteWorkers \cup {Nobody}
           /\ WriteLockInv' /\ BatchInv'
<1> USE DEF IInv, TypeOK
<1>1. wpc[w] = from /\ wpc' = [wpc EXCEPT ![w] = IF messages = <<>> THEN "out" ELSE "enter"]
  BY DEF Continue, WriteGoto
<1>2. batch' = [batch EXCEPT ![w] = messages]
  BY DEF Continue
<1>3. writeLock' = IF messages = <<>> THEN Nobody ELSE writeLock
  BY DEF Continue
<1>4. writeLock = w /\ w # Nobody
  BY <1>1, NobodyOutside DEF WriteLockInv
<1>5. /\ wpc' \in [WriteWorkers -> WritePcs]
      /\ batch' \in [WriteWorkers -> Seq(Messages)]
      /\ writeLock' \in WriteWorkers \cup {Nobody}
  BY <1>1, <1>2, <1>3 DEF WriteTypeOK, WritePcs
<1>6. WriteLockInv'
  BY <1>1, <1>3, <1>4, NobodyOutside DEF WriteLockInv, WriteTypeOK
<1>7. BatchInv'
  BY <1>1, <1>2 DEF BatchInv, WriteTypeOK
<1> QED
  BY <1>3, <1>5, <1>6, <1>7

\* Every step of handleWriteQueue preserves the inductive invariant.
LEMMA HandleWriteIInv ==
    ASSUME IInv, NEW w \in WriteWorkers, HandleWriteQueue(w)
    PROVE  IInv'
<1> USE DEF IInv, TypeOK
<1>0. w # Nobody
  BY NobodyOutside
<1>h. ASSUME NEW s \in Seq(Messages), s # <<>>
      PROVE  Head(s) \in Messages /\ Tail(s) \in Seq(Messages)
  BY <1>h, HeadTailProperties
<1>m. \A m \in Messages : m.len \in Nat
  BY BoundsAreNat DEF Messages
<1>b. batch[w] \in Seq(Messages)
  BY DEF WriteTypeOK
<1>1. CASE HandleWrite_Enter(w)
  <2>1. FlagTypeOK' /\ WriteTypeOK'
    BY <1>1 DEF HandleWrite_Enter, WriteGoto, FlagTypeOK, WriteTypeOK, WritePcs, flags, notSend
  <2>2. WriteLockInv' /\ BatchInv' /\ GoneInv'
    BY <1>1 DEF HandleWrite_Enter, WriteGoto, WriteTypeOK, WriteLockInv, BatchInv, GoneInv,
                flags, notSend, readVars
  <2> QED
    BY <1>1, <2>1, <2>2, WriteLeavesReading DEF HandleWrite_Enter, notSend
<1>2. CASE HandleWrite_Size(w)
  <2>1. FlagTypeOK' /\ WriteTypeOK'
    BY <1>2 DEF HandleWrite_Size, WriteGoto, FlagTypeOK, WriteTypeOK, WritePcs, flags, notSend
  <2>2. WriteLockInv' /\ BatchInv' /\ GoneInv'
    BY <1>2 DEF HandleWrite_Size, WriteGoto, WriteTypeOK, WriteLockInv, BatchInv, GoneInv,
                flags, notSend, readVars
  <2> QED
    BY <1>2, <2>1, <2>2, WriteLeavesReading DEF HandleWrite_Size, notSend
<1>3. CASE HandleWrite_TryLock(w)
  <2>1. FlagTypeOK' /\ WriteTypeOK'
    BY <1>3 DEF HandleWrite_TryLock, WriteGoto, FlagTypeOK, WriteTypeOK, WritePcs, flags, notSend
  <2>2. WriteLockInv' /\ BatchInv' /\ GoneInv'
    BY <1>0, <1>3, NobodyOutside
    DEF HandleWrite_TryLock, WriteGoto, WriteTypeOK, WriteLockInv, BatchInv, GoneInv,
        flags, notSend, readVars
  <2> QED
    BY <1>3, <2>1, <2>2, WriteLeavesReading DEF HandleWrite_TryLock, notSend
<1>4. CASE HandleWrite_Take(w)
  <2> PICK p \in Producers :
        /\ queue[p] # <<>>
        /\ batch' = [batch EXCEPT ![w] = Append(@, Head(queue[p]))]
        /\ queue' = [queue EXCEPT ![p] = Tail(@)]
    BY <1>4 DEF HandleWrite_Take
  <2>0. /\ Append(batch[w], Head(queue[p])) \in Seq(Messages)
        /\ Tail(queue[p]) \in Seq(Messages)
    <3>1. queue[p] \in Seq(Messages)
      BY DEF WriteTypeOK
    <3>2. Head(queue[p]) \in Messages /\ Tail(queue[p]) \in Seq(Messages)
      BY <3>1, <1>h
    <3> QED BY <1>b, <3>2, AppendProperties
  <2>1. FlagTypeOK' /\ WriteTypeOK'
    BY <1>4, <2>0 DEF HandleWrite_Take, FlagTypeOK, WriteTypeOK, flags, notSend
  <2>2. WriteLockInv' /\ BatchInv' /\ GoneInv'
    BY <1>4 DEF HandleWrite_Take, WriteTypeOK, WriteLockInv, BatchInv, GoneInv,
                flags, notSend, readVars
  <2> QED
    BY <1>4, <2>1, <2>2, WriteLeavesReading DEF HandleWrite_Take, notSend
<1>c. ASSUME NEW messages \in Seq(Messages), NEW from \in {"dequeue", "enter", "test", "send"},
             Continue(w, from, messages), life # "gone",
             UNCHANGED <<socketActive, life, left, sent, wire, partial, queue, notSend>>,
             active' \in BOOLEAN
      PROVE  IInv'
  <2>1. /\ wpc' \in [WriteWorkers -> WritePcs]
        /\ batch' \in [WriteWorkers -> Seq(Messages)]
        /\ writeLock' \in WriteWorkers \cup {Nobody}
        /\ WriteLockInv' /\ BatchInv'
    BY <1>c, ContinueIInv
  <2>2. FlagTypeOK' /\ WriteTypeOK'
    BY <1>c, <2>1 DEF FlagTypeOK, WriteTypeOK, notSend
  <2>3. GoneInv'
    BY <1>c DEF GoneInv
  <2>4. ReadTypeOK' /\ ReadLockInv'
    BY <1>c, WriteLeavesReading DEF notSend
  <2> QED BY <2>1, <2>2, <2>3, <2>4
<1>5. CASE HandleWrite_Dequeued(w)
  BY <1>5, <1>b, <1>c DEF HandleWrite_Dequeued, FlagTypeOK, flags
<1>6. CASE SendBytes_Enter(w)
  <2>0. wpc[w] = "enter" /\ life # "gone" /\ batch[w] # <<>>
    BY <1>6 DEF SendBytes_Enter, WriteGoto, Continue, BatchInv
  <2>1. CASE IsActive
    <3>0. /\ wpc' = [wpc EXCEPT ![w] = "test"]
          /\ left' = [left EXCEPT ![w] = Head(batch[w]).len]
          /\ sent' = [sent EXCEPT ![w] = 0]
          /\ UNCHANGED <<flags, batch, writeLock, wire, partial, queue, notSend>>
      BY <1>6, <2>1 DEF SendBytes_Enter, WriteGoto
    <3>1. Head(batch[w]).len \in Nat
      BY <1>h, <1>m, <1>b, <2>0
    <3>2. FlagTypeOK' /\ WriteTypeOK'
      BY <3>0, <3>1 DEF FlagTypeOK, WriteTypeOK, WritePcs, flags, notSend
    <3>3. WriteLockInv' /\ BatchInv' /\ GoneInv'
      BY <2>0, <3>0, <3>1 DEF WriteTypeOK, WriteLockInv, BatchInv, GoneInv, flags, notSend, readVars
    <3> QED
      BY <3>0, <3>2, <3>3, WriteLeavesReading DEF notSend
  <2>2. CASE ~IsActive
    BY <1>6, <2>0, <2>2, <1>b, <1>h, <1>c DEF SendBytes_Enter, FlagTypeOK, flags
  <2> QED BY <2>1, <2>2
<1>7. CASE SendBytes_Test(w)
  <2>0. wpc[w] = "test" /\ life # "gone" /\ batch[w] # <<>>
    BY <1>7 DEF SendBytes_Test, WriteGoto, Continue, BatchInv
  <2>1. CASE Unsigned(sent[w]) < left[w] /\ IsActive
    <3>0. /\ wpc' = [wpc EXCEPT ![w] = "send"]
          /\ UNCHANGED <<flags, left, sent, batch, writeLock, wire, partial, queue, notSend>>
      BY <1>7, <2>1 DEF SendBytes_Test, WriteGoto
    <3>2. FlagTypeOK' /\ WriteTypeOK'
      BY <3>0 DEF FlagTypeOK, WriteTypeOK, WritePcs, flags, notSend
    <3>3. WriteLockInv' /\ BatchInv' /\ GoneInv'
      BY <2>0, <3>0 DEF WriteTypeOK, WriteLockInv, BatchInv, GoneInv, flags, notSend, readVars
    <3> QED
      BY <3>0, <3>2, <3>3, WriteLeavesReading DEF notSend
  <2>2. CASE ~(Unsigned(sent[w]) < left[w] /\ IsActive)
    BY <1>7, <2>0, <2>2, <1>b, <1>h, <1>c DEF SendBytes_Test, FlagTypeOK, flags
  <2> QED BY <2>1, <2>2
<1>8. CASE SendBytes_Send(w)
  <2>0. /\ wpc[w] = "send" /\ batch[w] # <<>> /\ left[w] <= Head(batch[w]).len
        /\ wpc' = [wpc EXCEPT ![w] = "test"]
        /\ UNCHANGED <<flags, batch, writeLock, queue, notSend>>
    BY <1>8 DEF SendBytes_Send, WriteGoto, BatchInv
  <2>1. Head(batch[w]) \in Messages /\ Head(batch[w]).len \in Nat /\ left[w] \in Nat
    BY <1>h, <1>m, <1>b, <2>0 DEF WriteTypeOK
  <2>2. /\ left' \in [WriteWorkers -> Nat]
        /\ left'[w] <= left[w] /\ \A u \in WriteWorkers \ {w} : left'[u] = left[u]
        /\ sent' \in [WriteWorkers -> Int]
        /\ wire' \in Seq([msg : Messages, byte : Nat])
        /\ partial' \in BOOLEAN
    <3>1. ASSUME NEW n \in 1..left[w], SendBytes_Accepted(w, n)
          PROVE  <2>2!1 /\ <2>2!2 /\ <2>2!3 /\ <2>2!4 /\ <2>2!5
      <4> DEFINE m == Head(batch[w])
                 sentBytes == [i \in 1..n |-> [msg |-> m, byte |-> (m.len - left[w]) + i]]
      <4>1. wire' = wire \o sentBytes
        BY <3>1 DEF SendBytes_Accepted
      <4>2. \A i \in 1..n : (m.len - left[w]) + i \in Nat
        BY <2>0, <2>1
      <4>3. sentBytes \in Seq([msg : Messages, byte : Nat])
        BY <2>1, <4>2
      <4>4. wire' \in Seq([msg : Messages, byte : Nat])
        <5>1. wire \in Seq([msg : Messages, byte : Nat])
          BY DEF WriteTypeOK
        <5> HIDE DEF sentBytes
        <5> QED BY <4>1, <4>3, <5>1, ConcatProperties
      <4>5. partial' \in BOOLEAN
        BY <3>1 DEF SendBytes_Accepted
      <4>6. /\ sent' = [sent EXCEPT ![w] = n]
            /\ left' = [left EXCEPT ![w] = IF n < left[w] THEN left[w] - n ELSE left[w]]
        BY <3>1 DEF SendBytes_Accepted
      <4> QED
        BY <2>1, <4>4, <4>5, <4>6 DEF WriteTypeOK
    <3>2. ASSUME sent' = [sent EXCEPT ![w] = -1], partial' = TRUE, UNCHANGED <<left, wire>>
          PROVE  <2>2!1 /\ <2>2!2 /\ <2>2!3 /\ <2>2!4 /\ <2>2!5
      BY <3>2, <2>1 DEF WriteTypeOK
    <3> QED BY <1>8, <3>1, <3>2 DEF SendBytes_Send
  <2>3. FlagTypeOK' /\ WriteTypeOK'
    BY <2>0, <2>2 DEF FlagTypeOK, WriteTypeOK, WritePcs, flags, notSend
  <2>4. WriteLockInv' /\ GoneInv'
    BY <2>0 DEF WriteTypeOK, WriteLockInv, GoneInv, flags, notSend, readVars
  <2>5. BatchInv'
    <3>1. left'[w] \in Nat /\ left'[w] <= Head(batch[w]).len
      BY <2>0, <2>1, <2>2
    <3>2. batch' = batch /\ \A u \in WriteWorkers \ {w} : left'[u] = left[u] /\ wpc'[u] = wpc[u]
      BY <2>0, <2>2 DEF WriteTypeOK
    <3> QED
      BY <2>0, <3>1, <3>2 DEF BatchInv
  <2> QED
    BY <2>0, <2>3, <2>4, <2>5, WriteLeavesReading DEF notSend
<1>9. CASE SendBytes_Fail(w)
  <2>1. <<>> \in Seq(Messages)
    BY EmptySeq
  <2> QED
    BY <1>9, <2>1, <1>c DEF SendBytes_Fail, FlagTypeOK
<1> QED
  BY <1>1, <1>2, <1>3, <1>4, <1>5, <1>6, <1>7, <1>8, <1>9 DEF HandleWriteQueue

-----------------------------------------------------------------------------
(* Everything else, and the invariant.                                     *)

\* queueWrite preserves the inductive invariant.
LEMMA QueueWriteIInv ==
    ASSUME IInv, NEW p \in Producers, QueueWrite_Check(p) \/ QueueWrite_Enqueue(p)
    PROVE  IInv'
<1> USE DEF IInv, TypeOK
<1>0. FlagTypeOK' /\ ReadTypeOK' /\ ReadLockInv' /\ GoneInv'
  <2>1. UNCHANGED <<flags, peerVars, readVars, sendVars>>
    BY DEF QueueWrite_Check, QueueWrite_Enqueue
  <2> QED
    BY <2>1, WriteLeavesReading DEF FlagTypeOK, GoneInv, flags, readVars, sendVars
<1>1. WriteLockInv' /\ BatchInv'
  BY DEF QueueWrite_Check, QueueWrite_Enqueue, WriteLockInv, BatchInv, sendVars
<1>2. WriteTypeOK'
  <2>1. CASE QueueWrite_Check(p)
    <3> PICK len \in Lengths \ {0} :
          pending' = [pending EXCEPT ![p] = <<Message(p, issued[p] + 1, len)>>]
      BY <2>1 DEF QueueWrite_Check
    <3>1. Message(p, issued[p] + 1, len) \in Messages
      BY DEF WriteTypeOK, Message, Messages
    <3>2. <<Message(p, issued[p] + 1, len)>> \in Seq(Messages)
      BY <3>1
    <3>3. UNCHANGED <<sendVars, queue>> /\ issued' = [issued EXCEPT ![p] = @ + 1]
      BY <2>1 DEF QueueWrite_Check
    <3> QED
      BY <3>2, <3>3 DEF WriteTypeOK, sendVars
  <2>2. CASE QueueWrite_Enqueue(p)
    <3>1. queue[p] \o pending[p] \in Seq(Messages)
      <4>1. queue[p] \in Seq(Messages) /\ pending[p] \in Seq(Messages)
        BY DEF WriteTypeOK
      <4> QED BY <4>1, ConcatProperties
    <3>2. <<>> \in Seq(Messages)
      BY EmptySeq
    <3> QED
      BY <2>2, <3>1, <3>2 DEF QueueWrite_Enqueue, WriteTypeOK, sendVars
  <2> QED BY <2>1, <2>2
<1> QED BY <1>0, <1>1, <1>2

\* Every step preserves the inductive invariant.
LEMMA NextIInv == IInv /\ [Next]_vars => IInv'
<1> SUFFICES ASSUME IInv, [Next]_vars PROVE IInv'
  OBVIOUS
<1> USE DEF IInv, TypeOK
<1>1. CASE PeerSend \/ PeerClose
  <2>1. UNCHANGED <<flags, readVars, sendVars, queueVars>>
    BY <1>1 DEF PeerSend, PeerClose
  <2>2. ReadTypeOK'
    <3>0. peerSent \in 0..PeerBytes /\ received \in 0..peerSent /\ received' = received
      BY <2>1 DEF ReadTypeOK, readVars
    <3>1. peerSent' \in 0..PeerBytes /\ received' \in 0..peerSent'
      BY <1>1, <3>0, BoundsAreNat DEF PeerSend, PeerClose
    <3>2. peerOpen' \in BOOLEAN
      BY <1>1 DEF PeerSend, PeerClose, ReadTypeOK
    <3> QED BY <2>1, <3>1, <3>2 DEF ReadTypeOK, readVars, heard
  <2>3. FlagTypeOK' /\ ReadLockInv' /\ GoneInv'
    BY <2>1 DEF FlagTypeOK, ReadLockInv, GoneInv, flags, readVars, sendVars
  <2> QED
    BY <2>1, <2>2, <2>3, ReadLeavesWriting
<1>2. ASSUME /\ UNCHANGED <<peerVars, readVars, sendVars, queueVars>>
             /\ FlagTypeOK'
             /\ life' = "gone" => life = "gone" \/ (readLock = Nobody /\ writeLock = Nobody)
      PROVE  IInv'
  BY <1>2, ReadLeavesWriting, WriteLeavesReading DEF GoneInv, readVars, sendVars
<1>3. CASE NotifyStop \/ Destroy_Begin \/ Destroy_Finish \/ UNCHANGED vars
  <2>1. UNCHANGED <<peerVars, readVars, sendVars, queueVars>>
    BY <1>3 DEF NotifyStop, Destroy_Begin, Destroy_Finish, vars, notSend, queueVars
  <2>2. FlagTypeOK'
    BY <1>3 DEF NotifyStop, Destroy_Begin, Destroy_Finish, vars, flags, FlagTypeOK
  <2>3. life' = "gone" => life = "gone" \/ (readLock = Nobody /\ writeLock = Nobody)
    BY <1>3 DEF NotifyStop, Destroy_Begin, Destroy_Finish, vars, flags
  <2> QED BY <1>2, <2>1, <2>2, <2>3
<1> QED
  BY <1>1, <1>3, ReadDataIInv, HandleWriteIInv, QueueWriteIInv DEF Next

\* The inductive invariant holds in every reachable state.
THEOREM Invariance == Spec => []IInv
BY InitIInv, NextIInv, PTL DEF Spec

\* Every variable keeps its type: in particular no more bytes are read than
\* the peer sent.
THEOREM TypeCorrect == Spec => []TypeOK
<1>1. IInv => TypeOK
  BY DEF IInv
<1> QED BY <1>1, Invariance, PTL

\* ~Channel returns only when every worker has left recv, the listener and
\* send.
THEOREM DestructorIsSafe == Spec => []DestructorWaits
<1>1. IInv => DestructorWaits
  <2> SUFFICES ASSUME IInv, life = "gone" PROVE DestructorWaits
    BY DEF DestructorWaits
  <2>1. readLock = Nobody /\ writeLock = Nobody
    BY DEF IInv, GoneInv
  <2>2. \A r \in ReadWorkers : rpc[r] \in {"out", "tryLock"}
    BY <2>1, NobodyOutside DEF IInv, TypeOK, ReadLockInv, ReadTypeOK, ReadPcs
  <2>3. \A w \in WriteWorkers : wpc[w] \in {"out", "size", "tryLock"}
    BY <2>1, NobodyOutside DEF IInv, TypeOK, WriteLockInv, WriteTypeOK, WritePcs
  <2> QED BY <2>2, <2>3 DEF DestructorWaits
<1> QED BY <1>1, Invariance, PTL

-----------------------------------------------------------------------------
(* The peer's stream.                                                      *)

Delivered == Len(consumed) + Len(incoming)

\* Bytes on their way from recv to incomingQueue follow the ones delivered.
InFlight(r) ==
    /\ Delivered + Len(got[r].bytes) = received
    /\ \A i \in 1..Len(got[r].bytes) : got[r].bytes[i] = Delivered + i

\* While the channel is active nothing is dropped: what recv returned is in
\* the hands of the one reader, in incomingQueue or consumed.
StreamInv ==
    /\ StreamInOrder
    /\ \A r \in ReadWorkers :
         /\ got[r].kind # "data" => Len(got[r].bytes) = 0
         /\ rpc[r] = "check" /\ got[r].kind = "end" => received = peerSent /\ ~peerOpen
         /\ rpc[r] = "check" /\ IsActive => InFlight(r)
    /\ IsActive /\ (\A r \in ReadWorkers : rpc[r] # "check") => Delivered = received

\* The initial state satisfies the invariant of the stream.
LEMMA InitStream == Init => StreamInv
<1> SUFFICES ASSUME Init PROVE StreamInv
  OBVIOUS
<1>1. StreamInOrder
  BY DEF Init, StreamInOrder
<1>2. Delivered = received
  BY DEF Init, Delivered
<1>3. \A r \in ReadWorkers : rpc[r] # "check" /\ Len(got[r].bytes) = 0
  BY DEF Init
<1> QED BY <1>1, <1>2, <1>3 DEF StreamInv

\* Bytes that follow the delivered ones are appended in order.
LEMMA EnqueueInOrder ==
    ASSUME incoming \in Seq(Nat), consumed \in Seq(Nat), StreamInOrder,
           NEW bytes \in Seq(Nat),
           \A i \in 1..Len(bytes) : bytes[i] = Delivered + i,
           incoming' = EnqueueMove(incoming, bytes), consumed' = consumed
    PROVE  StreamInOrder' /\ Delivered' = Delivered + Len(bytes)
<1>0. Len(incoming) \in Nat /\ Len(consumed) \in Nat /\ Len(bytes) \in Nat
  BY LenProperties
<1>1. incoming' = incoming \o bytes
  BY DEF EnqueueMove
<1>2. /\ Len(incoming') = Len(incoming) + Len(bytes)
      /\ DOMAIN incoming' = 1..Len(incoming')
      /\ \A i \in 1..Len(incoming') :
            incoming'[i] = IF i <= Len(incoming) THEN incoming[i] ELSE bytes[i - Len(incoming)]
  BY <1>1, ConcatProperties, LenProperties
<1>3. DOMAIN incoming = 1..Len(incoming)
  BY LenProperties
<1>4. ASSUME NEW i \in DOMAIN incoming' PROVE incoming'[i] = Len(consumed) + i
  <2>0. i \in 1..Len(incoming') /\ i \in Nat
    BY <1>2
  <2>1. CASE i <= Len(incoming)
    <3>1. i \in DOMAIN incoming /\ incoming'[i] = incoming[i]
      BY <1>0, <1>2, <1>3, <2>0, <2>1
    <3> QED BY <3>1 DEF StreamInOrder
  <2>2. CASE ~(i <= Len(incoming))
    <3>1. incoming'[i] = bytes[i - Len(incoming)] /\ i - Len(incoming) \in 1..Len(bytes)
      BY <1>0, <1>2, <2>0, <2>2
    <3>2. bytes[i - Len(incoming)] = Delivered + (i - Len(incoming))
      BY <3>1
    <3> QED BY <1>0, <2>0, <3>1, <3>2 DEF Delivered
  <2> QED BY <2>1, <2>2
<1> QED
  BY <1>0, <1>2, <1>4 DEF StreamInOrder, Delivered

\* The listeners take bytes from the front, in order, unless an index wraps.
LEMMA ListenInOrder ==
    ASSUME ReadTypeOK, StreamInOrder, ~wrapped',
           NEW r \in ReadWorkers, ReadData_Listen(r)
    PROVE  StreamInOrder' /\ Delivered' = Delivered
<1>0. /\ incoming \in Seq(Nat) /\ consumed \in Seq(Nat)
      /\ Len(incoming) \in Nat /\ Len(consumed) \in Nat
      /\ DOMAIN incoming = 1..Len(incoming) /\ DOMAIN consumed = 1..Len(consumed)
  BY LenProperties DEF ReadTypeOK
<1>1. PICK maxCount \in 0..Len(incoming) :
        /\ consumed' = consumed \o Dequeued(incoming, maxCount)
        /\ incoming' = DequeueRest(incoming, maxCount)
  <2>1. ASSUME NEW n \in 0..Len(incoming), ~Wraps(incoming, n)
        PROVE  /\ VecDequeued(incoming, n) = Dequeued(incoming, n)
               /\ VecRest(incoming, n) = DequeueRest(incoming, n)
    <3>1. n \in Nat /\ (n < IndexRange \/ Len(incoming) <= IndexRange)
      BY <1>0, <2>1, IndexRangePositive DEF Wraps
    <3> QED BY <1>0, <3>1, VecIsDequeue
  <2>2. PICK n \in 0..Len(incoming) :
          \/ /\ consumed' = consumed \o Dequeued(incoming, n)
             /\ incoming' = DequeueRest(incoming, n)
          \/ /\ consumed' = consumed \o VecDequeued(incoming, n)
             /\ incoming' = VecRest(incoming, n)
             /\ wrapped' = (wrapped \/ Wraps(incoming, n))
    BY DEF ReadData_Listen
  <2>3. \/ /\ consumed' = consumed \o Dequeued(incoming, n)
           /\ incoming' = DequeueRest(incoming, n)
        \/ /\ consumed' = consumed \o VecDequeued(incoming, n)
           /\ incoming' = VecRest(incoming, n)
           /\ ~Wraps(incoming, n)
    BY <2>2, Zenon
  <2> QED BY <2>1, <2>3
<1>2. PICK k \in 0..Len(incoming) :
        /\ consumed' = consumed \o SubSeq(incoming, 1, k)
        /\ incoming' = SubSeq(incoming, k + 1, Len(incoming))
  <2>1. CountToDequeue(incoming, maxCount) \in 0..Len(incoming)
    BY <1>0 DEF CountToDequeue
  <2> QED BY <1>1, <2>1 DEF Dequeued, DequeueRest
<1>3. /\ SubSeq(incoming, 1, k) \in Seq(Nat) /\ Len(SubSeq(incoming, 1, k)) = k
      /\ \A i \in 1..k : SubSeq(incoming, 1, k)[i] = incoming[i]
  BY <1>0
<1>4. /\ Len(incoming') = Len(incoming) - k
      /\ DOMAIN incoming' = 1..(Len(incoming) - k)
      /\ \A i \in 1..(Len(incoming) - k) : incoming'[i] = incoming[k + i]
  <2>1. \A i \in k + 1..Len(incoming) : incoming[i] \in Nat
    BY <1>0, ElementOfSeq
  <2>2. /\ incoming' \in Seq(Nat)
        /\ Len(incoming') = IF k + 1 <= Len(incoming) THEN Len(incoming) - (k + 1) + 1 ELSE 0
        /\ \A i \in 1..Len(incoming) - (k + 1) + 1 : incoming'[i] = incoming[(k + 1) + i - 1]
    <3> DEFINE m == k + 1
               n == Len(incoming)
    <3>1. m \in Int /\ n \in Int
      BY <1>0
    <3>2. incoming' = SubSeq(incoming, m, n) /\ \A i \in m..n : incoming[i] \in Nat
      BY <1>2, <2>1
    <3> HIDE DEF m, n
    <3>3. /\ incoming' \in Seq(Nat)
          /\ Len(incoming') = IF m <= n THEN n - m + 1 ELSE 0
          /\ \A i \in 1..n - m + 1 : incoming'[i] = incoming[m + i - 1]
      BY <3>1, <3>2, SubSeqProperties
    <3> QED BY <3>3 DEF m, n
  <2>3. Len(incoming') = Len(incoming) - k /\ Len(incoming) - (k + 1) + 1 = Len(incoming) - k
    <3>1. k \in Nat /\ k <= Len(incoming) /\ Len(incoming) \in Nat
      BY <1>0
    <3>2. /\ Len(incoming) - (k + 1) + 1 = Len(incoming) - k
          /\ k + 1 <= Len(incoming) \/ Len(incoming) - k = 0
      BY <3>1
    <3>3. CASE k + 1 <= Len(incoming)
      BY <2>2, <3>2, <3>3
    <3>4. CASE ~(k + 1 <= Len(incoming))
      BY <2>2, <3>2, <3>4
    <3> QED BY <3>3, <3>4
  <2>4. \A i \in 1..(Len(incoming) - k) : (k + 1) + i - 1 = k + i
    BY <1>0
  <2> QED BY <2>2, <2>3, <2>4, LenProperties
<1>5. /\ Len(consumed') = Len(consumed) + k
      /\ DOMAIN consumed' = 1..(Len(consumed) + k)
      /\ \A i \in 1..(Len(consumed) + k) :
            consumed'[i] = IF i <= Len(consumed) THEN consumed[i]
                           ELSE SubSeq(incoming, 1, k)[i - Len(consumed)]
  BY <1>0, <1>2, <1>3, ConcatProperties, LenProperties
<1>6. ASSUME NEW i \in DOMAIN consumed' PROVE consumed'[i] = i
  <2>0. i \in 1..(Len(consumed) + k) /\ i \in Nat
    BY <1>0, <1>5
  <2>1. CASE i <= Len(consumed)
    <3>1. i \in DOMAIN consumed /\ consumed'[i] = consumed[i]
      BY <1>0, <1>5, <2>0, <2>1
    <3> QED BY <3>1 DEF StreamInOrder
  <2>2. CASE ~(i <= Len(consumed))
    <3>1. i - Len(consumed) \in 1..k /\ i - Len(consumed) \in DOMAIN incoming
      BY <1>0, <2>0, <2>2
    <3>2. consumed'[i] = incoming[i - Len(consumed)]
      BY <1>3, <1>5, <2>0, <2>2, <3>1
    <3>3. incoming[i - Len(consumed)] = Len(consumed) + (i - Len(consumed))
      BY <3>1 DEF StreamInOrder
    <3> QED BY <1>0, <2>0, <3>2, <3>3
  <2> QED BY <2>1, <2>2
<1>7. ASSUME NEW i \in DOMAIN incoming' PROVE incoming'[i] = Len(consumed') + i
  <2>0. i \in 1..(Len(incoming) - k) /\ k + i \in DOMAIN incoming
    BY <1>0, <1>4
  <2>1. incoming'[i] = Len(consumed) + (k + i)
    BY <1>4, <2>0 DEF StreamInOrder
  <2> QED BY <1>0, <1>5, <2>0, <2>1
<1> QED
  BY <1>0, <1>4, <1>5, <1>6, <1>7 DEF StreamInOrder, Delivered

\* Every step that lets no index wrap preserves the invariant of the stream.
LEMMA StepStream == ASSUME IInv, StreamInv, [Next]_vars, ~wrapped' PROVE StreamInv'
<1> USE DEF IInv, TypeOK
<1>0. /\ incoming \in Seq(Nat) /\ consumed \in Seq(Nat)
      /\ Len(incoming) \in Nat /\ Len(consumed) \in Nat /\ Delivered \in Nat
      /\ received \in Nat
  BY LenProperties DEF ReadTypeOK, Delivered
<1>i. IsActive' => IsActive
  BY DEF Next, IsActive, FlagTypeOK, flags, vars,
         PeerSend, PeerClose, NotifyStop, ReadData, ReadData_Enter, ReadData_TryLock,
         ReadData_Recv, ReadData_Check, ReadData_Listen, QueueWrite_Check, QueueWrite_Enqueue,
         HandleWriteQueue, HandleWrite_Enter, HandleWrite_Size, HandleWrite_TryLock,
         HandleWrite_Take, HandleWrite_Dequeued, SendBytes_Enter, SendBytes_Test,
         SendBytes_Send, SendBytes_Fail, Destroy_Begin, Destroy_Finish
<1>1. ASSUME UNCHANGED <<received, incoming, consumed, got>>,
             \A r \in ReadWorkers : rpc'[r] = "check" <=> rpc[r] = "check",
             received = peerSent /\ ~peerOpen => received' = peerSent' /\ ~peerOpen'
      PROVE  StreamInv'
  <2>1. StreamInOrder' /\ Delivered' = Delivered /\ \A r \in ReadWorkers : InFlight(r)' = InFlight(r)
    BY <1>1 DEF StreamInv, StreamInOrder, Delivered, InFlight
  <2> QED
    BY <1>1, <1>i, <2>1 DEF StreamInv
<1>2. CASE PeerSend \/ PeerClose
  BY <1>2, <1>1, <1>0 DEF PeerSend, PeerClose, readVars, heard, ReadTypeOK
<1>3. ASSUME UNCHANGED <<peerVars, readVars>> PROVE StreamInv'
  BY <1>1, <1>3 DEF peerVars, readVars, heard
<1>4. ASSUME NEW r \in ReadWorkers, ReadData(r) PROVE StreamInv'
  <2>0. /\ r # Nobody /\ got[r].bytes \in Seq(Nat) /\ Len(got[r].bytes) \in Nat
        /\ rpc \in [ReadWorkers -> ReadPcs]
    BY NobodyOutside, LenProperties DEF ReadTypeOK
  <2>o. rpc[r] \in {"recv", "check", "listen"} =>
           \A q \in ReadWorkers \ {r} : rpc[q] \notin {"recv", "check", "listen"}
    BY DEF ReadLockInv
  <2>1. CASE ReadData_Enter(r) \/ ReadData_TryLock(r)
    BY <1>1, <2>0, <2>1 DEF ReadData_Enter, ReadData_TryLock, ReadGoto, notRead, peerVars, heard
  <2>2. CASE ReadData_Recv(r)
    <3> PICK result \in Recv : /\ got' = [got EXCEPT ![r] = result]
                               /\ received' = received + Len(result.bytes)
      BY <2>2 DEF ReadData_Recv
    <3>1. /\ \A i \in 1..Len(result.bytes) : result.bytes[i] = received + i
          /\ result.kind = "end" => received = peerSent /\ ~peerOpen
          /\ result.kind # "data" => Len(result.bytes) = 0
          /\ received' \in 0..peerSent
      BY RecvResults
    <3>2. /\ rpc[r] = "recv" /\ rpc' = [rpc EXCEPT ![r] = "check"]
          /\ UNCHANGED <<flags, readLock, incoming, consumed, peerVars>>
      BY <2>2 DEF ReadData_Recv, ReadGoto, notRead, heard
    <3>3. StreamInOrder' /\ Delivered' = Delivered
      BY <3>2 DEF StreamInv, StreamInOrder, Delivered
    <3>4. got'[r] = result /\ rpc'[r] = "check"
      BY <2>0, <3>2 DEF ReadTypeOK
    <3>5. \A q \in ReadWorkers \ {r} : got'[q] = got[q] /\ rpc'[q] = rpc[q] /\ rpc[q] # "check"
      BY <2>0, <2>o, <3>2 DEF ReadTypeOK
    <3>6. IsActive => Delivered = received
      BY <3>2, <3>5 DEF StreamInv
    <3>7. IsActive' => InFlight(r)'
      BY <1>i, <3>1, <3>3, <3>4, <3>6 DEF InFlight
    <3>8. result.kind = "end" => received' = peerSent' /\ ~peerOpen'
      BY <1>0, <3>1, <3>2 DEF peerVars
    <3> QED
      BY <3>1, <3>3, <3>4, <3>5, <3>7, <3>8 DEF StreamInv
  <2>3. CASE ReadData_Check(r)
    <3>0. /\ rpc[r] = "check"
          /\ UNCHANGED <<got, received, consumed, peerVars>>
          /\ \A q \in ReadWorkers : rpc'[q] # "check"
      BY <2>0, <2>o, <2>3 DEF ReadData_Check, ReadGoto, notRead, heard
    <3>1. CASE IsActive /\ got[r].kind = "data"
      <4>1. InFlight(r) /\ incoming' = EnqueueMove(incoming, got[r].bytes)
        BY <2>3, <3>0, <3>1 DEF ReadData_Check, StreamInv
      <4>2. StreamInOrder' /\ Delivered' = Delivered + Len(got[r].bytes)
        BY <1>0, <2>0, <3>0, <4>1, EnqueueInOrder DEF InFlight, StreamInv
      <4>3. Delivered' = received'
        BY <3>0, <4>1, <4>2 DEF InFlight
      <4> QED
        BY <3>0, <4>2, <4>3 DEF StreamInv
    <3>2. CASE ~(IsActive /\ got[r].kind = "data")
      <4>1. incoming' = incoming
        BY <2>3, <3>2 DEF ReadData_Check
      <4>2. StreamInOrder' /\ Delivered' = Delivered
        BY <3>0, <4>1 DEF StreamInv, StreamInOrder, Delivered
      <4>3. IsActive => Delivered = received
        BY <1>0, <3>0, <3>2 DEF StreamInv, InFlight
      <4> QED
        BY <1>i, <3>0, <4>2, <4>3 DEF StreamInv
    <3> QED BY <3>1, <3>2
  <2>4. CASE ReadData_Listen(r)
    <3>0. /\ rpc[r] = "listen" /\ \A q \in ReadWorkers : rpc[q] # "check" /\ rpc'[q] # "check"
          /\ UNCHANGED <<flags, got, received>>
      BY <2>0, <2>o, <2>4 DEF ReadData_Listen, ReadGoto
    <3>1. StreamInOrder' /\ Delivered' = Delivered
      BY <2>4, ListenInOrder DEF StreamInv
    <3> QED
      BY <1>i, <3>0, <3>1 DEF StreamInv
  <2> QED BY <1>4, <2>1, <2>2, <2>3, <2>4 DEF ReadData
<1> QED
  BY <1>2, <1>3, <1>4
  DEF Next, vars, NotifyStop, HandleWriteQueue, HandleWrite_Enter, HandleWrite_Size,
      HandleWrite_TryLock, HandleWrite_Take, HandleWrite_Dequeued, SendBytes_Enter,
      SendBytes_Test, SendBytes_Send, SendBytes_Fail, QueueWrite_Check, QueueWrite_Enqueue,
      Destroy_Begin, Destroy_Finish, notSend

\* An index that wrapped has wrapped for good.
LEMMA StaysWrapped == ASSUME [Next]_vars, ~wrapped' PROVE ~wrapped
<1>1. CASE \E r \in ReadWorkers : ReadData_Listen(r)
  BY <1>1, Zenon DEF ReadData_Listen
<1>2. CASE ~\E r \in ReadWorkers : ReadData_Listen(r)
  <2>1. wrapped' = wrapped
    BY <1>2 DEF Next, vars, PeerSend, PeerClose, NotifyStop, ReadData, ReadData_Enter,
       ReadData_TryLock, ReadData_Recv, ReadData_Check, QueueWrite_Check, QueueWrite_Enqueue,
       HandleWriteQueue, HandleWrite_Enter, HandleWrite_Size, HandleWrite_TryLock,
       HandleWrite_Take, HandleWrite_Dequeued, SendBytes_Enter, SendBytes_Test,
       SendBytes_Send, SendBytes_Fail, Destroy_Begin, Destroy_Finish, readVars, heard, notSend
  <2> QED BY <2>1
<1> QED BY <1>1, <1>2

\* Every step preserves the invariant of the stream until an index wraps.
LEMMA NextStream == IInv /\ (~wrapped => StreamInv) /\ [Next]_vars => (~wrapped => StreamInv)'
  BY StepStream, StaysWrapped

\* The listener sees the peer's bytes in order, none twice and none skipped, for
\* any number of read workers and however long the queue grows, as long as no
\* listener had the index of dequeueAsVec wrap.
THEOREM StreamIsInOrder == Spec => []InOrderUnlessWrapped
<1>1. (~wrapped => StreamInv) => InOrderUnlessWrapped
  BY DEF StreamInv, InOrderUnlessWrapped
<1>2. Init => (~wrapped => StreamInv)
  BY InitStream
<1> QED BY <1>1, <1>2, NextStream, Invariance, PTL DEF Spec

\* The end of the stream closes the channel only after the last byte was
\* queued for the listener, unless a wrapped index lost some.
THEOREM EndIsClean == Spec => EndLosesNothing
<1> DEFINE Clean == \A r \in ReadWorkers :
              active /\ ~active' /\ rpc[r] = "check" /\ rpc'[r] = "out" /\ got[r].kind = "end" /\ ~wrapped
                => Len(consumed) + Len(incoming) = peerSent
<1>1. IInv /\ (~wrapped => StreamInv) /\ [Next]_vars => [Clean]_vars
  <2> SUFFICES ASSUME IInv, StreamInv, Next, NEW r \in ReadWorkers,
                      active, ~active', rpc[r] = "check", rpc'[r] = "out", got[r].kind = "end"
               PROVE  Len(consumed) + Len(incoming) = peerSent
    BY DEF Clean
  <2>0. Delivered \in Nat /\ Len(got[r].bytes) = 0 /\ received = peerSent
    BY LenProperties DEF IInv, TypeOK, ReadTypeOK, StreamInv, Delivered
  <2>1. socketActive
    <3>1. UNCHANGED rpc => FALSE
      OBVIOUS
    <3>2. PICK q \in ReadWorkers : ReadData_Check(q)
      BY <3>1 DEF Next, PeerSend, PeerClose, NotifyStop, ReadData, ReadData_Enter,
         ReadData_TryLock, ReadData_Recv, ReadData_Listen, QueueWrite_Check,
         QueueWrite_Enqueue, HandleWriteQueue, HandleWrite_Enter, HandleWrite_Size,
         HandleWrite_TryLock, HandleWrite_Take, HandleWrite_Dequeued, SendBytes_Enter,
         SendBytes_Test, SendBytes_Send, SendBytes_Fail, Destroy_Begin, Destroy_Finish,
         flags, readVars, notSend
    <3> QED BY <3>2 DEF ReadData_Check, IsActive
  <2>2. InFlight(r)
    BY <2>1 DEF StreamInv, IsActive
  <2> QED
    BY <2>0, <2>2 DEF InFlight, Delivered
<1>2. Init => (~wrapped => StreamInv)
  BY InitStream
<1> QED
  BY <1>1, <1>2, NextStream, Invariance, PTL DEF Spec, EndLosesNothing

-----------------------------------------------------------------------------
(* The write side, for any number of write workers and producers and any   *)
(* messages whose lengths are values of size_t: the messages of a producer *)
(* reach the wire whole, in order, and none is lost.                       *)

\* Message a goes before message b of the same producer.
Before(a, b) == a.from = b.from => a.no < b.no
Increasing(s) == \A i, j \in 1..Len(s) : i < j => Before(s[i], s[j])
AllBefore(s, t) == \A i \in 1..Len(s), j \in 1..Len(t) : Before(s[i], t[j])

Sending(w) == wpc[w] \in {"test", "send"}

\* What a producer handed over and no worker has taken.
ProducerInv(p) ==
    /\ Increasing(queue[p])
    /\ \A i \in 1..Len(queue[p]) : queue[p][i].from = p /\ queue[p][i].no <= issued[p]
    /\ pending[p] # <<>> =>
         /\ Len(pending[p]) = 1 /\ pending[p][1].from = p /\ pending[p][1].no = issued[p]
         /\ AllBefore(queue[p], pending[p])

\* What a worker took goes before what is left.
HeldInv(w) ==
    /\ batch[w] # <<>> => writeLock = w
    /\ Increasing(batch[w])
    /\ \A i \in 1..Len(batch[w]) : batch[w][i].no <= issued[batch[w][i].from]
    /\ \A p \in Producers : AllBefore(batch[w], queue[p]) /\ AllBefore(batch[w], pending[p])

\* What is on the wire goes before all that, except for the message that is
\* being sent.
WireInv ==
    \A k \in 1..Len(wire) :
        /\ wire[k].msg.no <= issued[wire[k].msg.from]
        /\ \A p \in Producers : \A j \in 1..Len(queue[p]) : Before(wire[k].msg, queue[p][j])
        /\ \A p \in Producers : \A j \in 1..Len(pending[p]) : Before(wire[k].msg, pending[p][j])
        /\ \A w \in WriteWorkers : \A j \in 1..Len(batch[w]) :
             \/ Before(wire[k].msg, batch[w][j])
             \/ j = 1 /\ Sending(w) /\ wire[k].msg = batch[w][1]

\* The wire ends with byte "done" of the message w sends.
Done(w) == batch[w][1].len - left[w]
AtDone(w) ==
    /\ \A k \in 1..Len(wire) : wire[k].msg = batch[w][1] => wire[k].byte <= Done(w)
    /\ Done(w) > 0 => Len(wire) > 0 /\ wire[Len(wire)] = [msg |-> batch[w][1], byte |-> Done(w)]

SendInv(w) ==
    /\ Sending(w) => left[w] > 0
    /\ wpc[w] = "send" => AtDone(w)
    /\ wpc[w] = "test" => AtDone(w) \/ sent[w] = left[w]

OrderInv ==
    /\ \A p \in Producers : ProducerInv(p)
    /\ \A w \in WriteWorkers : HeldInv(w) /\ SendInv(w)
    /\ WireInv
    /\ MessagesContiguous /\ ProducerOrder

\* While every send takes all it is given.
WholeInv(w) ==
    Sending(w) =>
        /\ left[w] = batch[w][1].len
        /\ wpc[w] = "test" => sent[w] = 0 \/ (sent[w] = left[w] /\ Complete(batch[w][1]))

KeptInv == IsActive /\ ~partial => AllAccountedFor /\ \A w \in WriteWorkers : WholeInv(w)

\* Elements of a sequence of messages.
LEMMA MessageSeq ==
    ASSUME NEW s \in Seq(Messages)
    PROVE  /\ Len(s) \in Nat /\ DOMAIN s = 1..Len(s)
           /\ \A i \in 1..Len(s) : s[i] \in Messages
           /\ s = <<>> <=> Len(s) = 0
BY LenProperties, ElementOfSeq, EmptySeq

\* A message has a producer, a number and a length.
LEMMA MessageFields ==
    ASSUME NEW m \in Messages
    PROVE  m.from \in Producers /\ m.no \in Nat /\ m.len \in Nat /\ m.len > 0 /\ m.len \in Lengths
BY BoundsAreNat DEF Messages

\* What is on the wire.
LEMMA WireMessages ==
    ASSUME WriteTypeOK
    PROVE  /\ Len(wire) \in Nat /\ DOMAIN wire = 1..Len(wire)
           /\ \A k \in 1..Len(wire) : /\ wire[k] \in [msg : Messages, byte : Nat]
                                     /\ wire[k].msg \in Messages /\ wire[k].byte \in Nat
                                     /\ wire[k] = [msg |-> wire[k].msg, byte |-> wire[k].byte]
<1>1. wire \in Seq([msg : Messages, byte : Nat])
  BY DEF WriteTypeOK
<1>2. Len(wire) \in Nat /\ DOMAIN wire = 1..Len(wire)
  BY <1>1, LenProperties
<1>3. \A k \in 1..Len(wire) : wire[k] \in [msg : Messages, byte : Nat]
  BY <1>1, ElementOfSeq
<1> QED
  BY <1>2, <1>3

\* The first message and the others.
LEMMA FirstAndRest ==
    ASSUME NEW s \in Seq(Messages), s # <<>>
    PROVE  /\ Len(s) \in Nat /\ Len(s) > 0 /\ Head(s) = s[1] /\ s[1] \in Messages
           /\ Tail(s) \in Seq(Messages) /\ Len(Tail(s)) = Len(s) - 1
           /\ \A i \in 1..Len(s) - 1 : i + 1 \in 1..Len(s) /\ Tail(s)[i] = s[i + 1]
<1>1. Len(s) \in Nat /\ Len(s) > 0
  BY MessageSeq, EmptySeq
<1>2. Head(s) \in Messages /\ Head(s) = s[1]
  BY HeadTailProperties
<1>3. /\ Tail(s) \in Seq(Messages) /\ Len(Tail(s)) = Len(s) - 1
      /\ \A i \in 1..Len(Tail(s)) : Tail(s)[i] = s[i + 1]
  BY HeadTailProperties
<1> QED
  BY <1>1, <1>2, <1>3

\* A message joins a sequence.
LEMMA JoinsSeq ==
    ASSUME NEW s \in Seq(Messages), NEW m \in Messages
    PROVE  /\ Append(s, m) \in Seq(Messages) /\ Len(Append(s, m)) = Len(s) + 1
           /\ Append(s, m)[Len(s) + 1] = m
           /\ \A i \in 1..Len(s) : Append(s, m)[i] = s[i]
BY AppendProperties

\* A sequence of one message joins another.
LEMMA JoinsAsOne ==
    ASSUME NEW s \in Seq(Messages), NEW m \in Messages
    PROVE  s \o <<m>> = Append(s, m)
OBVIOUS

\* The rest of a sequence keeps its order and its place.
LEMMA RestKeeps ==
    ASSUME NEW s \in Seq(Messages), s # <<>>
    PROVE  /\ Increasing(s) => Increasing(Tail(s)) /\ \A j \in 1..Len(Tail(s)) : Before(s[1], Tail(s)[j])
           /\ \A t : AllBefore(s, t) => AllBefore(Tail(s), t) /\ \A j \in 1..Len(t) : Before(s[1], t[j])
           /\ \A t : AllBefore(t, s) => AllBefore(t, Tail(s)) /\ \A i \in 1..Len(t) : Before(t[i], s[1])
<1>1. /\ Len(s) \in Nat /\ Len(s) > 0 /\ Len(Tail(s)) = Len(s) - 1
      /\ \A i \in 1..Len(s) - 1 : i + 1 \in 1..Len(s) /\ Tail(s)[i] = s[i + 1]
  BY FirstAndRest
<1>2. 1 \in 1..Len(s) /\ \A i, j \in 1..Len(s) - 1 : (i < j => i + 1 < j + 1) /\ 1 < i + 1
  BY <1>1
<1>3. ASSUME Increasing(s)
      PROVE  Increasing(Tail(s)) /\ \A j \in 1..Len(Tail(s)) : Before(s[1], Tail(s)[j])
  BY <1>1, <1>2, <1>3 DEF Increasing
<1>4. ASSUME NEW t, AllBefore(s, t)
      PROVE  AllBefore(Tail(s), t) /\ \A j \in 1..Len(t) : Before(s[1], t[j])
  BY <1>1, <1>2, <1>4 DEF AllBefore
<1>5. ASSUME NEW t, AllBefore(t, s)
      PROVE  AllBefore(t, Tail(s)) /\ \A i \in 1..Len(t) : Before(t[i], s[1])
  BY <1>1, <1>2, <1>5 DEF AllBefore
<1> QED
  BY <1>3, <1>4, <1>5

\* So does a sequence that a later message joins.
LEMMA JoinKeeps ==
    ASSUME NEW s \in Seq(Messages), NEW m \in Messages
    PROVE  /\ Increasing(s) /\ (\A i \in 1..Len(s) : Before(s[i], m)) => Increasing(Append(s, m))
           /\ \A t : AllBefore(s, t) /\ (\A j \in 1..Len(t) : Before(m, t[j])) => AllBefore(Append(s, m), t)
           /\ \A t : AllBefore(t, s) /\ (\A i \in 1..Len(t) : Before(t[i], m)) => AllBefore(t, Append(s, m))
<1> DEFINE u == Append(s, m)
<1>1. /\ Len(s) \in Nat /\ Len(u) = Len(s) + 1 /\ u[Len(s) + 1] = m
      /\ \A i \in 1..Len(s) : u[i] = s[i]
  BY JoinsSeq, MessageSeq
<1> HIDE DEF u
<1>2. \A i \in 1..Len(u) : i \in 1..Len(s) \/ i = Len(s) + 1
  BY <1>1
<1>3. ASSUME Increasing(s), \A i \in 1..Len(s) : Before(s[i], m) PROVE Increasing(u)
  BY <1>1, <1>2, <1>3 DEF Increasing
<1>4. ASSUME NEW t, AllBefore(s, t), \A j \in 1..Len(t) : Before(m, t[j]) PROVE AllBefore(u, t)
  BY <1>1, <1>2, <1>4 DEF AllBefore
<1>5. ASSUME NEW t, AllBefore(t, s), \A i \in 1..Len(t) : Before(t[i], m) PROVE AllBefore(t, u)
  BY <1>1, <1>2, <1>5 DEF AllBefore
<1> QED
  BY <1>3, <1>4, <1>5 DEF u

-----------------------------------------------------------------------------
(* Each step keeps the order.                                              *)

\* Nothing is queued at first.
LEMMA InitOrder == Init => OrderInv /\ KeptInv
<1> SUFFICES ASSUME Init PROVE OrderInv /\ KeptInv
  OBVIOUS
<1>1. /\ wpc = [w \in WriteWorkers |-> "out"]
      /\ batch = [w \in WriteWorkers |-> <<>>]
      /\ issued = [p \in Producers |-> 0]
      /\ pending = [p \in Producers |-> <<>>]
      /\ queue = [p \in Producers |-> <<>>]
      /\ wire = <<>>
  BY DEF Init
<1>2. Len(<<>>) = 0 /\ 1..0 = {} /\ DOMAIN <<>> = {}
  BY EmptySeq
<1>3. \A p \in Producers : ProducerInv(p)
  BY <1>1, <1>2 DEF ProducerInv, Increasing
<1>4. \A w \in WriteWorkers : HeldInv(w) /\ SendInv(w) /\ WholeInv(w)
  BY <1>1, <1>2 DEF HeldInv, SendInv, WholeInv, Sending, Increasing, AllBefore
<1>5. WireInv /\ MessagesContiguous /\ ProducerOrder
  BY <1>1, <1>2 DEF WireInv, MessagesContiguous, ProducerOrder
<1>6. AllAccountedFor
  BY <1>1 DEF AllAccountedFor
<1> QED
  BY <1>3, <1>4, <1>5, <1>6 DEF OrderInv, KeptInv

\* Steps that leave messages and wire alone.
LEMMA SameOrder ==
    ASSUME OrderInv, UNCHANGED <<sendVars, queueVars>>
    PROVE  OrderInv'
BY DEF OrderInv, ProducerInv, HeldInv, SendInv, AtDone, Done, Sending, WireInv, MessagesContiguous,
   ProducerOrder, sendVars, queueVars

\* A worker moves without sending; it may take the free lock.
LEMMA MoveOrder ==
    ASSUME IInv, OrderInv, NEW w \in WriteWorkers,
           HandleWrite_Enter(w) \/ HandleWrite_Size(w) \/ HandleWrite_TryLock(w)
    PROVE  OrderInv'
<1>1. /\ UNCHANGED <<batch, left, sent, wire, queueVars>>
      /\ writeLock' = writeLock \/ writeLock = Nobody
  BY DEF HandleWrite_Enter, HandleWrite_Size, HandleWrite_TryLock, notSend, queueVars
<1>2. \A u \in WriteWorkers : Sending(u)' = Sending(u) /\ (Sending(u) => wpc'[u] = wpc[u])
  BY DEF HandleWrite_Enter, HandleWrite_Size, HandleWrite_TryLock, WriteGoto, Sending, IInv, TypeOK,
     WriteTypeOK
<1>3. \A u \in WriteWorkers : batch[u] # <<>> => writeLock' = u
  BY <1>1, NobodyOutside DEF OrderInv, HeldInv
<1>4. \A u \in WriteWorkers : HeldInv(u)'
  BY <1>1, <1>3 DEF OrderInv, HeldInv, queueVars
<1>5. \A u \in WriteWorkers : SendInv(u)'
  BY <1>1, <1>2 DEF OrderInv, SendInv, AtDone, Done, Sending
<1>6. \A p \in Producers : ProducerInv(p)'
  BY <1>1 DEF OrderInv, ProducerInv, queueVars
<1>7. WireInv'
  BY <1>1, <1>2 DEF OrderInv, WireInv, queueVars
<1>8. MessagesContiguous' /\ ProducerOrder'
  BY <1>1 DEF OrderInv, MessagesContiguous, ProducerOrder
<1> QED
  BY <1>4, <1>5, <1>6, <1>7, <1>8 DEF OrderInv

\* A producer numbers its messages upwards.
LEMMA CheckOrder ==
    ASSUME IInv, OrderInv, NEW p \in Producers, QueueWrite_Check(p)
    PROVE  OrderInv'
<1>0. WriteTypeOK
  BY DEF IInv, TypeOK
<1>1. PICK len \in Lengths \ {0} : pending' = [pending EXCEPT ![p] = <<Message(p, issued[p] + 1, len)>>]
  BY DEF QueueWrite_Check
<1>2. issued[p] \in Nat /\ issued' = [issued EXCEPT ![p] = issued[p] + 1] /\ pending[p] = <<>>
      /\ UNCHANGED <<sendVars, queue>>
  BY <1>0 DEF QueueWrite_Check, WriteTypeOK
<1> DEFINE m == Message(p, issued[p] + 1, len)
<1>3. m \in Messages /\ m.from = p /\ m.no = issued[p] + 1
  BY <1>2 DEF Message, Messages
<1>4. pending'[p] = <<m>> /\ \A q \in Producers : q # p => pending'[q] = pending[q]
  BY <1>0, <1>1 DEF WriteTypeOK
<1>5. issued'[p] = issued[p] + 1 /\ \A q \in Producers : q # p => issued'[q] = issued[q]
  BY <1>0, <1>2 DEF WriteTypeOK
<1> HIDE DEF m
<1>6. Len(<<m>>) = 1 /\ <<m>>[1] = m
  OBVIOUS
<1>7. \A x \in Messages : x.no <= issued[x.from] => x.no <= issued'[x.from] /\ Before(x, m)
  <2> SUFFICES ASSUME NEW x \in Messages, x.no <= issued[x.from]
               PROVE  x.no <= issued'[x.from] /\ Before(x, m)
    OBVIOUS
  <2>1. x.from \in Producers /\ x.no \in Nat /\ issued[x.from] \in Nat
    BY <1>0, MessageFields DEF WriteTypeOK
  <2> QED
    BY <1>2, <1>3, <1>5, <2>1 DEF Before
<1>8. ASSUME NEW q \in Producers PROVE ProducerInv(q)'
  <2>1. CASE q = p
    <3>0. queue[p] \in Seq(Messages)
      BY <1>0 DEF WriteTypeOK
    <3>1. \A i \in 1..Len(queue[p]) : queue[p][i] \in Messages /\ queue[p][i].from = p
             /\ queue[p][i].no <= issued'[p] /\ Before(queue[p][i], m)
      <4> SUFFICES ASSUME NEW i \in 1..Len(queue[p])
                   PROVE  /\ queue[p][i] \in Messages /\ queue[p][i].from = p
                          /\ queue[p][i].no <= issued'[p] /\ Before(queue[p][i], m)
        OBVIOUS
      <4>1. queue[p][i] \in Messages
        BY <3>0, MessageSeq
      <4>2. queue[p][i].from = p /\ queue[p][i].no <= issued[p]
        BY DEF OrderInv, ProducerInv
      <4> QED
        BY <1>7, <4>1, <4>2
    <3>2. queue' = queue /\ Increasing(queue[p])
      BY <1>2 DEF OrderInv, ProducerInv
    <3>3. AllBefore(queue[p], pending'[p])
      BY <1>4, <1>6, <3>1 DEF AllBefore
    <3>4. Len(pending'[p]) = 1 /\ pending'[p][1].from = p /\ pending'[p][1].no = issued'[p]
      BY <1>3, <1>4, <1>5, <1>6
    <3> QED
      BY <2>1, <3>1, <3>2, <3>3, <3>4 DEF ProducerInv
  <2>2. CASE q # p
    BY <1>2, <1>4, <1>5, <2>2 DEF OrderInv, ProducerInv
  <2> QED
    BY <2>1, <2>2
<1>9. ASSUME NEW w \in WriteWorkers PROVE HeldInv(w)'
  <2>0. batch[w] \in Seq(Messages)
    BY <1>0 DEF WriteTypeOK
  <2>1. \A i \in 1..Len(batch[w]) : batch[w][i].no <= issued'[batch[w][i].from] /\ Before(batch[w][i], m)
    BY <1>7, <2>0, MessageSeq DEF OrderInv, HeldInv
  <2>2. \A q \in Producers : AllBefore(batch[w], pending'[q])
    BY <1>4, <1>6, <2>1 DEF OrderInv, HeldInv, AllBefore
  <2> QED
    BY <1>2, <2>1, <2>2 DEF OrderInv, HeldInv, sendVars
<1>10. ASSUME NEW w \in WriteWorkers PROVE SendInv(w)'
  BY <1>2 DEF OrderInv, SendInv, AtDone, Done, Sending, sendVars
<1>11. WireInv'
  <2> SUFFICES ASSUME NEW k \in 1..Len(wire)
               PROVE  /\ wire[k].msg.no <= issued'[wire[k].msg.from]
                      /\ \A q \in Producers : \A j \in 1..Len(pending'[q]) : Before(wire[k].msg, pending'[q][j])
    BY <1>2 DEF OrderInv, WireInv, sendVars, Sending
  <2>1. wire[k].msg \in Messages
    BY <1>0, WireMessages
  <2>2. wire[k].msg.no <= issued'[wire[k].msg.from] /\ Before(wire[k].msg, m)
    BY <1>7, <2>1 DEF OrderInv, WireInv
  <2> QED
    BY <1>4, <1>6, <2>2 DEF OrderInv, WireInv
<1>12. MessagesContiguous' /\ ProducerOrder'
  BY <1>2 DEF OrderInv, MessagesContiguous, ProducerOrder, sendVars
<1> QED
  BY <1>8, <1>9, <1>10, <1>11, <1>12 DEF OrderInv

\* writeQueue takes the message behind those of the same producer.
LEMMA EnqueueOrder ==
    ASSUME IInv, OrderInv, NEW p \in Producers, QueueWrite_Enqueue(p)
    PROVE  OrderInv'
<1>0. WriteTypeOK
  BY DEF IInv, TypeOK
<1>1. /\ pending[p] # <<>> /\ UNCHANGED <<sendVars, issued>>
      /\ queue' = [queue EXCEPT ![p] = queue[p] \o pending[p]]
      /\ pending' = [pending EXCEPT ![p] = <<>>]
  BY DEF QueueWrite_Enqueue
<1>2. queue[p] \in Seq(Messages) /\ pending[p] \in Seq(Messages)
  BY <1>0 DEF WriteTypeOK
<1> DEFINE m == pending[p][1]
           s == queue[p]
<1>3. /\ Len(pending[p]) = 1 /\ m.from = p /\ m.no = issued[p]
      /\ \A i \in 1..Len(s) : Before(s[i], m)
  <2>1. 1 \in 1..1
    OBVIOUS
  <2> QED
    BY <1>1, <2>1 DEF OrderInv, ProducerInv, AllBefore
<1>4. m \in Messages
  BY <1>2, <1>3, MessageSeq
<1>5. s \o pending[p] = Append(s, m)
  <2>1. pending[p] = <<m>>
    BY <1>2, <1>3
  <2> HIDE DEF m
  <2> QED
    BY <1>2, <1>4, <2>1, JoinsAsOne
<1>6. queue'[p] = Append(s, m) /\ \A q \in Producers : q # p => queue'[q] = queue[q]
  BY <1>0, <1>1, <1>5 DEF WriteTypeOK
<1>7. pending'[p] = <<>> /\ \A q \in Producers : q # p => pending'[q] = pending[q]
  BY <1>0, <1>1 DEF WriteTypeOK
<1> HIDE DEF m, s
<1>s. s \in Seq(Messages) /\ s = queue[p] /\ m = pending[p][1]
  BY <1>2 DEF m, s
<1>8. /\ Len(s) \in Nat /\ Len(Append(s, m)) = Len(s) + 1 /\ Append(s, m)[Len(s) + 1] = m
      /\ \A i \in 1..Len(s) : Append(s, m)[i] = s[i]
  BY <1>4, <1>s, JoinsSeq, MessageSeq
<1>e. Len(<<>>) = 0 /\ 1..0 = {}
  BY EmptySeq
<1>9. ASSUME NEW q \in Producers PROVE ProducerInv(q)'
  <2>1. CASE q = p
    <3>1. Increasing(Append(s, m))
      BY <1>3, <1>4, <1>s, JoinKeeps DEF OrderInv, ProducerInv
    <3>2. \A i \in 1..Len(s) + 1 : Append(s, m)[i].from = p /\ Append(s, m)[i].no <= issued[p]
      <4>1. m.no <= issued[p]
        BY <1>0, <1>3 DEF WriteTypeOK
      <4>2. \A i \in 1..Len(s) + 1 : i \in 1..Len(s) \/ i = Len(s) + 1
        BY <1>8
      <4> QED
        BY <1>3, <1>8, <1>s, <4>1, <4>2 DEF OrderInv, ProducerInv
    <3>3. Len(queue'[p]) = Len(s) + 1 /\ queue'[p] = Append(s, m) /\ issued' = issued
      BY <1>1, <1>6, <1>8
    <3> QED
      BY <1>7, <2>1, <3>1, <3>2, <3>3 DEF ProducerInv
  <2>2. CASE q # p
    BY <1>1, <1>6, <1>7, <2>2 DEF OrderInv, ProducerInv
  <2> QED
    BY <2>1, <2>2
<1>10. ASSUME NEW w \in WriteWorkers PROVE HeldInv(w)'
  <2>1. AllBefore(batch[w], s) /\ \A i \in 1..Len(batch[w]) : Before(batch[w][i], m)
    <3>1. 1 \in 1..Len(pending[p])
      BY <1>3
    <3> QED
      BY <1>s, <3>1 DEF OrderInv, HeldInv, AllBefore
  <2>2. AllBefore(batch[w], Append(s, m))
    BY <1>4, <1>s, <2>1, JoinKeeps
  <2>3. \A q \in Producers : AllBefore(batch[w], queue'[q])
    BY <1>6, <2>2 DEF OrderInv, HeldInv
  <2>4. \A q \in Producers : AllBefore(batch[w], pending'[q])
    BY <1>7, <1>e DEF OrderInv, HeldInv, AllBefore
  <2> QED
    BY <1>1, <2>3, <2>4 DEF OrderInv, HeldInv, sendVars
<1>11. ASSUME NEW w \in WriteWorkers PROVE SendInv(w)'
  BY <1>1 DEF OrderInv, SendInv, AtDone, Done, Sending, sendVars
<1>12. WireInv'
  <2>0. wire' = wire /\ wpc' = wpc /\ batch' = batch /\ issued' = issued
    BY <1>1 DEF sendVars
  <2> SUFFICES ASSUME NEW k \in 1..Len(wire)
               PROVE  \A q \in Producers :
                        /\ \A j \in 1..Len(queue'[q]) : Before(wire[k].msg, queue'[q][j])
                        /\ \A j \in 1..Len(pending'[q]) : Before(wire[k].msg, pending'[q][j])
    BY <2>0 DEF OrderInv, WireInv, Sending
  <2> SUFFICES ASSUME NEW q \in Producers
               PROVE  /\ \A j \in 1..Len(queue'[q]) : Before(wire[k].msg, queue'[q][j])
                      /\ \A j \in 1..Len(pending'[q]) : Before(wire[k].msg, pending'[q][j])
    OBVIOUS
  <2>1. CASE q = p
    <3>1. Before(wire[k].msg, m)
      <4>1. 1 \in 1..Len(pending[p])
        BY <1>3
      <4> QED
        BY <1>s, <4>1 DEF OrderInv, WireInv
    <3>2. \A j \in 1..Len(s) : Before(wire[k].msg, s[j])
      BY <1>s DEF OrderInv, WireInv
    <3>3. \A j \in 1..Len(s) + 1 : j \in 1..Len(s) \/ j = Len(s) + 1
      BY <1>8
    <3> QED
      BY <1>6, <1>7, <1>8, <1>e, <2>1, <3>1, <3>2, <3>3
  <2>2. CASE q # p
    BY <1>6, <1>7, <2>2 DEF OrderInv, WireInv
  <2> QED
    BY <2>1, <2>2
<1>13. MessagesContiguous' /\ ProducerOrder'
  BY <1>1 DEF OrderInv, MessagesContiguous, ProducerOrder, sendVars
<1> QED
  BY <1>9, <1>10, <1>11, <1>12, <1>13 DEF OrderInv

\* The oldest message of a producer joins the batch of the one worker that
\* has the lock.
LEMMA TakeOrder ==
    ASSUME IInv, OrderInv, NEW w \in WriteWorkers, HandleWrite_Take(w)
    PROVE  OrderInv'
<1>0. WriteTypeOK /\ WriteLockInv
  BY DEF IInv, TypeOK
<1>1. /\ wpc[w] = "dequeue" /\ UNCHANGED <<wpc, left, sent, writeLock, wire, issued, pending>>
  BY DEF HandleWrite_Take, notSend
<1>2. PICK p \in Producers :
        /\ queue[p] # <<>>
        /\ batch' = [batch EXCEPT ![w] = Append(batch[w], Head(queue[p]))]
        /\ queue' = [queue EXCEPT ![p] = Tail(queue[p])]
  BY DEF HandleWrite_Take
<1> DEFINE s == queue[p]
           b == batch[w]
           m == queue[p][1]
<1>3. s \in Seq(Messages) /\ b \in Seq(Messages) /\ s # <<>>
  BY <1>0, <1>2 DEF WriteTypeOK
<1>4. /\ Len(s) \in Nat /\ Len(s) > 0 /\ Head(s) = m /\ m \in Messages /\ 1 \in 1..Len(s)
      /\ Len(Tail(s)) = Len(s) - 1
      /\ \A i \in 1..Len(Tail(s)) : i + 1 \in 1..Len(s) /\ Tail(s)[i] = s[i + 1]
  BY <1>3, FirstAndRest
<1>5. batch'[w] = Append(b, m) /\ \A u \in WriteWorkers : u # w => batch'[u] = batch[u]
  BY <1>0, <1>2, <1>4 DEF WriteTypeOK
<1>6. queue'[p] = Tail(s) /\ \A q \in Producers : q # p => queue'[q] = queue[q]
  BY <1>0, <1>2 DEF WriteTypeOK
<1>7. /\ Len(b) \in Nat /\ Len(Append(b, m)) = Len(b) + 1 /\ Append(b, m)[Len(b) + 1] = m
      /\ \A i \in 1..Len(b) : Append(b, m)[i] = b[i]
  BY <1>3, <1>4, JoinsSeq, MessageSeq
<1> HIDE DEF s, b, m
<1>8. s = queue[p] /\ b = batch[w] /\ m = s[1]
  BY DEF s, b, m
<1>9. \A u \in WriteWorkers : u # w => batch[u] = <<>>
  BY <1>0, <1>1 DEF OrderInv, HeldInv, WriteLockInv
<1>e. Len(<<>>) = 0 /\ 1..0 = {}
  BY EmptySeq
<1>10. ASSUME NEW q \in Producers PROVE ProducerInv(q)'
  <2>1. CASE q = p
    <3>1. Increasing(Tail(s)) /\ \A t : AllBefore(s, t) => AllBefore(Tail(s), t)
      BY <1>3, <1>8, RestKeeps DEF OrderInv, ProducerInv
    <3>2. \A i \in 1..Len(Tail(s)) : Tail(s)[i].from = p /\ Tail(s)[i].no <= issued[p]
      BY <1>4, <1>8 DEF OrderInv, ProducerInv
    <3>3. pending' = pending /\ issued' = issued
      BY <1>1
    <3>4. pending[p] # <<>> =>
             /\ Len(pending[p]) = 1 /\ pending[p][1].from = p /\ pending[p][1].no = issued[p]
             /\ AllBefore(s, pending[p])
      BY <1>8 DEF OrderInv, ProducerInv
    <3> QED
      BY <1>6, <2>1, <3>1, <3>2, <3>3, <3>4 DEF ProducerInv
  <2>2. CASE q # p
    BY <1>1, <1>6, <2>2 DEF OrderInv, ProducerInv
  <2> QED
    BY <2>1, <2>2
<1>m. /\ m.from = p /\ m.no <= issued[p]
      /\ \A j \in 1..Len(Tail(s)) : Before(m, Tail(s)[j])
      /\ \A j \in 1..Len(pending[p]) : Before(m, pending[p][j])
  <2>1. m.from = p /\ m.no <= issued[p] /\ Increasing(s)
    BY <1>4, <1>8 DEF OrderInv, ProducerInv
  <2>2. \A j \in 1..Len(Tail(s)) : Before(m, Tail(s)[j])
    BY <1>3, <1>8, <2>1, RestKeeps
  <2>3. \A j \in 1..Len(pending[p]) : Before(m, pending[p][j])
    BY <1>4, <1>8, <1>e DEF OrderInv, ProducerInv, AllBefore
  <2> QED
    BY <2>1, <2>2, <2>3
<1>11. HeldInv(w)'
  <2>1. writeLock' = w
    BY <1>0, <1>1 DEF WriteLockInv
  <2>2. AllBefore(b, s) /\ Increasing(b)
    BY <1>8 DEF OrderInv, HeldInv
  <2>3. \A i \in 1..Len(b) : Before(b[i], m)
    BY <1>4, <1>8, <2>2 DEF AllBefore
  <2>4. Increasing(Append(b, m))
    BY <1>3, <1>4, <2>2, <2>3, JoinKeeps
  <2>5. \A i \in 1..Len(b) + 1 : Append(b, m)[i].no <= issued[Append(b, m)[i].from]
    <3>1. \A i \in 1..Len(b) + 1 : i \in 1..Len(b) \/ i = Len(b) + 1
      BY <1>7
    <3> QED
      BY <1>7, <1>8, <1>m, <3>1 DEF OrderInv, HeldInv
  <2>6. ASSUME NEW q \in Producers
        PROVE  AllBefore(Append(b, m), queue'[q]) /\ AllBefore(Append(b, m), pending[q])
    <3>1. CASE q = p
      <4>1. AllBefore(b, Tail(s)) /\ AllBefore(b, pending[p])
        BY <1>3, <1>8, <2>2, RestKeeps DEF OrderInv, HeldInv
      <4> QED
        BY <1>3, <1>4, <1>6, <1>m, <3>1, <4>1, JoinKeeps
    <3>2. CASE q # p
      <4>1. /\ \A j \in 1..Len(queue[q]) : queue[q][j].from = q
            /\ \A j \in 1..Len(pending[q]) : pending[q][j].from = q
        <5>1. Len(pending[q]) = 1 \/ pending[q] = <<>>
          BY DEF OrderInv, ProducerInv
        <5>2. \A j \in 1..1 : j = 1
          OBVIOUS
        <5> QED
          BY <1>e, <5>1, <5>2 DEF OrderInv, ProducerInv
      <4>2. /\ \A j \in 1..Len(queue[q]) : Before(m, queue[q][j])
            /\ \A j \in 1..Len(pending[q]) : Before(m, pending[q][j])
        BY <1>m, <3>2, <4>1 DEF Before
      <4>3. AllBefore(b, queue[q]) /\ AllBefore(b, pending[q])
        BY <1>8 DEF OrderInv, HeldInv
      <4> QED
        BY <1>3, <1>4, <1>6, <3>2, <4>2, <4>3, JoinKeeps
    <3> QED
      BY <3>1, <3>2
  <2> QED
    BY <1>1, <1>5, <1>7, <2>1, <2>4, <2>5, <2>6 DEF HeldInv
<1>12. ASSUME NEW u \in WriteWorkers, u # w PROVE HeldInv(u)'
  <2>1. batch'[u] = <<>>
    BY <1>5, <1>9, <1>12
  <2> QED
    BY <1>e, <2>1 DEF HeldInv, Increasing, AllBefore
<1>13. ASSUME NEW u \in WriteWorkers PROVE SendInv(u)'
  <2>1. CASE u = w
    BY <1>1, <2>1 DEF SendInv, Sending
  <2>2. CASE u # w
    BY <1>1, <1>5, <2>2 DEF OrderInv, SendInv, Sending, AtDone, Done
  <2> QED
    BY <2>1, <2>2
<1>14. WireInv'
  <2> SUFFICES ASSUME NEW k \in 1..Len(wire)
               PROVE  /\ \A q \in Producers : \A j \in 1..Len(queue'[q]) : Before(wire[k].msg, queue'[q][j])
                      /\ \A u \in WriteWorkers : \A j \in 1..Len(batch'[u]) :
                            \/ Before(wire[k].msg, batch'[u][j])
                            \/ j = 1 /\ Sending(u)' /\ wire[k].msg = batch'[u][1]
    BY <1>1 DEF OrderInv, WireInv
  <2>1. \A q \in Producers : \A j \in 1..Len(queue'[q]) : Before(wire[k].msg, queue'[q][j])
    <3>1. \A q \in Producers : \A j \in 1..Len(queue[q]) : Before(wire[k].msg, queue[q][j])
      BY DEF OrderInv, WireInv
    <3>2. \A j \in 1..Len(Tail(s)) : Before(wire[k].msg, Tail(s)[j])
      BY <1>4, <1>8, <3>1
    <3> QED
      BY <1>6, <3>1, <3>2
  <2>2. ASSUME NEW u \in WriteWorkers, u # w
        PROVE  \A j \in 1..Len(batch'[u]) : Before(wire[k].msg, batch'[u][j])
    BY <1>5, <1>9, <1>e, <2>2
  <2>3. ASSUME NEW j \in 1..Len(batch'[w]) PROVE Before(wire[k].msg, batch'[w][j])
    <3>1. \A i \in 1..Len(b) : Before(wire[k].msg, b[i])
      BY <1>1, <1>8 DEF OrderInv, WireInv, Sending
    <3>2. Before(wire[k].msg, m)
      BY <1>4, <1>8 DEF OrderInv, WireInv
    <3>3. j \in 1..Len(b) \/ j = Len(b) + 1
      BY <1>5, <1>7, <2>3
    <3> QED
      BY <1>5, <1>7, <3>1, <3>2, <3>3
  <2> QED
    BY <2>1, <2>2, <2>3
<1>15. MessagesContiguous' /\ ProducerOrder'
  BY <1>1 DEF OrderInv, MessagesContiguous, ProducerOrder
<1> QED
  BY <1>10, <1>11, <1>12, <1>13, <1>14, <1>15 DEF OrderInv

\* Where the messages of the workers are when w has the lock.
LEMMA OneBatch ==
    ASSUME IInv, OrderInv, NEW w \in WriteWorkers, writeLock = w
    PROVE  \A u \in WriteWorkers : u # w => batch[u] = <<>>
BY DEF OrderInv, HeldInv

\* A worker drops messages from the front of its batch and goes on, or leaves.
LEMMA ContinueOrder ==
    ASSUME IInv, OrderInv, NEW w \in WriteWorkers,
           NEW from \in {"dequeue", "enter", "test", "send"}, NEW ms \in Seq(Messages),
           Continue(w, from, ms), UNCHANGED <<left, sent, wire, queueVars>>,
           \/ ms = <<>>
           \/ ms = batch[w] /\ from = "dequeue"
           \/ ms = Tail(batch[w]) /\ batch[w] # <<>>
    PROVE  OrderInv'
<1>0. WriteTypeOK /\ WriteLockInv /\ batch[w] \in Seq(Messages)
  BY DEF IInv, TypeOK, WriteTypeOK
<1>1. /\ wpc[w] = from /\ wpc'[w] \in {"out", "enter"}
      /\ \A u \in WriteWorkers : u # w => wpc'[u] = wpc[u]
  BY <1>0 DEF Continue, WriteGoto, WriteTypeOK
<1>2. /\ batch'[w] = ms /\ \A u \in WriteWorkers : u # w => batch'[u] = batch[u]
      /\ ms # <<>> => writeLock' = writeLock
  BY <1>0 DEF Continue, WriteTypeOK
<1>3. writeLock = w
  BY <1>0, <1>1 DEF WriteLockInv
<1>4. \A u \in WriteWorkers : u # w => batch[u] = <<>>
  BY <1>3, OneBatch
<1>5. wire' = wire /\ issued' = issued /\ pending' = pending /\ queue' = queue /\ left' = left /\ sent' = sent
  BY DEF queueVars
<1>e. Len(<<>>) = 0 /\ 1..0 = {}
  BY EmptySeq
<1>6. /\ Increasing(ms)
      /\ \A i \in 1..Len(ms) : ms[i].no <= issued[ms[i].from]
      /\ \A p \in Producers : AllBefore(ms, queue[p]) /\ AllBefore(ms, pending[p])
  <2>1. HeldInv(w)
    BY DEF OrderInv
  <2>2. CASE ms = <<>>
    BY <1>e, <2>2 DEF Increasing, AllBefore
  <2>3. CASE ms = batch[w]
    BY <2>1, <2>3 DEF HeldInv
  <2>4. CASE ms = Tail(batch[w]) /\ batch[w] # <<>>
    <3>1. \A i \in 1..Len(ms) : i + 1 \in 1..Len(batch[w]) /\ ms[i] = batch[w][i + 1]
      BY <1>0, <2>4, FirstAndRest
    <3>2. Increasing(ms) /\ \A t : AllBefore(batch[w], t) => AllBefore(ms, t)
      BY <1>0, <2>1, <2>4, RestKeeps DEF HeldInv
    <3> QED
      BY <2>1, <3>1, <3>2 DEF HeldInv
  <2> QED
    BY <2>2, <2>3, <2>4
<1>7. \A k \in 1..Len(wire) : \A j \in 1..Len(ms) : Before(wire[k].msg, ms[j])
  <2> SUFFICES ASSUME NEW k \in 1..Len(wire), NEW j \in 1..Len(ms) PROVE Before(wire[k].msg, ms[j])
    OBVIOUS
  <2>1. \A i \in 1..Len(batch[w]) : i # 1 \/ ~Sending(w) => Before(wire[k].msg, batch[w][i])
    BY DEF OrderInv, WireInv
  <2>2. CASE ms = <<>>
    BY <1>e, <2>2
  <2>3. CASE ms = batch[w] /\ from = "dequeue"
    BY <1>1, <2>1, <2>3 DEF Sending
  <2>4. CASE ms = Tail(batch[w]) /\ batch[w] # <<>>
    <3>1. j + 1 \in 1..Len(batch[w]) /\ ms[j] = batch[w][j + 1] /\ j + 1 # 1
      BY <1>0, <2>4, FirstAndRest
    <3> QED
      BY <2>1, <3>1
  <2> QED
    BY <2>2, <2>3, <2>4
<1>8. \A p \in Producers : ProducerInv(p)'
  BY <1>5 DEF OrderInv, ProducerInv
<1>9. ASSUME NEW u \in WriteWorkers PROVE HeldInv(u)'
  <2>1. CASE u = w
    BY <1>2, <1>3, <1>5, <1>6, <2>1 DEF HeldInv
  <2>2. CASE u # w
    <3>1. batch'[u] = <<>>
      BY <1>2, <1>4, <2>2
    <3> QED
      BY <1>e, <3>1 DEF HeldInv, Increasing, AllBefore
  <2> QED
    BY <2>1, <2>2
<1>10. ASSUME NEW u \in WriteWorkers PROVE SendInv(u)'
  <2>1. CASE u = w
    BY <1>1, <2>1 DEF SendInv, Sending
  <2>2. CASE u # w
    BY <1>1, <1>2, <1>5, <2>2 DEF OrderInv, SendInv, Sending, AtDone, Done
  <2> QED
    BY <2>1, <2>2
<1>11. WireInv'
  <2>1. \A k \in 1..Len(wire) : \A u \in WriteWorkers : \A j \in 1..Len(batch'[u]) :
           Before(wire[k].msg, batch'[u][j])
    BY <1>2, <1>4, <1>7, <1>e
  <2> QED
    BY <1>5, <2>1 DEF OrderInv, WireInv
<1>12. MessagesContiguous' /\ ProducerOrder'
  BY <1>5 DEF OrderInv, MessagesContiguous, ProducerOrder
<1> QED
  BY <1>8, <1>9, <1>10, <1>11, <1>12 DEF OrderInv

\* sendBytes begins with a message that is not on the wire at all, and goes
\* on as long as something is left of it.
LEMMA SendStartOrder ==
    ASSUME IInv, OrderInv, NEW w \in WriteWorkers, SendBytes_Enter(w) \/ SendBytes_Test(w),
           UNCHANGED <<batch, writeLock>>
    PROVE  OrderInv'
<1>0. WriteTypeOK /\ WriteLockInv /\ BatchInv /\ batch[w] \in Seq(Messages)
  BY DEF IInv, TypeOK, WriteTypeOK
<1>1. wpc[w] \in {"enter", "test"} /\ writeLock = w /\ batch[w] # <<>> /\ wire' = wire
      /\ issued' = issued /\ pending' = pending /\ queue' = queue
  BY <1>0 DEF SendBytes_Enter, SendBytes_Test, Continue, WriteGoto, WriteLockInv, BatchInv, notSend
<1>n. Tail(batch[w]) # batch[w]
  <2> DEFINE t == Tail(batch[w])
  <2>1. Len(t) = Len(batch[w]) - 1 /\ Len(batch[w]) \in Nat
    BY <1>0, <1>1, FirstAndRest
  <2> HIDE DEF t
  <2>2. t # batch[w]
    BY <2>1
  <2> QED
    BY <2>2 DEF t
<1>2. \/ /\ wpc[w] = "enter" /\ wpc' = [wpc EXCEPT ![w] = "test"]
         /\ left' = [left EXCEPT ![w] = Head(batch[w]).len] /\ sent' = [sent EXCEPT ![w] = 0]
      \/ /\ wpc[w] = "test" /\ wpc' = [wpc EXCEPT ![w] = "send"] /\ left' = left /\ sent' = sent
         /\ Unsigned(sent[w]) < left[w]
  <2>1. ASSUME NEW from, Continue(w, from, Tail(batch[w])) PROVE FALSE
    <3>1. batch'[w] = Tail(batch[w])
      BY <1>0, <2>1 DEF Continue, WriteTypeOK
    <3> QED
      BY <1>n, <3>1
  <2> QED
    BY <2>1 DEF SendBytes_Enter, SendBytes_Test, WriteGoto
<1> DEFINE m == batch[w][1]
<1>3. m \in Messages /\ Head(batch[w]) = m /\ m.len \in Nat /\ m.len > 0 /\ m.no \in Nat /\ m.len \in Lengths
      /\ 1 \in 1..Len(batch[w])
  BY <1>0, <1>1, FirstAndRest, MessageFields
<1> HIDE DEF m
<1>4. \A u \in WriteWorkers : u # w => wpc'[u] = wpc[u] /\ left'[u] = left[u] /\ sent'[u] = sent[u]
  BY <1>0, <1>2 DEF WriteTypeOK
<1>5. ASSUME NEW u \in WriteWorkers PROVE SendInv(u)'
  <2>1. CASE u # w
    BY <1>1, <1>4, <2>1 DEF OrderInv, SendInv, Sending, AtDone, Done
  <2>2. CASE u = w /\ wpc[w] = "enter"
    <3>1. wpc'[w] = "test" /\ left'[w] = m.len /\ left'[w] > 0
      BY <1>0, <1>2, <1>3, <2>2 DEF WriteTypeOK
    <3>2. \A k \in 1..Len(wire) : wire[k].msg # m
      <4> SUFFICES ASSUME NEW k \in 1..Len(wire), wire[k].msg = m PROVE FALSE
        OBVIOUS
      <4>1. Before(m, m)
        BY <1>3, <2>2 DEF OrderInv, WireInv, Sending, m
      <4> QED
        BY <1>3, <4>1 DEF Before
    <3>3. Done(w)' = 0
      BY <1>3, <3>1 DEF Done, m
    <3>4. AtDone(w)'
      BY <1>1, <3>2, <3>3 DEF AtDone, m
    <3> QED
      BY <2>2, <3>1, <3>4 DEF SendInv
  <2>3. CASE u = w /\ wpc[w] = "test"
    <3>1. wpc'[w] = "send" /\ left' = left /\ sent' = sent /\ Unsigned(sent[w]) < left[w]
      BY <1>0, <1>2, <2>3 DEF WriteTypeOK
    <3>2. left[w] > 0 /\ (AtDone(w) \/ sent[w] = left[w])
      BY <2>3 DEF OrderInv, SendInv, Sending
    <3>3. left[w] \in 0..m.len
      BY <1>0, <1>3, <2>3 DEF WriteTypeOK, BatchInv
    <3>4. Unsigned(left[w]) = left[w]
      BY <1>3, <3>3, LengthsAreSizes DEF Unsigned
    <3>5. AtDone(w)
      BY <3>1, <3>2, <3>3, <3>4
    <3>6. AtDone(w)'
      BY <1>1, <3>1, <3>5 DEF AtDone, Done
    <3> QED
      BY <2>3, <3>1, <3>2, <3>6 DEF SendInv
  <2> QED
    BY <1>1, <2>1, <2>2, <2>3
<1>6. \A u \in WriteWorkers : HeldInv(u)'
  BY <1>1 DEF OrderInv, HeldInv
<1>7. \A p \in Producers : ProducerInv(p)'
  BY <1>1 DEF OrderInv, ProducerInv
<1>8. WireInv'
  <2>1. \A u \in WriteWorkers : Sending(u) => Sending(u)'
    BY <1>0, <1>2, <1>4 DEF Sending, WriteTypeOK
  <2> QED
    BY <1>1, <2>1 DEF OrderInv, WireInv
<1>9. MessagesContiguous' /\ ProducerOrder'
  BY <1>1 DEF OrderInv, MessagesContiguous, ProducerOrder
<1> QED
  BY <1>5, <1>6, <1>7, <1>8, <1>9 DEF OrderInv
\* Bytes join the wire.
LEMMA WireGrows ==
    ASSUME WriteTypeOK, NEW m \in Messages, NEW done \in Nat, NEW n \in Nat,
           wire' = wire \o [i \in 1..n |-> [msg |-> m, byte |-> done + i]]
    PROVE  /\ Len(wire') = Len(wire) + n /\ DOMAIN wire' = 1..Len(wire) + n
           /\ \A k \in 1..Len(wire) : wire'[k] = wire[k]
           /\ \A k \in 1..Len(wire) + n :
                k > Len(wire) => /\ wire'[k] = [msg |-> m, byte |-> done + (k - Len(wire))]
                                 /\ wire'[k].msg = m /\ wire'[k].byte = done + (k - Len(wire))
<1> DEFINE t == [i \in 1..n |-> [msg |-> m, byte |-> done + i]]
<1>1. t \in Seq([msg : Messages, byte : Nat]) /\ Len(t) = n
  OBVIOUS
<1>2. \A i \in 1..n : t[i] = [msg |-> m, byte |-> done + i]
  OBVIOUS
<1>3. wire \in Seq([msg : Messages, byte : Nat]) /\ Len(wire) \in Nat
  BY WireMessages DEF WriteTypeOK
<1>4. wire' = wire \o t
  OBVIOUS
<1> HIDE DEF t
<1>5. /\ wire \o t \in Seq([msg : Messages, byte : Nat])
      /\ Len(wire \o t) = Len(wire) + n
      /\ \A k \in 1..Len(wire) + n :
           (wire \o t)[k] = IF k <= Len(wire) THEN wire[k] ELSE t[k - Len(wire)]
  BY <1>1, <1>3, ConcatProperties
<1>6. DOMAIN (wire \o t) = 1..Len(wire) + n
  BY <1>5, LenProperties
<1>7. \A k \in 1..Len(wire) : k \in 1..Len(wire) + n /\ k <= Len(wire)
  BY <1>3
<1>8. ASSUME NEW k \in 1..Len(wire) + n, k > Len(wire)
      PROVE  wire'[k] = [msg |-> m, byte |-> done + (k - Len(wire))]
  <2>1. k - Len(wire) \in 1..n /\ ~(k <= Len(wire))
    BY <1>3, <1>8
  <2> QED
    BY <1>2, <1>4, <1>5, <2>1
<1> QED
  BY <1>4, <1>5, <1>6, <1>7, <1>8

\* The kernel takes the next bytes of the message.
LEMMA AcceptedOrder ==
    ASSUME IInv, OrderInv, NEW w \in WriteWorkers, SendBytes_Send(w),
           NEW n \in 1..left[w], SendBytes_Accepted(w, n)
    PROVE  OrderInv'
<1>0. WriteTypeOK /\ WriteLockInv /\ BatchInv /\ batch[w] \in Seq(Messages)
  BY DEF IInv, TypeOK, WriteTypeOK
<1>1. /\ wpc[w] = "send" /\ wpc' = [wpc EXCEPT ![w] = "test"] /\ writeLock = w /\ batch[w] # <<>>
      /\ batch' = batch /\ writeLock' = writeLock /\ queue' = queue /\ issued' = issued /\ pending' = pending
  BY <1>0 DEF SendBytes_Send, WriteGoto, WriteLockInv, BatchInv, notSend
<1> DEFINE m == batch[w][1]
<1>2. /\ m \in Messages /\ Head(batch[w]) = m /\ m.len \in Nat /\ m.no \in Nat /\ m.from \in Producers
      /\ 1 \in 1..Len(batch[w]) /\ Len(batch[w]) \in Nat
  BY <1>0, <1>1, FirstAndRest, MessageFields
<1>3. left[w] \in Nat /\ left[w] > 0 /\ left[w] <= m.len /\ n \in Nat /\ n > 0 /\ n <= left[w]
  BY <1>0, <1>1, <1>2 DEF WriteTypeOK, BatchInv
<1>4. PICK done \in Nat : done = m.len - left[w]
  BY <1>2, <1>3
<1>5. /\ wire' = wire \o [i \in 1..n |-> [msg |-> m, byte |-> done + i]]
      /\ sent' = [sent EXCEPT ![w] = n]
      /\ left' = [left EXCEPT ![w] = IF n < left[w] THEN left[w] - n ELSE left[w]]
  BY <1>2, <1>4 DEF SendBytes_Accepted
<1>6. PICK x : x = m
  OBVIOUS
<1>x. /\ x \in Messages /\ x = batch[w][1] /\ x.len \in Nat /\ x.no \in Nat /\ x.from \in Producers
      /\ done = x.len - left[w]
      /\ wire' = wire \o [i \in 1..n |-> [msg |-> x, byte |-> done + i]]
  BY <1>2, <1>4, <1>5, <1>6
<1> HIDE DEF m
<1>7. PICK l \in Nat : l = Len(wire)
  BY <1>0, WireMessages
<1>8. /\ Len(wire') = l + n /\ DOMAIN wire' = 1..l + n
      /\ \A k \in 1..l : wire'[k] = wire[k]
      /\ \A k \in 1..l + n : k > l => /\ wire'[k] = [msg |-> x, byte |-> done + (k - l)]
                                      /\ wire'[k].msg = x /\ wire'[k].byte = done + (k - l)
  BY <1>0, <1>3, <1>7, <1>x, WireGrows
<1>9. \A k \in 1..l + n : k \in 1..l \/ (k > l /\ k - l \in 1..n)
  BY <1>3
<1>10. /\ \A u \in WriteWorkers : u # w => batch[u] = <<>> /\ ~Sending(u)
       /\ \A u \in WriteWorkers : u # w => wpc'[u] = wpc[u]
       /\ wpc'[w] = "test"
  <2>1. \A u \in WriteWorkers : u # w => batch[u] = <<>>
    BY <1>1, OneBatch
  <2> QED
    BY <1>0, <1>1, <2>1 DEF WriteTypeOK, BatchInv, Sending
<1>a. \A k \in 1..l : wire[k].msg = x => wire[k].byte <= done
  BY <1>1, <1>4, <1>7, <1>x DEF OrderInv, SendInv, AtDone, Done
<1>b. done > 0 => l > 0 /\ wire[l] = [msg |-> x, byte |-> done]
  BY <1>1, <1>4, <1>7, <1>x DEF OrderInv, SendInv, AtDone, Done
<1>c. \A k \in 1..l : wire[k].msg \in Messages /\ wire[k].byte \in Nat /\ DOMAIN wire = 1..l
  BY <1>0, <1>7, WireMessages
<1>e. Len(<<>>) = 0 /\ 1..0 = {}
  BY EmptySeq
<1>11. WireInv'
  <2> SUFFICES ASSUME NEW k \in 1..l + n
               PROVE  /\ wire'[k].msg.no <= issued[wire'[k].msg.from]
                      /\ \A p \in Producers : \A j \in 1..Len(queue[p]) : Before(wire'[k].msg, queue[p][j])
                      /\ \A p \in Producers : \A j \in 1..Len(pending[p]) : Before(wire'[k].msg, pending[p][j])
                      /\ \A u \in WriteWorkers : \A j \in 1..Len(batch[u]) :
                           \/ Before(wire'[k].msg, batch[u][j])
                           \/ j = 1 /\ Sending(u)' /\ wire'[k].msg = batch[u][1]
    BY <1>1, <1>8 DEF WireInv
  <2>1. \A u \in WriteWorkers : Sending(u)' = Sending(u)
    BY <1>1, <1>10 DEF Sending
  <2>2. CASE k \in 1..l
    <3>1. wire'[k] = wire[k]
      BY <1>8, <2>2
    <3>2. /\ wire[k].msg.no <= issued[wire[k].msg.from]
          /\ \A p \in Producers : \A j \in 1..Len(queue[p]) : Before(wire[k].msg, queue[p][j])
          /\ \A p \in Producers : \A j \in 1..Len(pending[p]) : Before(wire[k].msg, pending[p][j])
          /\ \A u \in WriteWorkers : \A j \in 1..Len(batch[u]) :
               \/ Before(wire[k].msg, batch[u][j])
               \/ j = 1 /\ Sending(u) /\ wire[k].msg = batch[u][1]
      BY <1>7, <2>2 DEF OrderInv, WireInv
    <3> QED
      BY <2>1, <3>1, <3>2
  <2>3. CASE k > l
    <3>1. wire'[k].msg = x
      BY <1>8, <2>3
    <3>2. HeldInv(w) /\ 1 \in 1..Len(batch[w])
      BY <1>2 DEF OrderInv
    <3>3. x.no <= issued[x.from]
      BY <1>x, <3>2 DEF HeldInv
    <3>4. \A p \in Producers : /\ \A j \in 1..Len(queue[p]) : Before(x, queue[p][j])
                               /\ \A j \in 1..Len(pending[p]) : Before(x, pending[p][j])
      BY <1>x, <3>2 DEF HeldInv, AllBefore
    <3>5. \A j \in 1..Len(batch[w]) : j = 1 \/ Before(x, batch[w][j])
      <4>1. \A j \in 1..Len(batch[w]) : j = 1 \/ 1 < j
        OBVIOUS
      <4> QED
        BY <1>x, <3>2, <4>1 DEF HeldInv, Increasing
    <3>6. Sending(w)'
      BY <1>10 DEF Sending
    <3> QED
      BY <1>10, <1>e, <1>x, <3>1, <3>3, <3>4, <3>5, <3>6
  <2> QED
    BY <1>9, <2>2, <2>3
<1>12. MessagesContiguous'
  <2> SUFFICES ASSUME NEW i \in 1..l + n
               PROVE  \/ wire'[i].byte = 1
                      \/ i > 1 /\ wire'[i - 1] = [wire'[i] EXCEPT !.byte = wire'[i].byte - 1]
    BY <1>8 DEF MessagesContiguous
  <2>1. CASE i \in 1..l
    <3>1. \/ wire[i].byte = 1
          \/ i > 1 /\ wire[i - 1] = [wire[i] EXCEPT !.byte = wire[i].byte - 1]
      BY <1>c, <2>1 DEF OrderInv, MessagesContiguous
    <3>2. i > 1 => i - 1 \in 1..l
      BY <2>1
    <3> QED
      BY <1>8, <2>1, <3>1, <3>2
  <2>2. CASE i = l + 1
    <3>1. wire'[i] = [msg |-> x, byte |-> done + 1]
      <4>1. i > l /\ i - l = 1
        BY <2>2
      <4> QED
        BY <1>8, <4>1
    <3>2. CASE done = 0
      BY <3>1, <3>2
    <3>3. CASE done > 0
      <4>1. i > 1 /\ i - 1 = l /\ l \in 1..l /\ (done + 1) - 1 = done
        BY <1>b, <2>2, <3>3
      <4>2. wire'[i - 1] = [msg |-> x, byte |-> done]
        BY <1>8, <1>b, <3>3, <4>1
      <4> QED
        BY <3>1, <4>1, <4>2
    <3> QED
      BY <3>2, <3>3
  <2>3. CASE i > l + 1
    <3>1. i - 1 \in 1..l + n /\ i - 1 > l /\ i > l /\ i > 1
          /\ (done + (i - l)) - 1 = done + ((i - 1) - l)
      BY <2>3
    <3>2. wire'[i] = [msg |-> x, byte |-> done + (i - l)]
      BY <1>8, <3>1
    <3>3. wire'[i - 1] = [msg |-> x, byte |-> done + ((i - 1) - l)]
      BY <1>8, <3>1
    <3> QED
      BY <3>1, <3>2, <3>3
  <2> QED
    BY <2>1, <2>2, <2>3
<1>13. ProducerOrder'
  <2> SUFFICES ASSUME NEW i \in 1..l + n, NEW j \in 1..l + n, i < j,
                      wire'[i].msg.from = wire'[j].msg.from
               PROVE  \/ wire'[i].msg.no < wire'[j].msg.no
                      \/ wire'[i].msg = wire'[j].msg /\ wire'[i].byte < wire'[j].byte
    BY <1>8 DEF ProducerOrder
  <2>1. CASE j \in 1..l
    <3>1. i \in 1..l
      BY <2>1
    <3>2. wire'[i] = wire[i] /\ wire'[j] = wire[j]
      BY <1>8, <2>1, <3>1
    <3>3. wire[i].msg.from = wire[j].msg.from =>
             \/ wire[i].msg.no < wire[j].msg.no
             \/ wire[i].msg = wire[j].msg /\ wire[i].byte < wire[j].byte
      BY <1>c, <2>1, <3>1 DEF OrderInv, ProducerOrder
    <3> QED
      BY <3>2, <3>3
  <2>2. CASE i \in 1..l /\ j > l
    <3>1. wire'[i] = wire[i] /\ wire'[j].msg = x /\ wire'[j].byte = done + (j - l)
      BY <1>8, <2>2
    <3>2. Before(wire[i].msg, x) \/ wire[i].msg = x
      BY <1>2, <1>7, <1>x, <2>2 DEF OrderInv, WireInv
    <3>3. wire[i].msg = x => wire[i].byte < done + (j - l)
      BY <1>a, <1>c, <2>2
    <3> QED
      BY <3>1, <3>2, <3>3 DEF Before
  <2>3. CASE i > l /\ j > l
    <3>1. /\ wire'[i].msg = x /\ wire'[i].byte = done + (i - l)
          /\ wire'[j].msg = x /\ wire'[j].byte = done + (j - l)
      BY <1>8, <2>3
    <3>2. done + (i - l) < done + (j - l)
      OBVIOUS
    <3> QED
      BY <3>1, <3>2
  <2> QED
    BY <1>9, <2>1, <2>2, <2>3
<1>14. ASSUME NEW u \in WriteWorkers PROVE SendInv(u)'
  <2>1. CASE u # w
    BY <1>10, <2>1 DEF SendInv, Sending
  <2>2. CASE u = w /\ n < left[w]
    <3>1. left'[w] = left[w] - n /\ left'[w] > 0
      BY <1>0, <1>3, <1>5, <2>2 DEF WriteTypeOK
    <3>2. Done(w)' = done + n
      <4>1. Done(w)' = x.len - (left[w] - n)
        BY <1>1, <1>x, <3>1 DEF Done
      <4> QED
        BY <1>3, <1>x, <4>1
    <3>3. \A k \in 1..l + n : wire'[k].msg = x => wire'[k].byte <= done + n
      <4> SUFFICES ASSUME NEW k \in 1..l + n, wire'[k].msg = x PROVE wire'[k].byte <= done + n
        OBVIOUS
      <4>1. CASE k \in 1..l
        <5>1. wire[k].byte \in Nat /\ wire[k].byte <= done /\ wire'[k] = wire[k]
          BY <1>8, <1>a, <1>c, <4>1
        <5> QED
          BY <1>3, <5>1
      <4>2. CASE k > l
        <5>1. wire'[k].byte = done + (k - l)
          BY <1>8, <4>2
        <5> QED
          BY <1>3, <5>1
      <4> QED
        BY <1>9, <4>1, <4>2
    <3>4. wire'[l + n] = [msg |-> x, byte |-> done + n]
      <4>1. l + n \in 1..l + n /\ l + n > l /\ (l + n) - l = n
        BY <1>3
      <4> QED
        BY <1>8, <4>1
    <3>5. l + n > 0
      BY <1>3
    <3>6. AtDone(w)'
      BY <1>1, <1>8, <1>x, <3>2, <3>3, <3>4, <3>5 DEF AtDone
    <3> QED
      BY <1>10, <2>2, <3>1, <3>6 DEF SendInv
  <2>3. CASE u = w /\ n = left[w]
    BY <1>0, <1>3, <1>5, <1>10, <2>3 DEF SendInv, WriteTypeOK
  <2> QED
    BY <1>3, <2>1, <2>2, <2>3
<1>15. \A u \in WriteWorkers : HeldInv(u)'
  BY <1>1 DEF OrderInv, HeldInv
<1>16. \A p \in Producers : ProducerInv(p)'
  BY <1>1 DEF OrderInv, ProducerInv
<1> QED
  BY <1>11, <1>12, <1>13, <1>14, <1>15, <1>16 DEF OrderInv

\* The kernel takes nothing.
LEMMA WouldBlockOrder ==
    ASSUME IInv, OrderInv, NEW w \in WriteWorkers, SendBytes_Send(w), UNCHANGED <<left, wire>>
    PROVE  OrderInv'
<1>0. WriteTypeOK
  BY DEF IInv, TypeOK
<1>1. /\ wpc[w] = "send" /\ wpc' = [wpc EXCEPT ![w] = "test"]
      /\ batch' = batch /\ writeLock' = writeLock /\ queue' = queue /\ issued' = issued /\ pending' = pending
      /\ left' = left /\ wire' = wire
  BY DEF SendBytes_Send, WriteGoto, notSend
<1>2. wpc'[w] = "test" /\ \A u \in WriteWorkers : u # w => wpc'[u] = wpc[u] /\ sent'[u] = sent[u]
  BY <1>0, <1>1 DEF WriteTypeOK, SendBytes_Send, SendBytes_Accepted
<1>3. ASSUME NEW u \in WriteWorkers PROVE SendInv(u)'
  <2>1. CASE u = w
    BY <1>1, <1>2, <2>1 DEF OrderInv, SendInv, AtDone, Done, Sending
  <2>2. CASE u # w
    BY <1>1, <1>2, <2>2 DEF OrderInv, SendInv, AtDone, Done, Sending
  <2> QED
    BY <2>1, <2>2
<1>4. \A u \in WriteWorkers : Sending(u)' = Sending(u)
  BY <1>1, <1>2 DEF Sending
<1>5. WireInv'
  BY <1>1, <1>4 DEF OrderInv, WireInv
<1> QED
  BY <1>1, <1>3, <1>5 DEF OrderInv, HeldInv, ProducerInv, MessagesContiguous, ProducerOrder
\* Every step keeps the order.
LEMMA NextOrder == IInv /\ OrderInv /\ [Next]_vars => OrderInv'
<1> SUFFICES ASSUME IInv, OrderInv, [Next]_vars PROVE OrderInv'
  OBVIOUS
<1>1. CASE \/ PeerSend \/ PeerClose \/ NotifyStop \/ Destroy_Begin \/ Destroy_Finish \/ UNCHANGED vars
           \/ \E r \in ReadWorkers : ReadData(r)
  <2>1. UNCHANGED <<sendVars, queueVars>>
    BY <1>1 DEF PeerSend, PeerClose, NotifyStop, Destroy_Begin, Destroy_Finish, vars, ReadData,
       ReadData_Enter, ReadData_TryLock, ReadData_Recv, ReadData_Check, ReadData_Listen, notRead,
       notSend, queueVars
  <2> QED
    BY <2>1, SameOrder
<1>2. ASSUME NEW w \in WriteWorkers, HandleWriteQueue(w) PROVE OrderInv'
  <2>0. batch[w] \in Seq(Messages) /\ (wpc[w] \in {"enter", "test"} => batch[w] # <<>>)
    BY DEF IInv, TypeOK, WriteTypeOK, BatchInv
  <2>1. CASE HandleWrite_Enter(w) \/ HandleWrite_Size(w) \/ HandleWrite_TryLock(w)
    BY <2>1, MoveOrder
  <2>2. CASE HandleWrite_Take(w)
    BY <2>2, TakeOrder
  <2>3. CASE HandleWrite_Dequeued(w)
    <3>1. Continue(w, "dequeue", batch[w]) /\ UNCHANGED <<left, sent, wire, queueVars>>
      BY <2>3 DEF HandleWrite_Dequeued, notSend, queueVars
    <3> QED
      BY <2>0, <3>1, ContinueOrder
  <2>4. CASE SendBytes_Enter(w) \/ SendBytes_Test(w)
    <3>1. CASE UNCHANGED <<batch, writeLock>>
      BY <2>4, <3>1, SendStartOrder
    <3>2. ASSUME NEW from \in {"enter", "test"}, Continue(w, from, Tail(batch[w])),
                 UNCHANGED <<left, sent, wire, queueVars>>
          PROVE  OrderInv'
      <4>1. batch[w] # <<>> /\ Tail(batch[w]) \in Seq(Messages)
        BY <2>0, <3>2, FirstAndRest DEF Continue, WriteGoto
      <4> QED
        BY <3>2, <4>1, ContinueOrder
    <3>3. \/ UNCHANGED <<batch, writeLock>>
          \/ \E from \in {"enter", "test"} : /\ Continue(w, from, Tail(batch[w]))
                                             /\ UNCHANGED <<left, sent, wire, queueVars>>
      BY <2>4 DEF SendBytes_Enter, SendBytes_Test, notSend, queueVars
    <3> QED
      BY <3>1, <3>2, <3>3
  <2>5. CASE SendBytes_Send(w)
    BY <2>5, AcceptedOrder, WouldBlockOrder DEF SendBytes_Send
  <2>6. CASE SendBytes_Fail(w)
    <3>1. Continue(w, "send", <<>>) /\ UNCHANGED <<left, sent, wire, queueVars>>
      BY <2>6 DEF SendBytes_Fail, notSend, queueVars
    <3>2. <<>> \in Seq(Messages)
      BY EmptySeq
    <3> QED
      BY <3>1, <3>2, ContinueOrder
  <2> QED
    BY <1>2, <2>1, <2>2, <2>3, <2>4, <2>5, <2>6 DEF HandleWriteQueue
<1> QED
  BY <1>1, <1>2, CheckOrder, EnqueueOrder DEF Next

\* However write workers, producers and the kernel interleave, the bytes of a
\* message follow each other on the wire from its first one on.
THEOREM MessagesStayTogether == Spec => []MessagesContiguous
<1>1. OrderInv => MessagesContiguous
  BY DEF OrderInv
<1> QED
  BY <1>1, InitOrder, NextOrder, Invariance, PTL DEF Spec

\* No byte is sent twice, and the messages of one producer reach the wire in
\* the order it handed them to queueWrite.
THEOREM ProducersInOrder == Spec => []ProducerOrder
<1>1. OrderInv => ProducerOrder
  BY DEF OrderInv
<1> QED
  BY <1>1, InitOrder, NextOrder, Invariance, PTL DEF Spec

-----------------------------------------------------------------------------
(* No message is lost.                                                     *)

\* The messages still to be sent: message no of p is in s.
In(s, p, no) == \E i \in DOMAIN s : s[i].from = p /\ s[i].no = no

\* A message waits with its producer, in writeQueue or with a worker.
LEMMA WaitingParts ==
    ASSUME batch \in [WriteWorkers -> Seq(Messages)], batch' \in [WriteWorkers -> Seq(Messages)],
           NEW p \in Producers, NEW no
    PROVE  /\ Waiting(p, no) <=> \/ In(pending[p], p, no) \/ In(queue[p], p, no)
                                 \/ \E w \in WriteWorkers : In(batch[w], p, no)
           /\ Waiting(p, no)' <=> \/ In(pending'[p], p, no) \/ In(queue'[p], p, no)
                                  \/ \E w \in WriteWorkers : In(batch'[w], p, no)
<1>1. Range(batch) = {batch[w] : w \in WriteWorkers} /\ Range(batch)' = {batch'[w] : w \in WriteWorkers}
  BY DEF Range
<1> QED
  BY <1>1 DEF Waiting, In

\* All stay accounted for if none leaves before it is complete and each new
\* one waits.
LEMMA StillAccountedFor ==
    ASSUME AllAccountedFor,
           \A m : Complete(m) => Complete(m)',
           \A p \in Producers : \A no \in 1..issued[p] :
              Waiting(p, no) => Waiting(p, no)' \/ \E len \in Lengths : Complete(Message(p, no, len))',
           \A p \in Producers : \A no \in 1..issued'[p] : no \in 1..issued[p] \/ Waiting(p, no)'
    PROVE  AllAccountedFor'
<1> SUFFICES ASSUME NEW p \in Producers, NEW no \in 1..issued'[p]
             PROVE  Waiting(p, no)' \/ \E len \in Lengths : Complete(Message(p, no, len))'
  BY DEF AllAccountedFor
<1>1. CASE Waiting(p, no)'
  BY <1>1
<1>2. CASE no \in 1..issued[p]
  <2>1. Waiting(p, no) \/ \E len \in Lengths : Complete(Message(p, no, len))
    BY <1>2 DEF AllAccountedFor
  <2> QED
    BY <1>2, <2>1
<1> QED
  BY <1>1, <1>2

\* A worker that does not move.
LEMMA StillWhole ==
    ASSUME NEW u \in WriteWorkers, WholeInv(u), \A m : Complete(m) => Complete(m)',
           wpc'[u] = wpc[u], batch'[u] = batch[u], left'[u] = left[u], sent'[u] = sent[u]
    PROVE  WholeInv(u)'
BY DEF WholeInv, Sending

\* What is on the wire stays there.
LEMMA WireStays ==
    ASSUME WriteTypeOK, wire' = wire
    PROVE  \A m : Complete(m) => Complete(m)'
BY DEF Complete

\* No step revives the channel or forgets a partial send.
LEMMA Downhill ==
    ASSUME IInv, [Next]_vars, IsActive', ~partial'
    PROVE  IsActive /\ ~partial
<1>1. active' => active
  BY DEF IsActive, Next, PeerSend, PeerClose, NotifyStop, ReadData, ReadData_Enter,
     ReadData_TryLock, ReadData_Recv, ReadData_Check, ReadData_Listen, HandleWriteQueue,
     HandleWrite_Enter, HandleWrite_Size, HandleWrite_TryLock, HandleWrite_Take,
     HandleWrite_Dequeued, SendBytes_Enter, SendBytes_Test, SendBytes_Send, SendBytes_Fail,
     QueueWrite_Check, QueueWrite_Enqueue, Destroy_Begin, Destroy_Finish, flags, vars
<1>2. socketActive' => socketActive
  BY DEF IsActive, Next, PeerSend, PeerClose, NotifyStop, ReadData, ReadData_Enter,
     ReadData_TryLock, ReadData_Recv, ReadData_Check, ReadData_Listen, HandleWriteQueue,
     HandleWrite_Enter, HandleWrite_Size, HandleWrite_TryLock, HandleWrite_Take,
     HandleWrite_Dequeued, SendBytes_Enter, SendBytes_Test, SendBytes_Send, SendBytes_Fail,
     QueueWrite_Check, QueueWrite_Enqueue, Destroy_Begin, Destroy_Finish, flags, vars
<1>3. partial' = partial \/ \E w \in WriteWorkers : SendBytes_Send(w)
  BY DEF Next, PeerSend, PeerClose, NotifyStop, ReadData, ReadData_Enter,
     ReadData_TryLock, ReadData_Recv, ReadData_Check, ReadData_Listen, HandleWriteQueue,
     HandleWrite_Enter, HandleWrite_Size, HandleWrite_TryLock, HandleWrite_Take,
     HandleWrite_Dequeued, SendBytes_Enter, SendBytes_Test, SendBytes_Fail,
     QueueWrite_Check, QueueWrite_Enqueue, Destroy_Begin, Destroy_Finish, sendVars, notRead, vars
<1>4. ASSUME NEW w \in WriteWorkers, SendBytes_Send(w) PROVE partial => partial'
  BY <1>4 DEF SendBytes_Send, SendBytes_Accepted
<1> QED
  BY <1>1, <1>2, <1>3, <1>4 DEF IsActive
\* Steps that move no message and send nothing.
LEMMA IdleKept ==
    ASSUME IInv, AllAccountedFor, UNCHANGED <<batch, wire, issued, pending, queue>>
    PROVE  AllAccountedFor' /\ \A m : Complete(m) => Complete(m)'
BY DEF AllAccountedFor, Waiting, Complete

\* queueWrite holds the message it has just numbered.
LEMMA CheckKept ==
    ASSUME IInv, IInv', AllAccountedFor, NEW p \in Producers, QueueWrite_Check(p)
    PROVE  AllAccountedFor'
<1>0. WriteTypeOK /\ issued[p] \in Nat
  BY DEF IInv, TypeOK, WriteTypeOK
<1>b. batch \in [WriteWorkers -> Seq(Messages)] /\ batch' \in [WriteWorkers -> Seq(Messages)]
  BY DEF IInv, TypeOK, WriteTypeOK
<1>1. PICK len \in Lengths \ {0} : pending' = [pending EXCEPT ![p] = <<Message(p, issued[p] + 1, len)>>]
  BY DEF QueueWrite_Check
<1>2. issued' = [issued EXCEPT ![p] = issued[p] + 1] /\ pending[p] = <<>>
      /\ wire' = wire /\ batch' = batch /\ queue' = queue
  BY DEF QueueWrite_Check, sendVars
<1>3. PICK m : m = Message(p, issued[p] + 1, len)
  OBVIOUS
<1>4. m.from = p /\ m.no = issued[p] + 1
  BY <1>3 DEF Message
<1>5. pending'[p] = <<m>> /\ \A q \in Producers : q # p => pending'[q] = pending[q]
  BY <1>0, <1>1, <1>3 DEF WriteTypeOK
<1>6. issued'[p] = issued[p] + 1 /\ \A q \in Producers : q # p => issued'[q] = issued[q]
  BY <1>0, <1>2 DEF WriteTypeOK
<1>7. In(<<m>>, p, issued[p] + 1)
  <2>1. 1 \in DOMAIN <<m>> /\ <<m>>[1] = m
    OBVIOUS
  <2> QED
    BY <1>4, <2>1 DEF In
<1>8. \A no : ~In(<<>>, p, no)
  BY DEF In
<1>9. ASSUME NEW q \in Producers, NEW no, Waiting(q, no) PROVE Waiting(q, no)'
  <2>1. \/ In(pending[q], q, no) \/ In(queue[q], q, no) \/ \E w \in WriteWorkers : In(batch[w], q, no)
    BY <1>9, <1>b, WaitingParts
  <2>2. In(pending[q], q, no) => In(pending'[q], q, no)
    BY <1>2, <1>5, <1>8
  <2>3. \/ In(pending'[q], q, no) \/ In(queue'[q], q, no) \/ \E w \in WriteWorkers : In(batch'[w], q, no)
    BY <1>2, <2>1, <2>2
  <2> QED
    BY <1>b, <2>3, WaitingParts
<1>10. ASSUME NEW q \in Producers, NEW no \in 1..issued'[q]
       PROVE  no \in 1..issued[q] \/ Waiting(q, no)'
  <2>1. CASE q = p /\ no = issued[p] + 1
    <3>1. In(pending'[q], q, no)
      BY <1>5, <1>7, <2>1
    <3> QED
      BY <1>b, <3>1, WaitingParts
  <2>2. CASE ~(q = p /\ no = issued[p] + 1)
    BY <1>0, <1>6, <2>2
  <2> QED
    BY <2>1, <2>2
<1>11. \A m2 : Complete(m2) => Complete(m2)'
  BY <1>0, <1>2, WireStays
<1> QED
  BY <1>9, <1>10, <1>11, StillAccountedFor

\* writeQueue holds the message it has taken over.
LEMMA EnqueueKept ==
    ASSUME IInv, IInv', OrderInv, AllAccountedFor, NEW p \in Producers, QueueWrite_Enqueue(p)
    PROVE  AllAccountedFor'
<1>0. WriteTypeOK /\ queue[p] \in Seq(Messages) /\ pending[p] \in Seq(Messages)
  BY DEF IInv, TypeOK, WriteTypeOK
<1>b. batch \in [WriteWorkers -> Seq(Messages)] /\ batch' \in [WriteWorkers -> Seq(Messages)]
  BY DEF IInv, TypeOK, WriteTypeOK
<1>1. /\ pending[p] # <<>> /\ issued' = issued /\ batch' = batch /\ wire' = wire
      /\ queue' = [queue EXCEPT ![p] = queue[p] \o pending[p]]
      /\ pending' = [pending EXCEPT ![p] = <<>>]
  BY DEF QueueWrite_Enqueue, sendVars
<1>2. queue'[p] = queue[p] \o pending[p] /\ \A q \in Producers : q # p => queue'[q] = queue[q]
  BY <1>0, <1>1 DEF WriteTypeOK
<1>3. \A q \in Producers : q # p => pending'[q] = pending[q]
  BY <1>0, <1>1 DEF WriteTypeOK
<1>4. ASSUME NEW s \in Seq(Messages), NEW t \in Seq(Messages), NEW no, In(s, p, no) \/ In(t, p, no)
      PROVE  In(s \o t, p, no)
  <2>1. Len(s) \in Nat /\ Len(t) \in Nat /\ DOMAIN s = 1..Len(s) /\ DOMAIN t = 1..Len(t)
    BY MessageSeq
  <2>2. /\ s \o t \in Seq(Messages) /\ Len(s \o t) = Len(s) + Len(t)
        /\ \A i \in 1..Len(s) + Len(t) : (s \o t)[i] = IF i <= Len(s) THEN s[i] ELSE t[i - Len(s)]
    BY ConcatProperties
  <2>3. DOMAIN (s \o t) = 1..Len(s) + Len(t)
    BY <2>2, MessageSeq
  <2>4. \A i \in DOMAIN s : i \in DOMAIN (s \o t) /\ (s \o t)[i] = s[i]
    BY <2>1, <2>2, <2>3
  <2>5. \A i \in DOMAIN t : i + Len(s) \in DOMAIN (s \o t) /\ (s \o t)[i + Len(s)] = t[i]
    <3> SUFFICES ASSUME NEW i \in 1..Len(t)
                 PROVE  i + Len(s) \in DOMAIN (s \o t) /\ (s \o t)[i + Len(s)] = t[i]
      BY <2>1
    <3>1. i + Len(s) \in 1..Len(s) + Len(t) /\ ~(i + Len(s) <= Len(s)) /\ (i + Len(s)) - Len(s) = i
      BY <2>1
    <3> QED
      BY <2>2, <2>3, <3>1
  <2> QED
    BY <1>4, <2>4, <2>5 DEF In
<1>5. ASSUME NEW q \in Producers, NEW no, Waiting(q, no) PROVE Waiting(q, no)'
  <2>1. \/ In(pending[q], q, no) \/ In(queue[q], q, no) \/ \E w \in WriteWorkers : In(batch[w], q, no)
    BY <1>5, <1>b, WaitingParts
  <2>2. In(pending[q], q, no) \/ In(queue[q], q, no) => In(pending'[q], q, no) \/ In(queue'[q], q, no)
    <3>1. CASE q = p
      BY <1>0, <1>2, <1>4, <3>1
    <3>2. CASE q # p
      BY <1>2, <1>3, <3>2
    <3> QED
      BY <3>1, <3>2
  <2>3. \/ In(pending'[q], q, no) \/ In(queue'[q], q, no) \/ \E w \in WriteWorkers : In(batch'[w], q, no)
    BY <1>1, <2>1, <2>2
  <2> QED
    BY <1>b, <2>3, WaitingParts
<1>6. \A m : Complete(m) => Complete(m)'
  BY <1>0, <1>1, WireStays
<1> QED
  BY <1>1, <1>5, <1>6, StillAccountedFor

\* The worker holds the message it has taken out of writeQueue.
LEMMA TakeKept ==
    ASSUME IInv, IInv', AllAccountedFor, NEW w \in WriteWorkers, HandleWrite_Take(w)
    PROVE  AllAccountedFor'
<1>0. WriteTypeOK
  BY DEF IInv, TypeOK
<1>b. batch \in [WriteWorkers -> Seq(Messages)] /\ batch' \in [WriteWorkers -> Seq(Messages)]
  BY DEF IInv, TypeOK, WriteTypeOK
<1>1. wire' = wire /\ issued' = issued /\ pending' = pending
  BY DEF HandleWrite_Take, notSend
<1>2. PICK p \in Producers :
        /\ queue[p] # <<>>
        /\ batch' = [batch EXCEPT ![w] = Append(batch[w], Head(queue[p]))]
        /\ queue' = [queue EXCEPT ![p] = Tail(queue[p])]
  BY DEF HandleWrite_Take
<1>3. queue'[p] = Tail(queue[p]) /\ \A q \in Producers : q # p => queue'[q] = queue[q]
  BY <1>0, <1>2 DEF WriteTypeOK
<1>4. batch'[w] = Append(batch[w], Head(queue[p])) /\ \A u \in WriteWorkers : u # w => batch'[u] = batch[u]
  BY <1>0, <1>2 DEF WriteTypeOK
<1>5. ASSUME NEW s \in Seq(Messages), s # <<>>, NEW b \in Seq(Messages), NEW q \in Producers, NEW no
      PROVE  /\ In(s, q, no) => In(Tail(s), q, no) \/ In(Append(b, Head(s)), q, no)
             /\ In(b, q, no) => In(Append(b, Head(s)), q, no)
  <2>1. /\ Len(s) \in Nat /\ Len(s) > 0 /\ Head(s) = s[1] /\ s[1] \in Messages
        /\ Tail(s) \in Seq(Messages) /\ Len(Tail(s)) = Len(s) - 1
        /\ \A i \in 1..Len(s) - 1 : Tail(s)[i] = s[i + 1]
    BY <1>5, FirstAndRest
  <2>2. PICK t \in Seq(Messages) : t = Tail(s)
    BY <2>1
  <2>3. PICK m \in Messages : m = Head(s)
    BY <2>1
  <2>4. DOMAIN t = 1..Len(s) - 1 /\ DOMAIN s = 1..Len(s) /\ DOMAIN b = 1..Len(b) /\ Len(b) \in Nat
    BY <2>1, <2>2, MessageSeq
  <2>5. PICK c \in Seq(Messages) : c = Append(b, m)
    BY JoinsSeq
  <2>6. DOMAIN c = 1..Len(b) + 1 /\ c[Len(b) + 1] = m /\ \A i \in 1..Len(b) : c[i] = b[i]
    BY <2>5, JoinsSeq, MessageSeq
  <2>7. In(b, q, no) => In(c, q, no)
    BY <2>4, <2>6 DEF In
  <2>8. In(s, q, no) => In(t, q, no) \/ In(c, q, no)
    <3> SUFFICES ASSUME NEW i \in 1..Len(s), s[i].from = q, s[i].no = no
                 PROVE  In(t, q, no) \/ In(c, q, no)
      BY <2>4 DEF In
    <3>1. CASE i = 1
      <4>1. Len(b) + 1 \in DOMAIN c /\ c[Len(b) + 1] = s[i]
        BY <2>1, <2>3, <2>4, <2>6, <3>1
      <4> QED
        BY <4>1 DEF In
    <3>2. CASE i # 1
      <4>1. i - 1 \in 1..Len(s) - 1 /\ (i - 1) + 1 = i
        BY <2>1, <3>2
      <4>2. i - 1 \in DOMAIN t /\ t[i - 1] = s[i]
        BY <2>1, <2>2, <2>4, <4>1
      <4> QED
        BY <4>2 DEF In
    <3> QED
      BY <3>1, <3>2
  <2> QED
    BY <2>2, <2>3, <2>5, <2>7, <2>8
<1>6. ASSUME NEW q \in Producers, NEW no, Waiting(q, no) PROVE Waiting(q, no)'
  <2>0. queue[p] \in Seq(Messages) /\ queue[p] # <<>> /\ batch[w] \in Seq(Messages)
    BY <1>0, <1>2 DEF WriteTypeOK
  <2>1. \/ In(pending[q], q, no) \/ In(queue[q], q, no) \/ \E u \in WriteWorkers : In(batch[u], q, no)
    BY <1>6, <1>b, WaitingParts
  <2>2. In(queue[q], q, no) => In(queue'[q], q, no) \/ In(batch'[w], q, no)
    BY <1>3, <1>4, <1>5, <2>0
  <2>3. \A u \in WriteWorkers : In(batch[u], q, no) => In(batch'[u], q, no)
    BY <1>4, <1>5, <2>0
  <2>4. \/ In(pending'[q], q, no) \/ In(queue'[q], q, no) \/ \E u \in WriteWorkers : In(batch'[u], q, no)
    BY <1>1, <2>1, <2>2, <2>3
  <2> QED
    BY <1>b, <2>4, WaitingParts
<1>7. \A m : Complete(m) => Complete(m)'
  BY <1>0, <1>1, WireStays
<1> QED
  BY <1>1, <1>6, <1>7, StillAccountedFor

\* A worker lets go of a message that is on the wire to its last byte.
LEMMA NextMessageKept ==
    ASSUME IInv, IInv', AllAccountedFor, NEW w \in WriteWorkers, batch[w] # <<>>,
           batch' = [batch EXCEPT ![w] = Tail(batch[w])], Complete(batch[w][1]),
           UNCHANGED <<wire, issued, pending, queue>>
    PROVE  AllAccountedFor'
<1>0. WriteTypeOK /\ batch[w] \in Seq(Messages)
  BY DEF IInv, TypeOK, WriteTypeOK
<1>b. batch \in [WriteWorkers -> Seq(Messages)] /\ batch' \in [WriteWorkers -> Seq(Messages)]
  BY DEF IInv, TypeOK, WriteTypeOK
<1>1. batch'[w] = Tail(batch[w]) /\ \A u \in WriteWorkers : u # w => batch'[u] = batch[u]
  BY <1>b
<1>2. PICK b \in Seq(Messages) : b = batch[w]
  BY <1>0
<1>3. /\ Len(b) \in Nat /\ Len(b) > 0 /\ b[1] \in Messages
      /\ Tail(b) \in Seq(Messages) /\ Len(Tail(b)) = Len(b) - 1
      /\ \A i \in 1..Len(b) - 1 : Tail(b)[i] = b[i + 1]
  BY <1>2, FirstAndRest
<1>4. PICK t \in Seq(Messages) : t = Tail(b)
  BY <1>3
<1>5. DOMAIN t = 1..Len(b) - 1 /\ DOMAIN b = 1..Len(b)
  BY <1>3, <1>4, MessageSeq
<1>6. \A m : Complete(m) => Complete(m)'
  BY <1>0, WireStays
<1>7. ASSUME NEW q \in Producers, NEW no, In(b, q, no)
      PROVE  In(t, q, no) \/ \E len \in Lengths : Complete(Message(q, no, len))
  <2>1. PICK i \in 1..Len(b) : b[i].from = q /\ b[i].no = no
    BY <1>5, <1>7 DEF In
  <2>2. CASE i = 1
    <3>1. b[1] = Message(q, no, b[1].len) /\ b[1].len \in Lengths
      BY <1>3, <2>1, <2>2 DEF Messages, Message
    <3>2. Complete(b[1])
      BY <1>2
    <3> QED
      BY <3>1, <3>2
  <2>3. CASE i # 1
    <3>1. i - 1 \in 1..Len(b) - 1 /\ (i - 1) + 1 = i
      BY <1>3, <2>3
    <3>2. i - 1 \in DOMAIN t /\ t[i - 1] = b[i]
      BY <1>3, <1>4, <1>5, <3>1
    <3> QED
      BY <2>1, <3>2 DEF In
  <2> QED
    BY <2>2, <2>3
<1>8. ASSUME NEW q \in Producers, NEW no, Waiting(q, no)
      PROVE  Waiting(q, no)' \/ \E len \in Lengths : Complete(Message(q, no, len))'
  <2>1. \/ In(pending[q], q, no) \/ In(queue[q], q, no) \/ \E u \in WriteWorkers : In(batch[u], q, no)
    BY <1>8, <1>b, WaitingParts
  <2>2. CASE \E len \in Lengths : Complete(Message(q, no, len))
    BY <1>6, <2>2
  <2>3. CASE ~\E len \in Lengths : Complete(Message(q, no, len))
    <3>1. \A u \in WriteWorkers : In(batch[u], q, no) => In(batch'[u], q, no)
      BY <1>1, <1>2, <1>4, <1>7, <2>3
    <3>2. \/ In(pending'[q], q, no) \/ In(queue'[q], q, no) \/ \E u \in WriteWorkers : In(batch'[u], q, no)
      BY <2>1, <3>1
    <3> QED
      BY <1>b, <3>2, WaitingParts
  <2> QED
    BY <2>2, <2>3
<1> QED
  BY <1>6, <1>8, StillAccountedFor
\* A send that takes everything completes the message.
LEMMA WholeSendKept ==
    ASSUME IInv, IInv', AllAccountedFor, NEW w \in WriteWorkers, SendBytes_Send(w), WholeInv(w), ~partial'
    PROVE  AllAccountedFor' /\ WholeInv(w)' /\ \A m : Complete(m) => Complete(m)'
<1>0. WriteTypeOK /\ BatchInv /\ batch[w] \in Seq(Messages) /\ left[w] \in Nat
  BY DEF IInv, TypeOK, WriteTypeOK
<1>b. batch \in [WriteWorkers -> Seq(Messages)] /\ batch' \in [WriteWorkers -> Seq(Messages)]
  BY DEF IInv, TypeOK, WriteTypeOK
<1>1. /\ wpc[w] = "send" /\ wpc' = [wpc EXCEPT ![w] = "test"] /\ batch[w] # <<>>
      /\ batch' = batch /\ queue' = queue /\ issued' = issued /\ pending' = pending
  BY <1>0 DEF SendBytes_Send, WriteGoto, BatchInv, notSend
<1>2. PICK n \in 1..left[w] : SendBytes_Accepted(w, n)
  BY DEF SendBytes_Send
<1>3. n = left[w] /\ n \in Nat /\ n > 0
  <2>1. partial' = (partial \/ n < left[w])
    BY <1>2 DEF SendBytes_Accepted
  <2>2. ~(n < left[w])
    BY <2>1, Zenon
  <2> QED
    BY <1>0, <2>2
<1>4. PICK m \in Messages : m = batch[w][1] /\ m = Head(batch[w])
  BY <1>0, <1>1, FirstAndRest
<1>5. left[w] = m.len /\ m.len \in Nat
  BY <1>1, <1>4, MessageFields DEF WholeInv, Sending
<1>6. /\ wire' = wire \o [i \in 1..n |-> [msg |-> m, byte |-> 0 + i]]
      /\ sent'[w] = n /\ left'[w] = left[w]
  <2>1. m.len - left[w] = 0
    BY <1>5
  <2> QED
    BY <1>0, <1>2, <1>3, <1>4, <2>1 DEF SendBytes_Accepted, WriteTypeOK
<1>7. PICK l \in Nat : l = Len(wire) /\ DOMAIN wire = 1..l
  BY <1>0, WireMessages
<1>8. /\ DOMAIN wire' = 1..l + n
      /\ \A k \in 1..l : wire'[k] = wire[k]
      /\ \A k \in 1..l + n : k > l => wire'[k] = [msg |-> m, byte |-> 0 + (k - l)]
  BY <1>0, <1>3, <1>6, <1>7, WireGrows
<1>9. \A x : Complete(x) => Complete(x)'
  <2>1. \A k \in 1..l : k \in 1..l + n
    BY <1>3
  <2> QED
    BY <1>7, <1>8, <2>1 DEF Complete
<1>10. Complete(m)'
  <2>1. l + n \in 1..l + n /\ l + n > l /\ 0 + ((l + n) - l) = m.len
    BY <1>3, <1>5
  <2>2. wire'[l + n] = [msg |-> m, byte |-> m.len]
    BY <1>8, <2>1
  <2> QED
    BY <1>8, <2>1, <2>2 DEF Complete
<1>11. WholeInv(w)'
  <2>1. left'[w] = batch'[w][1].len /\ sent'[w] = left'[w] /\ batch'[w][1] = m
    BY <1>1, <1>3, <1>4, <1>5, <1>6
  <2> QED
    BY <1>10, <2>1 DEF WholeInv
<1>12. ASSUME NEW q \in Producers, NEW no, Waiting(q, no) PROVE Waiting(q, no)'
  BY <1>1, <1>12 DEF Waiting
<1> QED
  BY <1>1, <1>9, <1>11, <1>12, StillAccountedFor

\* Every step keeps the messages accounted for.
LEMMA NextKept == IInv /\ IInv' /\ OrderInv /\ KeptInv /\ [Next]_vars => KeptInv'
<1> SUFFICES ASSUME IInv, IInv', OrderInv, KeptInv, [Next]_vars, IsActive', ~partial'
             PROVE  AllAccountedFor' /\ \A u \in WriteWorkers : WholeInv(u)'
  BY DEF KeptInv
<1>0. IsActive /\ ~partial /\ AllAccountedFor /\ \A u \in WriteWorkers : WholeInv(u)
  BY Downhill DEF KeptInv
<1>t. WriteTypeOK /\ BatchInv
  BY DEF IInv, TypeOK
<1>1. ASSUME UNCHANGED <<batch, wire, issued, pending, queue>>,
             \A u \in WriteWorkers : \/ ~Sending(u)'
                                     \/ wpc'[u] = wpc[u] /\ left'[u] = left[u] /\ sent'[u] = sent[u]
      PROVE  AllAccountedFor' /\ \A u \in WriteWorkers : WholeInv(u)'
  <2>1. AllAccountedFor' /\ \A m : Complete(m) => Complete(m)'
    BY <1>0, <1>1, IdleKept
  <2> QED
    BY <1>0, <1>1, <2>1, StillWhole DEF WholeInv
<1>2. CASE \/ PeerSend \/ PeerClose \/ NotifyStop \/ Destroy_Begin \/ Destroy_Finish \/ UNCHANGED vars
           \/ \E r \in ReadWorkers : ReadData(r)
  <2>1. UNCHANGED <<sendVars, queueVars>>
    BY <1>2 DEF PeerSend, PeerClose, NotifyStop, Destroy_Begin, Destroy_Finish, vars, ReadData,
       ReadData_Enter, ReadData_TryLock, ReadData_Recv, ReadData_Check, ReadData_Listen, notRead,
       notSend, queueVars
  <2> QED
    BY <1>1, <2>1 DEF sendVars, queueVars
<1>3. ASSUME NEW p \in Producers, QueueWrite_Check(p) \/ QueueWrite_Enqueue(p)
      PROVE  AllAccountedFor' /\ \A u \in WriteWorkers : WholeInv(u)'
  <2>1. AllAccountedFor'
    BY <1>0, <1>3, CheckKept, EnqueueKept
  <2>2. UNCHANGED sendVars
    BY <1>3 DEF QueueWrite_Check, QueueWrite_Enqueue
  <2>3. \A m : Complete(m) => Complete(m)'
    BY <1>t, <2>2, WireStays DEF sendVars
  <2> QED
    BY <1>0, <2>1, <2>2, <2>3, StillWhole DEF sendVars
<1>4. ASSUME NEW w \in WriteWorkers, HandleWriteQueue(w)
      PROVE  AllAccountedFor' /\ \A u \in WriteWorkers : WholeInv(u)'
  <2>w. ASSUME NEW from, Continue(w, from, batch[w]),
               UNCHANGED <<wire, left, sent, issued, pending, queue>>
        PROVE  AllAccountedFor' /\ \A u \in WriteWorkers : WholeInv(u)'
    <3>1. batch' = batch
      BY <1>t, <2>w DEF Continue, WriteTypeOK
    <3>2. \A u \in WriteWorkers : ~Sending(u)' \/ wpc'[u] = wpc[u]
      BY <1>t, <2>w DEF Continue, WriteGoto, WriteTypeOK, Sending
    <3> QED
      BY <1>1, <2>w, <3>1, <3>2
  <2>1. CASE HandleWrite_Enter(w) \/ HandleWrite_Size(w) \/ HandleWrite_TryLock(w)
    <3>1. UNCHANGED <<batch, wire, left, sent, issued, pending, queue>>
      BY <2>1 DEF HandleWrite_Enter, HandleWrite_Size, HandleWrite_TryLock, notSend
    <3>2. \A u \in WriteWorkers : ~Sending(u)' \/ wpc'[u] = wpc[u]
      BY <1>t, <2>1 DEF HandleWrite_Enter, HandleWrite_Size, HandleWrite_TryLock, WriteGoto,
         WriteTypeOK, Sending
    <3> QED
      BY <1>1, <3>1, <3>2
  <2>2. CASE HandleWrite_Take(w)
    <3>1. AllAccountedFor'
      BY <1>0, <2>2, TakeKept
    <3>2. wpc[w] = "dequeue" /\ UNCHANGED <<wpc, left, sent, wire>>
      BY <2>2 DEF HandleWrite_Take
    <3>3. \A u \in WriteWorkers : u # w => batch'[u] = batch[u]
      BY <1>t, <2>2 DEF HandleWrite_Take, WriteTypeOK
    <3>4. \A m : Complete(m) => Complete(m)'
      BY <1>t, <3>2, WireStays
    <3>5. WholeInv(w)'
      BY <3>2 DEF WholeInv, Sending
    <3> QED
      BY <1>0, <3>1, <3>2, <3>3, <3>4, <3>5, StillWhole
  <2>3. CASE HandleWrite_Dequeued(w)
    <3>1. Continue(w, "dequeue", batch[w]) /\ UNCHANGED <<wire, left, sent, issued, pending, queue>>
      BY <2>3 DEF HandleWrite_Dequeued, notSend
    <3> QED
      BY <2>w, <3>1
  <2>4. CASE SendBytes_Enter(w)
    <3>1. /\ wpc' = [wpc EXCEPT ![w] = "test"] /\ wpc[w] = "enter"
          /\ left' = [left EXCEPT ![w] = Head(batch[w]).len] /\ sent' = [sent EXCEPT ![w] = 0]
          /\ UNCHANGED <<batch, wire, issued, pending, queue>>
      BY <1>0, <2>4 DEF SendBytes_Enter, WriteGoto, notSend
    <3>2. AllAccountedFor' /\ \A m : Complete(m) => Complete(m)'
      BY <1>0, <3>1, IdleKept
    <3>3. WholeInv(w)'
      <4>1. batch[w] \in Seq(Messages) /\ batch[w] # <<>>
        BY <1>t, <3>1 DEF WriteTypeOK, BatchInv
      <4>2. Head(batch[w]) = batch[w][1]
        BY <4>1, FirstAndRest
      <4>3. left'[w] = batch'[w][1].len /\ sent'[w] = 0
        BY <1>t, <3>1, <4>2 DEF WriteTypeOK
      <4> QED
        BY <4>3 DEF WholeInv
    <3>4. \A u \in WriteWorkers : u # w => wpc'[u] = wpc[u] /\ left'[u] = left[u] /\ sent'[u] = sent[u]
      BY <1>t, <3>1 DEF WriteTypeOK
    <3> QED
      BY <1>0, <3>1, <3>2, <3>3, <3>4, StillWhole
  <2>5. CASE SendBytes_Test(w)
    <3>0. wpc[w] = "test" /\ batch[w] \in Seq(Messages) /\ batch[w] # <<>> /\ left[w] > 0
      BY <1>t, <2>5 DEF SendBytes_Test, Continue, WriteGoto, BatchInv, WriteTypeOK, OrderInv, SendInv, Sending
    <3>u. UNCHANGED <<left, sent, wire, issued, pending, queue>>
      BY <2>5 DEF SendBytes_Test, notSend
    <3>c. \A m : Complete(m) => Complete(m)'
      BY <1>t, <3>u, WireStays
    <3>1. CASE Unsigned(sent[w]) < left[w]
      <4>1. wpc' = [wpc EXCEPT ![w] = "send"] /\ batch' = batch
        BY <1>0, <2>5, <3>1 DEF SendBytes_Test, WriteGoto
      <4>2. AllAccountedFor'
        BY <1>0, <3>u, <4>1, IdleKept
      <4>3. wpc'[w] = "send" /\ \A u \in WriteWorkers : u # w => wpc'[u] = wpc[u]
        BY <1>t, <4>1 DEF WriteTypeOK
      <4>4. WholeInv(w)'
        BY <1>0, <3>0, <3>u, <4>1, <4>3 DEF WholeInv, Sending
      <4> QED
        BY <1>0, <3>c, <3>u, <4>1, <4>2, <4>3, <4>4, StillWhole
    <3>2. CASE ~(Unsigned(sent[w]) < left[w])
      <4>1. Continue(w, "test", Tail(batch[w]))
        BY <2>5, <3>2 DEF SendBytes_Test
      <4>2. Complete(batch[w][1])
        <5>1. sent[w] = 0 \/ Complete(batch[w][1])
          BY <1>0, <3>0 DEF WholeInv, Sending
        <5>2. Unsigned(0) = 0
          <6>1. batch[w][1] \in Messages
            BY <3>0, FirstAndRest
          <6>2. batch[w][1].len \in Lengths /\ batch[w][1].len \in Nat
            BY <6>1, MessageFields
          <6> QED
            BY <6>2, LengthsAreSizes DEF Unsigned
        <5> QED
          BY <3>0, <3>2, <5>1, <5>2
      <4>3. batch' = [batch EXCEPT ![w] = Tail(batch[w])]
        BY <4>1 DEF Continue
      <4>4. AllAccountedFor'
        BY <1>0, <3>0, <3>u, <4>2, <4>3, NextMessageKept
      <4>5. \A u \in WriteWorkers : u # w => wpc'[u] = wpc[u] /\ batch'[u] = batch[u]
        BY <1>t, <4>1 DEF Continue, WriteGoto, WriteTypeOK
      <4>6. WholeInv(w)'
        BY <1>t, <4>1 DEF Continue, WriteGoto, WriteTypeOK, WholeInv, Sending
      <4> QED
        BY <1>0, <3>c, <3>u, <4>4, <4>5, <4>6, StillWhole
    <3> QED
      BY <3>1, <3>2
  <2>6. CASE SendBytes_Send(w)
    <3>1. AllAccountedFor' /\ WholeInv(w)' /\ \A m : Complete(m) => Complete(m)'
      BY <1>0, <2>6, WholeSendKept
    <3>2. \A u \in WriteWorkers : u # w => /\ wpc'[u] = wpc[u] /\ batch'[u] = batch[u]
                                           /\ left'[u] = left[u] /\ sent'[u] = sent[u]
      BY <1>t, <2>6 DEF SendBytes_Send, SendBytes_Accepted, WriteGoto, WriteTypeOK
    <3> QED
      BY <1>0, <3>1, <3>2, StillWhole
  <2>7. CASE SendBytes_Fail(w)
    BY <2>7 DEF SendBytes_Fail, IsActive
  <2> QED
    BY <1>4, <2>1, <2>2, <2>3, <2>4, <2>5, <2>6, <2>7 DEF HandleWriteQueue
<1> QED
  BY <1>2, <1>3, <1>4 DEF Next

\* As long as the channel is active and no send fell short, every message
\* handed to queueWrite waits with its producer, in writeQueue or with the one
\* worker that has the lock, or is on the wire to its last byte.
THEOREM NothingIsLost == Spec => []NoMessageLost
<1>1. KeptInv => NoMessageLost
  BY DEF KeptInv, NoMessageLost
<1> QED
  BY <1>1, InitOrder, NextOrder, NextKept, Invariance, PTL DEF Spec
=============================================================================
