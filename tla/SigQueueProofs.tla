--------------------------- MODULE SigQueueProofs ---------------------------
(***************************************************************************)
(* Proofs about SigQueue, for every ring length, every number of threads   *)
(* and subscribers and every assignment of readers to subscribers.  The    *)
(* theorems assume that ids fit in the type they are stored in (IdsFit).   *)
(***************************************************************************)
EXTENDS SigQueue, TLAPS

-----------------------------------------------------------------------------
(***************************************************************************)
(* The ring's index arithmetic.                                            *)
(***************************************************************************)

\* Of the constructor's condition on N the proofs need only its range.
LEMMA NRange == N \in Nat /\ N >= 4
  BY NAssumption

\* A slot index is in the ring, and an id is its lap times N plus its slot.
LEMMA IndexRange ==
    ASSUME NEW id \in Nat
    PROVE  /\ Index(id) \in 0..(N - 1)
           /\ id \div N \in Nat
           /\ id = N * (id \div N) + Index(id)
  <1>1. id % N \in 0..(N - 1)
    BY NRange
  <1>2. id \div N \in Nat
    BY NRange
  <1>3. id = N * (id \div N) + (id % N)
    BY NRange
  <1> QED BY <1>1, <1>2, <1>3 DEF Index

\* Lap and slot are determined by the id: the slot of N * lap + i is i.
LEMMA IndexUnique ==
    ASSUME NEW lap \in Nat, NEW i \in 0..(N - 1)
    PROVE  Index(N * lap + i) = i
  <1> DEFINE id == N * lap + i
             p == id \div N
             j == Index(id)
  <1>1. id \in Nat
    BY NRange
  <1>2. id = N * p + j /\ p \in Nat /\ j \in 0..(N - 1)
    BY <1>1, IndexRange
  <1>3. N * lap + i = N * p + j
    BY <1>2
  <1> HIDE DEF id, p, j
  <1>4. ASSUME NEW a \in Nat, NEW b \in Nat, NEW c \in 0..(N - 1),
               NEW d \in 0..(N - 1), N * a + c = N * b + d
        PROVE  ~(a < b)
    <2> SUFFICES ASSUME a < b PROVE FALSE
      OBVIOUS
    <2>1. PICK k \in Nat : b = a + k /\ k >= 1
      <3>1. b - a \in Nat /\ b = a + (b - a) /\ b - a >= 1
        OBVIOUS
      <3> QED BY <3>1
    <2>2. N * b = N * a + N * k /\ N * k >= N
      BY <2>1, NRange
    <2>3. N * a \in Nat /\ N * b \in Nat /\ N * k \in Nat
      BY <2>1, NRange
    <2> QED BY <1>4, <2>2, <2>3, NRange
  <1>5. ~(lap < p) /\ ~(p < lap)
    BY <1>2, <1>3, <1>4
  <1>6. lap = p
    BY <1>2, <1>5
  <1>7. N * p \in Nat
    BY <1>2, NRange
  <1> QED BY <1>2, <1>3, <1>6, <1>7 DEF j, id

\* Fewer than N ids apart, two ids never share a slot; N apart, they do.
LEMMA IndexSum ==
    ASSUME NEW id \in Nat, NEW k \in 1..N
    PROVE  IF Index(id) + k < N
           THEN Index(id + k) = Index(id) + k
           ELSE Index(id + k) = Index(id) + k - N
  <1> DEFINE lap == id \div N
             i == Index(id)
  <1>1. lap \in Nat /\ i \in 0..(N - 1) /\ id = N * lap + i
    BY IndexRange
  <1> HIDE DEF lap, i
  <1>2. N * lap \in Nat /\ N * (lap + 1) = N * lap + N
    BY <1>1, NRange
  <1>3. CASE i + k < N
    <2>1. i + k \in 0..(N - 1) /\ id + k = N * lap + (i + k)
      BY <1>1, <1>2, <1>3, NRange
    <2>2. Index(N * lap + (i + k)) = i + k
      BY <1>1, <2>1, IndexUnique
    <2> QED BY <1>3, <2>1, <2>2 DEF i
  <1>4. CASE ~(i + k < N)
    <2>1. i + k - N \in 0..(N - 1) /\ id + k = N * (lap + 1) + (i + k - N)
      BY <1>1, <1>2, <1>4, NRange
    <2>2. Index(N * (lap + 1) + (i + k - N)) = i + k - N
      BY <1>1, <2>1, IndexUnique
    <2> QED BY <1>4, <2>1, <2>2 DEF i
  <1> QED BY <1>3, <1>4

LEMMA IndexApart ==
    ASSUME NEW a \in Nat, NEW b \in Nat, a < b, b < a + N
    PROVE  Index(a) # Index(b)
  <1>1. b - a \in 1..N /\ b = a + (b - a) /\ b - a < N
    BY NRange
  <1>2. Index(a) \in 0..(N - 1)
    BY IndexRange
  <1>3. IF Index(a) + (b - a) < N
        THEN Index(a + (b - a)) = Index(a) + (b - a)
        ELSE Index(a + (b - a)) = Index(a) + (b - a) - N
    BY <1>1, IndexSum
  <1>4. a + (b - a) = b
    OBVIOUS
  <1> QED BY <1>1, <1>2, <1>3, <1>4, NRange

LEMMA IndexLap ==
    ASSUME NEW id \in Nat
    PROVE  Index(id + N) = Index(id)
  <1>1. N \in 1..N /\ Index(id) \in 0..(N - 1)
    BY IndexRange, NRange
  <1> QED BY <1>1, IndexSum, NRange

\* The slot after that of an id is the slot of the next id.
LEMMA NextIndexIsIndex ==
    ASSUME NEW id \in Nat
    PROVE  NextIndex(Index(id)) = Index(id + 1)
  <1>1. 1 \in 1..N /\ Index(id) \in 0..(N - 1)
    BY IndexRange, NRange
  <1>2. ASSUME Index(id) + 1 < N
        PROVE  Index(Index(id) + 1) = Index(id) + 1
    <2>1. Index(id) + 1 \in 0..(N - 1)
      BY <1>1, <1>2, NRange
    <2>2. Index(N * 0 + (Index(id) + 1)) = Index(id) + 1
      BY <2>1, IndexUnique
    <2>3. N * 0 + (Index(id) + 1) = Index(id) + 1
      BY <1>1, NRange
    <2> QED BY <2>2, <2>3
  <1>3. ASSUME ~(Index(id) + 1 < N)
        PROVE  Index(Index(id) + 1) = 0
    <2>1. Index(id) + 1 = N * 1 + 0
      BY <1>1, <1>3, NRange
    <2>2. Index(N * 1 + 0) = 0
      BY IndexUnique, NRange
    <2> QED BY <2>1, <2>2
  <1>4. NextIndex(Index(id)) = Index(Index(id) + 1)
    BY DEF NextIndex, Index
  <1> QED BY <1>1, <1>2, <1>3, <1>4, IndexSum, NRange

-----------------------------------------------------------------------------
(***************************************************************************)
(* Type correctness.                                                       *)
(***************************************************************************)

LEMMA InitTypeOK == Init => TypeOK
  <1> SUFFICES ASSUME Init PROVE TypeOK
    OBVIOUS
  <1>1. 0 \in 0..(IdMod - 1)
    BY ConstAssumption
  <1>2. queue \in [0..(N - 1) -> Slot]
    BY <1>1 DEF Init, Slot
  <1> QED BY <1>2, NRange, ConstAssumption DEF Init, TypeOK

\* Every action of the queue keeps the types.
LEMMA NextTypeOK == TypeOK /\ [Next]_vars => TypeOK'
  <1> SUFFICES ASSUME TypeOK, [Next]_vars PROVE TypeOK'
    OBVIOUS
  <1>1. ASSUME NEW s \in Subscribers, InitializeSubscriber(s) PROVE TypeOK'
    <2>1. sig_id' \in [Subscribers -> Nat]
      BY <1>1 DEF TypeOK, InitializeSubscriber
    <2> QED BY <1>1, <2>1 DEF TypeOK, InitializeSubscriber, ringVars
  <1>2. ASSUME NEW s \in Subscribers, InterruptDequeue(s) PROVE TypeOK'
    BY <1>2 DEF TypeOK, InterruptDequeue, NotifyAll, ringVars
  <1>3. ASSUME NEW p \in Publishers, QueueSignal(p) PROVE TypeOK'
    <2>1. PICK data \in Payloads :
            /\ queue' = [queue EXCEPT
                           ![head] = [sig_id |-> Stored(next_sig_id),
                                      payload |-> data],
                           ![NextIndex(head)].sig_id = 0]
            /\ log' = Append(log, data)
      BY <1>3 DEF QueueSignal
    <2>2. Stored(next_sig_id) \in 0..(IdMod - 1) /\ 0 \in 0..(IdMod - 1)
      BY ConstAssumption DEF TypeOK, Stored
    <2>3. NextIndex(head) \in 0..(N - 1) /\ NextIndex(tail) \in 0..(N - 1)
      BY NRange DEF TypeOK, NextIndex
    <2>4. queue' \in [0..(N - 1) -> Slot]
      BY <2>1, <2>2, <2>3 DEF TypeOK, Slot
    <2>5. log' \in Seq(Payloads)
      BY <2>1 DEF TypeOK
    <2>6. next_sig_id' \in 1..(MaxSig + 1)
      BY <1>3, ConstAssumption DEF TypeOK, QueueSignal
    <2>7. head' \in 0..(N - 1) /\ tail' \in 0..(N - 1)
      BY <1>3, <2>3 DEF TypeOK, QueueSignal
    <2>8. publisher' \in [Publishers -> {"idle", "notify"}]
      BY <1>3 DEF TypeOK, QueueSignal
    <2> QED BY <1>3, <2>4, <2>5, <2>6, <2>7, <2>8
            DEF TypeOK, QueueSignal, subVars
  <1>4. ASSUME NEW p \in Publishers, NotifyReaders(p) PROVE TypeOK'
    BY <1>4 DEF TypeOK, NotifyReaders, NotifyAll, ringVars, subVars
  <1>5. ASSUME NEW r \in Readers, Sleep(r) PROVE TypeOK'
    BY <1>5 DEF TypeOK, Sleep, ringVars, subVars
  <1>6. ASSUME NEW r \in Readers, GiveUp(r) PROVE TypeOK'
    BY <1>6 DEF TypeOK, GiveUp, ringVars
  <1>7. ASSUME NEW r \in Readers, StartDelivery(r) PROVE TypeOK'
    <2>1. TailSigId \in Nat
      <3>1. queue[tail] \in Slot
        BY DEF TypeOK
      <3>2. queue[tail].sig_id \in 0..(IdMod - 1)
        BY <3>1 DEF Slot
      <3> QED BY <3>2, ConstAssumption DEF TailSigId
    <2>2. SubOf[r] \in Subscribers /\ sig_id[SubOf[r]] \in Nat
      BY ConstAssumption DEF TypeOK
    <2>3. sig_id' \in [Subscribers -> Nat]
      BY <1>7, <2>1, <2>2 DEF TypeOK, StartDelivery
    <2>4. lost' \in [Readers -> Nat]
      BY <1>7, <2>1, <2>2 DEF TypeOK, StartDelivery
    <2> QED BY <1>7, <2>3, <2>4 DEF TypeOK, StartDelivery, ringVars
  <1>8. ASSUME NEW r \in Readers, SpuriousWakeup(r) PROVE TypeOK'
    BY <1>8 DEF TypeOK, SpuriousWakeup, ringVars, subVars
  <1>9. ASSUME NEW r \in Readers, Deliver(r) PROVE TypeOK'
    <2> DEFINE s == SubOf[r]
               signal == [id |-> sig_id[s],
                          payload |-> queue[Index(sig_id[s])].payload,
                          lost |-> lost[r]]
    <2>1. s \in Subscribers /\ sig_id[s] \in Nat
      BY ConstAssumption DEF TypeOK
    <2>2. Index(sig_id[s]) \in 0..(N - 1)
      BY <2>1, IndexRange
    <2>3. signal \in Delivery
      BY <2>1, <2>2 DEF TypeOK, Slot, Delivery
    <2>4. sig_id' \in [Subscribers -> Nat]
      BY <1>9, <2>1 DEF TypeOK, Deliver
    <2>5. \/ delivered' = delivered
          \/ delivered' = [delivered EXCEPT ![s] = Append(@, signal)]
      BY <1>9 DEF Deliver
    <2>6. Append(delivered[s], signal) \in Seq(Delivery)
      BY <2>1, <2>3 DEF TypeOK
    <2>7. delivered' \in [Subscribers -> Seq(Delivery)]
      BY <2>1, <2>5, <2>6 DEF TypeOK
    <2>8. /\ mutex' \in Readers \cup {Free}
          /\ reader' \in [Readers ->
                            {"idle", "waiting", "woken", "delivering"}]
      BY <1>9 DEF TypeOK, Deliver
    <2> QED BY <1>9, <2>4, <2>7, <2>8 DEF TypeOK, Deliver, ringVars
  <1>10. ASSUME NEW r \in Readers, CallDequeue(r) \/ ResumeDequeue(r)
         PROVE  TypeOK'
    BY <1>5, <1>6, <1>7, <1>10 DEF CallDequeue, ResumeDequeue, LockAndCheck
  <1>11. CASE UNCHANGED vars
    BY <1>11 DEF TypeOK, vars, ringVars, subVars
  <1> QED BY <1>1, <1>2, <1>3, <1>4, <1>8, <1>9, <1>10, <1>11 DEF Next

\* Every variable of the queue, its subscribers and its threads has its type in
\* every reachable state; cursors and loss counts never become negative.
THEOREM TypeCorrect == Spec => []TypeOK
  <1> QED BY InitTypeOK, NextTypeOK, PTL DEF Spec
=============================================================================
