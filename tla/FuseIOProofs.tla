---------------------------- MODULE FuseIOProofs ----------------------------
(***************************************************************************)
(* Proofs about FuseIO, for every ring, any buffers, any number of         *)
(* workers, readers, publishers and descriptors.                           *)
(***************************************************************************)
EXTENDS FuseIO, FiniteSetTheorems, TLAPS

-----------------------------------------------------------------------------
(***************************************************************************)
(* Types.                                                                  *)
(***************************************************************************)
USE DEF queueVars, writeVars, requestVars, replyVars, countVars

\* The initial states are well typed.
LEMMA InitType == Init => TypeOK
  BY IOAssumption DEF Init, TypeOK, Ids, Signals, Garbage

\* So are the states after a write was sent.
LEMMA WriteType ==
    ASSUME TypeOK, NEW w \in Publishers, Write(w) PROVE TypeOK'
  <1> USE IOAssumption
  <1>1. PICK records \in Buffers : buffer' = [buffer EXCEPT ![w] = records]
    BY DEF Write
  <1>2. buffer' \in [Publishers -> Seq(Nat)]
    BY <1>1 DEF TypeOK
  <1>3. writer' \in [Publishers -> {"idle", "asked", "writing"}]
    BY DEF TypeOK, Write
  <1>4. pending' \in Seq(Publishers \cup Readers)
    <2> DEFINE Requests == Publishers \cup Readers
    <2>1. pending \in Seq(Requests) /\ w \in Requests
      BY DEF TypeOK
    <2> HIDE DEF Requests
    <2>2. Append(pending, w) \in Seq(Requests)
      BY <2>1
    <2> QED BY <2>2 DEF Write, Requests
  <1> QED BY <1>2, <1>3, <1>4 DEF TypeOK, Write

\* After a read was sent, or a step of an interrupt.
LEMMA KernelType ==
    ASSUME TypeOK, NEW r \in Readers,
           Read(r) \/ Interrupt(r) \/ TakeInterrupt(r) \/ ReadInterrupt(r)
    PROVE  TypeOK'
  <1> USE IOAssumption
  <1>1. CASE Read(r)
    <2>1. PICK bytes \in Rooms : room' = [room EXCEPT ![r] = bytes]
      BY <1>1 DEF Read
    <2>2. room' \in [Readers -> Nat]
      BY <2>1 DEF TypeOK
    <2>3. pending' \in Seq(Publishers \cup Readers)
      <3> DEFINE Requests == Publishers \cup Readers
      <3>1. pending \in Seq(Requests) /\ r \in Requests
        BY DEF TypeOK
      <3> HIDE DEF Requests
      <3>2. Append(pending, r) \in Seq(Requests)
        BY <3>1
      <3> QED BY <1>1, <3>2 DEF Read, Requests
    <2> QED BY <1>1, <2>2, <2>3 DEF TypeOK, Read
  <1>2. CASE Interrupt(r)
    <2>1. interrupts' \in [Subscribers -> 0..MaxInterrupts]
      BY <1>2 DEF TypeOK, Interrupt
    <2> QED BY <1>2, <2>1 DEF TypeOK, Interrupt
  <1>3. CASE TakeInterrupt(r)
    <2>1. interrupter' \in [Readers -> {"none", "sent", "calling", "done"}]
      BY <1>3 DEF TypeOK, TakeInterrupt
    <2> QED BY <1>3, <2>1 DEF TypeOK, TakeInterrupt
  <1>4. CASE ReadInterrupt(r)
    BY <1>4 DEF TypeOK, ReadInterrupt
  <1> QED BY <1>1, <1>2, <1>3, <1>4

\* After a worker took a request.
LEMMA TakeRequestType ==
    ASSUME TypeOK, TakeRequest PROVE TypeOK'
  <1>1. Head(pending) \in Publishers \cup Readers
    BY DEF TypeOK, TakeRequest
  <1>2. pending' \in Seq(Publishers \cup Readers)
    BY DEF TypeOK, TakeRequest
  <1>3. /\ writer' \in [Publishers -> {"idle", "asked", "writing"}]
        /\ reader' \in [Readers -> {"idle", "asked", "registering", "interrupting",
                                    "dequeuing", "abandoning", "clearing",
                                    "replying"}]
    BY <1>1 DEF TypeOK, TakeRequest
  <1> QED BY <1>2, <1>3 DEF TypeOK, TakeRequest

\* After a step of do_write.
LEMMA DoWriteType ==
    ASSUME TypeOK, NEW w \in Publishers, DoWrite(w) PROVE TypeOK'
  <1>1. CASE QueueSignal(w)
    <2>1. buffer[w] \in Seq(Nat) /\ buffer[w] # <<>>
      BY <1>1 DEF TypeOK, QueueSignal
    <2>2. Head(buffer[w]) \in Nat /\ Tail(buffer[w]) \in Seq(Nat)
      BY <2>1
    <2>3. size' \in Seq(Nat)
      BY <1>1, <2>2 DEF TypeOK, QueueSignal
    <2>4. buffer' \in [Publishers -> Seq(Nat)]
      BY <1>1, <2>2 DEF TypeOK, QueueSignal
    <2> QED BY <1>1, <2>3, <2>4 DEF TypeOK, QueueSignal
  <1>2. CASE AnswerWrite(w)
    <2>1. <<>> \in Seq(Nat)
      OBVIOUS
    <2>2. buffer' \in [Publishers -> Seq(Nat)]
      BY <1>2, <2>1 DEF TypeOK, AnswerWrite
    <2> QED BY <1>2, <2>2 DEF TypeOK, AnswerWrite
  <1> QED BY <1>1, <1>2 DEF DoWrite

\* The signals of one reply are consecutive, and as many as the cursor moves.
LEMMA TakenIsInterval ==
    ASSUME NEW first \in Nat, NEW bytes, Len(size) \in Nat
    PROVE  /\ Cardinality(Taken(first, bytes)) \in Nat
           /\ Taken(first, bytes) = first..(Cursor(first, Taken(first, bytes)) - 1)
  <1> DEFINE taken == Taken(first, bytes)
             last == Len(size)
             c == Cardinality(taken)
  <1>1. IsFiniteSet(first..last) /\ taken \subseteq first..last
    BY FS_Interval DEF Taken, next_sig_id, taken
  <1> HIDE DEF taken
  <1>2. IsFiniteSet(taken) /\ c \in Nat
    <2>1. IsFiniteSet(taken)
      BY <1>1, FS_Subset
    <2> QED BY <2>1, FS_CardinalityType
  <1>3. ASSUME NEW id \in taken PROVE first..id \subseteq taken
    BY <1>1, <1>3, IOAssumption DEF Taken, next_sig_id, taken
  <1>4. ASSUME NEW id \in taken PROVE id < first + c
    <2>1. Cardinality(first..id) = id - first + 1
      BY <1>1, FS_Interval
    <2>2. Cardinality(first..id) <= c
      BY <1>2, <1>3, FS_Subset
    <2> QED BY <1>1, <1>2, <2>1, <2>2
  <1>5. taken \subseteq first..(first + c - 1)
    BY <1>1, <1>2, <1>4
  <1>6. /\ IsFiniteSet(first..(first + c - 1))
        /\ Cardinality(first..(first + c - 1)) = c
    <2> DEFINE b == first + c - 1
    <2>1. c \in Nat /\ b \in Int /\ b - first + 1 = c /\ (first > b <=> c = 0)
      BY <1>2
    <2> HIDE DEF c, b
    <2>2. /\ IsFiniteSet(first..b)
          /\ Cardinality(first..b) = IF first > b THEN 0 ELSE b - first + 1
      BY <2>1, FS_Interval
    <2>3. Cardinality(first..b) = c
      BY <2>1, <2>2
    <2> QED BY <2>2, <2>3 DEF b
  <1>7. taken = first..(first + c - 1)
    BY <1>5, <1>6, FS_Subset
  <1> QED BY <1>2, <1>7 DEF Cursor, taken

\* The first signal that a read takes, when its cursor is caught up.
First(s) == IF sig_id[s] < Oldest THEN Oldest ELSE sig_id[s]

\* It has an id, and so have the signals that are taken.
LEMMA DequeueTypes ==
    ASSUME TypeOK, NEW s \in Subscribers, NEW bytes
    PROVE  /\ First(s) \in Ids
           /\ Taken(First(s), bytes) \subseteq Ids
           /\ Cursor(First(s), Taken(First(s), bytes)) \in Ids
           /\ Taken(First(s), bytes)
                = First(s)..(Cursor(First(s), Taken(First(s), bytes)) - 1)
  <1>1. sig_id[s] \in Ids /\ Len(size) \in Nat
    BY DEF TypeOK
  <1>2. First(s) \in Ids
    BY <1>1, IOAssumption DEF First, Oldest, next_sig_id, Ids
  <1> HIDE DEF First
  <1>3. /\ Cardinality(Taken(First(s), bytes)) \in Nat
        /\ Taken(First(s), bytes)
             = First(s)..(Cursor(First(s), Taken(First(s), bytes)) - 1)
    BY <1>1, <1>2, TakenIsInterval DEF Ids
  <1> QED BY <1>2, <1>3 DEF Cursor, Ids

\* The ids of a batch, in their order.
Batch(first, taken) == [k \in 1..Cardinality(taken) |-> first + k - 1]

\* The history of a subscriber grows by the batch.
LEMMA DequeuedAppended ==
    ASSUME TypeOK, NEW r \in Readers, Dequeue(r)
    PROVE  LET s == SubOf[r]
               batch1 == Batch(First(s), Taken(First(s), room[r]))
           IN  /\ batch1 \in Seq(Ids)
               /\ dequeued[s] \o batch1 \in Seq(Ids)
               /\ dequeued' = [dequeued EXCEPT ![s] = dequeued[s] \o batch1]
  <1> DEFINE s == SubOf[r]
             taken == Taken(First(s), room[r])
             new == Batch(First(s), taken)
  <1>1. s \in Subscribers
    BY IOAssumption
  <1>2. dequeued' = [dequeued EXCEPT ![s] = @ \o new]
    BY DEF Dequeue, First, Batch
  <1> HIDE DEF s
  <1>3. First(s) \in Ids /\ Cardinality(taken) \in Nat
    <2>1. sig_id[s] \in Ids /\ Len(size) \in Nat
      BY <1>1 DEF TypeOK
    <2>2. First(s) \in Ids
      BY <2>1, IOAssumption DEF First, Oldest, next_sig_id, Ids
    <2> HIDE DEF First
    <2>3. First(s) \in Nat
      BY <2>2 DEF Ids
    <2> QED BY <2>1, <2>2, <2>3, TakenIsInterval
  <1> HIDE DEF taken
  <1>4. new \in Seq(Ids)
    BY <1>3 DEF Batch, Ids
  <1>5. dequeued[s] \in Seq(Ids)
    BY <1>1 DEF TypeOK
  <1> HIDE DEF new
  <1>6. dequeued[s] \o new \in Seq(Ids)
    BY <1>4, <1>5
  <1>7. dequeued' = [dequeued EXCEPT ![s] = dequeued[s] \o new]
    BY <1>1, <1>2 DEF TypeOK
  <1> QED BY <1>4, <1>6, <1>7 DEF new, taken, s

\* After the request was answered.
LEMMA EndRequestType ==
    ASSUME TypeOK, NEW r \in Readers, EndRequest(r)
    PROVE  /\ reader' \in [Readers -> {"idle", "asked", "registering",
                                       "interrupting", "dequeuing", "abandoning",
                                       "clearing", "replying"}]
           /\ func' \in [Readers -> BOOLEAN]
           /\ room' \in [Readers -> Nat]
           /\ interrupter' \in [Readers -> {"none", "sent", "calling", "done"}]
  BY DEF TypeOK, EndRequest

\* After a step of do_read.
LEMMA DoReadType ==
    ASSUME TypeOK, NEW r \in Readers, DoRead(r) PROVE TypeOK'
  <1> USE IOAssumption
  <1>1. CASE Register(r)
    BY <1>1 DEF TypeOK, Register
  <1>2. CASE InterruptSelf(r)
    BY <1>2 DEF TypeOK, InterruptSelf
  <1>3. CASE FindInterrupted(r)
    BY <1>3 DEF TypeOK, FindInterrupted
  <1>4. CASE Abandon(r)
    <2>1. eintrs' \in [Subscribers -> Nat]
      BY <1>4 DEF TypeOK, Abandon
    <2> QED BY <1>4, <2>1, EndRequestType DEF TypeOK, Abandon
  <1>5. CASE Dequeue(r)
    <2> DEFINE s == SubOf[r]
    <2>1. s \in Subscribers
      OBVIOUS
    <2> HIDE DEF s
    <2>2. /\ batch' = [batch EXCEPT ![r] = Taken(First(s), room[r])]
          /\ sig_id' = [sig_id EXCEPT
                          ![s] = Cursor(First(s), Taken(First(s), room[r]))]
      BY <1>5 DEF Dequeue, First, s
    <2>3. batch' \in [Readers -> SUBSET Ids] /\ sig_id' \in [Subscribers -> Ids]
      BY <2>1, <2>2, DequeueTypes DEF TypeOK
    <2>4. dequeued' \in [Subscribers -> Seq(Ids)]
      BY <1>5, <2>1, DequeuedAppended DEF TypeOK, s
    <2> QED BY <1>5, <2>3, <2>4 DEF TypeOK, Dequeue
  <1>6. CASE ClearFunc(r)
    BY <1>6 DEF TypeOK, ClearFunc
  <1>7. CASE Reply(r)
    <2>1. batch[r] \in SUBSET Ids /\ Len(size) \in Nat /\ SubOf[r] \in Subscribers
      BY DEF TypeOK
    <2>2. batch' \in [Readers -> SUBSET Ids]
      BY <1>7 DEF TypeOK, Reply
    <2>3. received' \in [Subscribers -> SUBSET Signals]
      <3>1. CASE UNCHANGED received
        BY <3>1 DEF TypeOK
      <3>2. CASE received' # received
        <4>1. PICK payload \in [batch[r] -> 0..Len(size)] :
                received' = [received EXCEPT ![SubOf[r]] =
                    @ \cup {[id |-> id, payload |-> payload[id]] : id \in batch[r]}]
          BY <1>7, <3>2 DEF Reply
        <4>2. ASSUME NEW id \in batch[r]
              PROVE  [id |-> id, payload |-> payload[id]] \in Signals
          BY <2>1 DEF Signals, Ids, Garbage
        <4> QED BY <2>1, <4>1, <4>2 DEF TypeOK
      <3> QED BY <3>1, <3>2
    <2>4. dropped' \in [Subscribers -> SUBSET Ids]
      <3>1. CASE UNCHANGED dropped
        BY <3>1 DEF TypeOK
      <3>2. CASE dropped' # dropped
        <4>1. dropped' = [dropped EXCEPT ![SubOf[r]] = @ \cup batch[r]]
          BY <1>7, <3>2 DEF Reply
        <4> QED BY <2>1, <4>1 DEF TypeOK
      <3> QED BY <3>1, <3>2
    <2> QED BY <1>7, <2>2, <2>3, <2>4, EndRequestType DEF TypeOK, Reply
  <1> QED BY <1>1, <1>2, <1>3, <1>4, <1>5, <1>6, <1>7 DEF DoRead

\* The step of any component keeps the types.
LEMMA TypeInv == TypeOK /\ [Next]_vars => TypeOK'
  <1>1. CASE UNCHANGED vars
    BY <1>1 DEF TypeOK, vars
  <1> QED BY <1>1, WriteType, KernelType, TakeRequestType, DoWriteType, DoReadType
          DEF Next

-----------------------------------------------------------------------------
(***************************************************************************)
(* The inductive invariant.                                                *)
(***************************************************************************)

\* A reader whose request no worker has taken yet waits in one place of pending.
Queued ==
    \A j \in 1..Len(pending) : pending[j] \in Readers =>
        /\ reader[pending[j]] = "asked"
        /\ \A k \in 1..Len(pending) : pending[k] = pending[j] => k = j

\* Where the parts of a request can be at the same time: its reader, the mutex
\* and the flag of its subscriber, its interrupt and its signals.
Phase(r) ==
    /\ reader[r] = "asked" => interrupter[r] = "none"
    /\ reader[r] = "interrupting" => interrupter[r] = "done"
    /\ mutex = r <=> reader[r] = "abandoning"
    /\ reader[r] = "abandoning" => interrupted[SubOf[r]]
    /\ batch[r] # {} => reader[r] \in {"clearing", "replying"}
    /\ func[r] <=>
         reader[r] \in {"interrupting", "dequeuing", "abandoning", "clearing"}
    /\ interrupter[r] = "calling" => func[r] /\ reader[r] # "interrupting"

Phases == \A r \in Readers : Phase(r)

\* The interrupts that have not set the flag of the subscriber yet.
IsDue(r) == \/ interrupter[r] \in {"sent", "calling"}
            \/ /\ interrupter[r] = "done"
               /\ reader[r] \in {"registering", "interrupting"}
Due(s) == {r \in Readers : SubOf[r] = s /\ IsDue(r)}

\* Every interrupt is still due, or set the flag, or ended a read, or came to
\* nothing.
Balance(ended, flag, due, sent) ==
    ended + (IF flag THEN 1 ELSE 0) + Cardinality(due) <= sent
Accounts ==
    \A s \in Subscribers :
        Balance(eintrs[s], interrupted[s], Due(s), interrupts[s])

IInv == TypeOK /\ Queued /\ Phases /\ Accounts /\ NothingVanishes

\* Requests are queued as they arrive, and leave when they are taken.
LEMMA QueuedInv == TypeOK /\ Queued /\ [Next]_vars => Queued'
  <1> SUFFICES ASSUME TypeOK, Queued, [Next]_vars PROVE Queued'
    OBVIOUS
  <1>1. ASSUME NEW w \in Publishers, Write(w) PROVE Queued'
    <2>1. /\ Len(pending') = Len(pending) + 1
          /\ \A j \in 1..Len(pending) : pending'[j] = pending[j]
          /\ pending'[Len(pending) + 1] = w
      <3>1. pending' = Append(pending, w)
        BY <1>1 DEF Write
      <3>2. pending \in Seq(Publishers \cup Readers)
        BY DEF TypeOK
      <3> QED BY <3>1, <3>2
    <2>2. reader' = reader /\ Len(pending) \in Nat
      <3>1. reader' = reader
        BY <1>1 DEF Write
      <3>2. Len(pending) \in Nat
        BY DEF TypeOK
      <3> QED BY <3>1, <3>2
    <2>3. w \notin Readers
      BY IOAssumption
    <2> QED BY <2>1, <2>2, <2>3 DEF Queued
  <1>2. ASSUME NEW r \in Readers, Read(r) PROVE Queued'
    <2>1. /\ Len(pending') = Len(pending) + 1
          /\ \A j \in 1..Len(pending) : pending'[j] = pending[j]
          /\ pending'[Len(pending) + 1] = r
      BY <1>2 DEF TypeOK, Read
    <2>2. Len(pending) \in Nat /\ reader[r] = "idle"
      BY <1>2 DEF TypeOK, Read
    <2>3. \A q \in Readers : reader'[q] = IF q = r THEN "asked" ELSE reader[q]
      BY <1>2 DEF TypeOK, Read
    <2> QED BY <2>1, <2>2, <2>3 DEF Queued
  <1>3. CASE TakeRequest
    <2>1. /\ Len(pending) \in Nat \ {0}
          /\ Len(pending') = Len(pending) - 1
          /\ \A j \in 1..Len(pending') : pending'[j] = pending[j + 1]
          /\ Head(pending) = pending[1]
      BY <1>3 DEF TypeOK, TakeRequest
    <2>2. \A q \in Readers \ {pending[1]} : reader'[q] = reader[q]
      BY <1>3, <2>1 DEF TypeOK, TakeRequest
    <2>3. SUFFICES ASSUME NEW j \in 1..Len(pending'), pending'[j] \in Readers
                   PROVE  /\ reader'[pending'[j]] = "asked"
                          /\ \A k \in 1..Len(pending') :
                               pending'[k] = pending'[j] => k = j
      BY DEF Queued
    <2>4. j + 1 \in 1..Len(pending) /\ 1 \in 1..Len(pending)
      BY <2>1
    <2>5. /\ reader[pending[j + 1]] = "asked"
          /\ \A k \in 1..Len(pending) : pending[k] = pending[j + 1] => k = j + 1
      BY <2>1, <2>3, <2>4 DEF Queued
    <2>6. pending[1] # pending[j + 1]
      BY <2>4, <2>5
    <2>7. \A k \in 1..Len(pending') : pending'[k] = pending'[j] => k = j
      BY <2>1, <2>5
    <2> QED BY <2>1, <2>2, <2>3, <2>5, <2>6, <2>7
  <1>4. ASSUME pending' = pending,
               \A q \in Readers : reader[q] = "asked" => reader'[q] = "asked"
        PROVE  Queued'
    BY <1>4 DEF Queued
  <1>5. ASSUME NEW w \in Publishers, DoWrite(w) PROVE Queued'
    BY <1>4, <1>5 DEF DoWrite, QueueSignal, AnswerWrite
  <1>6. ASSUME NEW r \in Readers,
               Interrupt(r) \/ TakeInterrupt(r) \/ ReadInterrupt(r)
        PROVE  Queued'
    BY <1>4, <1>6 DEF Interrupt, TakeInterrupt, ReadInterrupt
  <1>7. ASSUME NEW r \in Readers, DoRead(r) PROVE Queued'
    <2>1. /\ pending' = pending /\ reader[r] # "asked"
          /\ \A q \in Readers \ {r} : reader'[q] = reader[q]
      BY <1>7 DEF TypeOK, DoRead, Register, InterruptSelf, FindInterrupted,
                  Abandon, Dequeue, ClearFunc, Reply, EndRequest
    <2> QED BY <1>4, <2>1
  <1>8. CASE UNCHANGED vars
    BY <1>4, <1>8 DEF vars
  <1> QED BY <1>1, <1>2, <1>3, <1>5, <1>6, <1>7, <1>8 DEF Next

\* The request that is taken is one that was asked for.
LEMMA TakenWasAsked ==
    ASSUME TypeOK, Queued, TakeRequest
    PROVE  \/ UNCHANGED reader
           \/ \E r \in Readers :
                /\ reader[r] = "asked"
                /\ reader' = [reader EXCEPT ![r] = "registering"]
  <1>1. Len(pending) \in Nat \ {0} /\ Head(pending) = pending[1]
    BY DEF TypeOK, TakeRequest
  <1>2. pending[1] \in Readers => reader[pending[1]] = "asked"
    BY <1>1 DEF Queued
  <1> QED BY <1>1, <1>2 DEF TakeRequest

\* The parts of a request move together.
LEMMA PhasesInv == TypeOK /\ Queued /\ Phases /\ [Next]_vars => Phases'
  <1> SUFFICES ASSUME TypeOK, Queued, Phases, [Next]_vars, NEW q \in Readers
               PROVE  Phase(q)'
    BY DEF Phases
  <1>1. /\ Phase(q) /\ Free \notin Readers
        /\ mutex = Free => \A r \in Readers : reader[r] # "abandoning"
    BY FreeAssumption DEF Phases, Phase
  <1>2. ASSUME NEW w \in Publishers, Write(w) \/ DoWrite(w) PROVE Phase(q)'
    BY <1>1, <1>2 DEF Phase, Write, DoWrite, QueueSignal, AnswerWrite
  <1>3. CASE TakeRequest
    BY <1>1, <1>3, TakenWasAsked DEF TypeOK, Phase, TakeRequest
  <1>4. ASSUME NEW r \in Readers, Read(r) PROVE Phase(q)'
    BY <1>1, <1>4 DEF TypeOK, Phase, Read
  <1>5. ASSUME NEW r \in Readers, Interrupt(r) PROVE Phase(q)'
    BY <1>1, <1>5 DEF TypeOK, Phase, Interrupt, InDoRead
  <1>6. ASSUME NEW r \in Readers, TakeInterrupt(r) PROVE Phase(q)'
    BY <1>1, <1>6 DEF TypeOK, Phase, TakeInterrupt, InDoRead
  <1>7. ASSUME NEW r \in Readers, ReadInterrupt(r) PROVE Phase(q)'
    BY <1>1, <1>7 DEF TypeOK, Phase, ReadInterrupt
  <1>8. ASSUME NEW r \in Readers, Register(r) PROVE Phase(q)'
    BY <1>1, <1>8 DEF TypeOK, Phase, Register
  <1>9. ASSUME NEW r \in Readers, InterruptSelf(r) PROVE Phase(q)'
    BY <1>1, <1>9 DEF TypeOK, Phase, InterruptSelf
  <1>10. ASSUME NEW r \in Readers, FindInterrupted(r) PROVE Phase(q)'
    BY <1>1, <1>10 DEF TypeOK, Phase, FindInterrupted
  <1>11. ASSUME NEW r \in Readers, Abandon(r) PROVE Phase(q)'
    <2>1. Phase(r) /\ mutex = r
      BY <1>11 DEF Phases, Phase, Abandon
    <2>2. CASE q = r
      BY <1>1, <1>11, <2>1, <2>2 DEF TypeOK, Phase, Abandon, EndRequest, RequestLocked
    <2>3. CASE q # r
      BY <1>1, <1>11, <2>1, <2>3 DEF TypeOK, Phase, Abandon, EndRequest
    <2> QED BY <2>2, <2>3
  <1>12. ASSUME NEW r \in Readers, Dequeue(r) PROVE Phase(q)'
    BY <1>1, <1>12 DEF TypeOK, Phase, Dequeue
  <1>13. ASSUME NEW r \in Readers, ClearFunc(r) PROVE Phase(q)'
    BY <1>1, <1>13 DEF TypeOK, Phase, ClearFunc, RequestLocked
  <1>14. ASSUME NEW r \in Readers, Reply(r) PROVE Phase(q)'
    BY <1>1, <1>14 DEF TypeOK, Phase, Reply, EndRequest
  <1>15. CASE UNCHANGED vars
    BY <1>1, <1>15 DEF Phase, vars
  <1> QED BY <1>2, <1>3, <1>4, <1>5, <1>6, <1>7, <1>8, <1>9, <1>10, <1>11, <1>12,
             <1>13, <1>14, <1>15 DEF Next, DoRead

-----------------------------------------------------------------------------
(***************************************************************************)
(* Interrupts.                                                             *)
(***************************************************************************)

\* There are only so many interrupts that have not set the flag yet.
LEMMA DueFinite ==
    ASSUME NEW s
    PROVE  IsFiniteSet(Due(s)) /\ Cardinality(Due(s)) \in Nat
  <1>1. IsFiniteSet(Due(s))
    BY IOAssumption, FS_Subset DEF Due
  <1> QED BY <1>1, FS_CardinalityType

\* A balance is kept when no interrupt becomes due.
LEMMA BalanceKept ==
    ASSUME NEW ended \in Nat, NEW flag \in BOOLEAN, NEW due, IsFiniteSet(due),
           NEW sent \in Nat, Balance(ended, flag, due, sent),
           NEW fewer \in SUBSET due
    PROVE  Balance(ended, flag, fewer, sent)
  <1>1. /\ Cardinality(due) \in Nat /\ Cardinality(fewer) \in Nat
        /\ Cardinality(fewer) <= Cardinality(due)
    <2>1. IsFiniteSet(fewer) /\ Cardinality(fewer) <= Cardinality(due)
      BY FS_Subset
    <2> QED BY <2>1, FS_CardinalityType
  <1> QED BY <1>1 DEF Balance

\* An interrupt that becomes due is one more that was sent.
LEMMA BalanceSent ==
    ASSUME NEW ended \in Nat, NEW flag \in BOOLEAN, NEW due, IsFiniteSet(due),
           NEW sent \in Nat, Balance(ended, flag, due, sent), NEW r
    PROVE  Balance(ended, flag, due \cup {r}, sent + 1)
  <1>1. /\ Cardinality(due) \in Nat /\ Cardinality(due \cup {r}) \in Nat
        /\ Cardinality(due \cup {r}) <= Cardinality(due) + 1
    <2>1. /\ IsFiniteSet(due \cup {r})
          /\ Cardinality(due \cup {r}) =
               IF r \in due THEN Cardinality(due) ELSE Cardinality(due) + 1
      BY FS_AddElement
    <2>2. Cardinality(due) \in Nat
      BY FS_CardinalityType
    <2> QED BY <2>1, <2>2
  <1> QED BY <1>1 DEF Balance

\* An interrupt that was due sets the flag.
LEMMA BalanceFlag ==
    ASSUME NEW ended \in Nat, NEW flag \in BOOLEAN, NEW due, IsFiniteSet(due),
           NEW sent \in Nat, Balance(ended, flag, due, sent),
           NEW r \in due, NEW fewer \in SUBSET (due \ {r})
    PROVE  Balance(ended, TRUE, fewer, sent)
  <1>1. /\ Cardinality(due) \in Nat /\ Cardinality(fewer) \in Nat
        /\ Cardinality(fewer) + 1 <= Cardinality(due)
    <2>1. /\ IsFiniteSet(due \ {r})
          /\ Cardinality(due \ {r}) = Cardinality(due) - 1
      BY FS_RemoveElement
    <2>2. IsFiniteSet(fewer) /\ Cardinality(fewer) <= Cardinality(due \ {r})
      BY <2>1, FS_Subset
    <2>3. Cardinality(due) \in Nat /\ Cardinality(fewer) \in Nat
      BY <2>2, FS_CardinalityType
    <2> QED BY <2>1, <2>2, <2>3
  <1> QED BY <1>1 DEF Balance

\* No interrupt ends a read without being counted.
LEMMA AccountsInv ==
    TypeOK /\ Queued /\ Phases /\ Accounts /\ [Next]_vars => Accounts'
  <1> SUFFICES ASSUME TypeOK, Queued, Phases, Accounts, [Next]_vars,
                      NEW s \in Subscribers
               PROVE  Balance(eintrs'[s], interrupted'[s], Due(s)', interrupts'[s])
    BY DEF Accounts
  <1>1. /\ Balance(eintrs[s], interrupted[s], Due(s), interrupts[s])
        /\ eintrs[s] \in Nat /\ interrupted[s] \in BOOLEAN
        /\ interrupts[s] \in Nat /\ IsFiniteSet(Due(s))
    BY IOAssumption, DueFinite DEF Accounts, TypeOK
  <1> DEFINE Goal ==
        Balance(eintrs'[s], interrupted'[s], Due(s)', interrupts'[s])
  \* Most steps change no count, and make no interrupt due.
  <1>2. ASSUME UNCHANGED <<eintrs, interrupts, interrupted>>,
               \A q \in Readers : IsDue(q)' => IsDue(q)
        PROVE  Goal
    <2>1. Due(s)' \in SUBSET Due(s)
      BY <1>2 DEF Due
    <2> QED BY <1>1, <1>2, <2>1, BalanceKept
  <1>3. ASSUME NEW w \in Publishers, Write(w) \/ DoWrite(w) PROVE Goal
    BY <1>2, <1>3 DEF IsDue, Write, DoWrite, QueueSignal, AnswerWrite
  <1>4. CASE TakeRequest
    <2>1. \A q \in Readers : IsDue(q)' => IsDue(q)
      BY <1>4, TakenWasAsked DEF TypeOK, Phases, Phase, IsDue, TakeRequest
    <2> QED BY <1>2, <1>4, <2>1 DEF TakeRequest
  <1>5. ASSUME NEW r \in Readers, Read(r) PROVE Goal
    BY <1>2, <1>5 DEF TypeOK, IsDue, Read
  <1>6. ASSUME NEW r \in Readers, Interrupt(r) PROVE Goal
    <2>1. /\ eintrs' = eintrs /\ interrupted' = interrupted
          /\ \A q \in Readers \ {r} : IsDue(q)' <=> IsDue(q)
      BY <1>6 DEF TypeOK, Interrupt, IsDue
    <2>2. CASE SubOf[r] = s
      <3>1. interrupts'[s] = interrupts[s] + 1
        BY <1>6, <2>2 DEF TypeOK, Interrupt
      <3>2. Balance(eintrs[s], interrupted[s], Due(s) \cup {r}, interrupts[s] + 1)
        BY <1>1, BalanceSent
      <3>3. Due(s)' \in SUBSET (Due(s) \cup {r})
        BY <2>1 DEF Due
      <3>4. IsFiniteSet(Due(s) \cup {r})
        BY <1>1, FS_AddElement
      <3>5. interrupts[s] + 1 \in Nat
        BY <1>1
      <3>6. Balance(eintrs[s], interrupted[s], Due(s)', interrupts[s] + 1)
        BY <1>1, <3>2, <3>3, <3>4, <3>5, BalanceKept
      <3> QED BY <2>1, <3>1, <3>6
    <2>3. CASE SubOf[r] # s
      <3>1. interrupts'[s] = interrupts[s]
        BY <1>6, <2>3 DEF TypeOK, Interrupt
      <3>2. Due(s)' = Due(s)
        BY <2>1, <2>3 DEF Due
      <3> QED BY <1>1, <2>1, <3>1, <3>2
    <2> QED BY <2>2, <2>3
  <1>7. ASSUME NEW r \in Readers, TakeInterrupt(r) PROVE Goal
    BY <1>2, <1>7 DEF TypeOK, IsDue, TakeInterrupt, InDoRead
  \* The flag is set by read_interrupt, from either side.
  <1>8. ASSUME NEW r \in Readers, ReadInterrupt(r) \/ InterruptSelf(r) PROVE Goal
    <2>1. /\ eintrs' = eintrs /\ interrupts' = interrupts
          /\ interrupted' = [interrupted EXCEPT ![SubOf[r]] = TRUE]
      BY <1>8 DEF ReadInterrupt, InterruptSelf
    <2>2. IsDue(r) /\ ~IsDue(r)'
      BY <1>8 DEF TypeOK, Phases, Phase, IsDue, ReadInterrupt, InterruptSelf
    <2>3. \A q \in Readers \ {r} : IsDue(q)' <=> IsDue(q)
      BY <1>8 DEF TypeOK, IsDue, ReadInterrupt, InterruptSelf
    <2>4. CASE SubOf[r] = s
      <3>1. interrupted'[s] = TRUE
        BY <2>1, <2>4 DEF TypeOK
      <3>2. r \in Due(s) /\ Due(s)' \in SUBSET (Due(s) \ {r})
        BY <2>2, <2>3, <2>4 DEF Due
      <3>3. Balance(eintrs[s], TRUE, Due(s)', interrupts[s])
        BY <1>1, <3>2, BalanceFlag
      <3> QED BY <2>1, <3>1, <3>3
    <2>5. CASE SubOf[r] # s
      <3>1. interrupted'[s] = interrupted[s]
        BY <2>1, <2>5 DEF TypeOK
      <3>2. Due(s)' = Due(s)
        BY <2>3, <2>5 DEF Due
      <3> QED BY <1>1, <2>1, <3>1, <3>2
    <2> QED BY <2>4, <2>5
  <1>9. ASSUME NEW r \in Readers, Register(r) PROVE Goal
    BY <1>2, <1>9 DEF TypeOK, IsDue, Register
  <1>10. ASSUME NEW r \in Readers, FindInterrupted(r) PROVE Goal
    BY <1>2, <1>10 DEF TypeOK, IsDue, FindInterrupted
  \* The callback ends the read and clears the flag.
  <1>11. ASSUME NEW r \in Readers, Abandon(r) PROVE Goal
    <2>1. interrupts' = interrupts /\ interrupted[SubOf[r]]
      BY <1>11 DEF Phases, Phase, Abandon
    <2>2. \A q \in Readers : IsDue(q)' => IsDue(q)
      BY <1>11 DEF TypeOK, IsDue, Abandon, EndRequest
    <2>3. Due(s)' \in SUBSET Due(s)
      BY <2>2 DEF Due
    <2>4. Balance(eintrs[s], interrupted[s], Due(s)', interrupts[s])
      BY <1>1, <2>3, BalanceKept
    <2>5. CASE SubOf[r] = s
      <3>1. eintrs'[s] = eintrs[s] + 1 /\ interrupted'[s] = FALSE
        BY <1>11, <2>5 DEF TypeOK, Abandon
      <3>2. Cardinality(Due(s)') \in Nat
        BY <1>1, <2>3, FS_Subset, FS_CardinalityType
      <3> QED BY <1>1, <2>1, <2>4, <2>5, <3>1, <3>2 DEF Balance
    <2>6. CASE SubOf[r] # s
      <3>1. eintrs'[s] = eintrs[s] /\ interrupted'[s] = interrupted[s]
        BY <1>11, <2>6 DEF TypeOK, Abandon
      <3> QED BY <2>1, <2>4, <3>1
    <2> QED BY <2>5, <2>6
  <1>12. ASSUME NEW r \in Readers, Dequeue(r) PROVE Goal
    BY <1>2, <1>12 DEF TypeOK, IsDue, Dequeue
  <1>13. ASSUME NEW r \in Readers, ClearFunc(r) PROVE Goal
    BY <1>2, <1>13 DEF TypeOK, IsDue, ClearFunc
  <1>14. ASSUME NEW r \in Readers, Reply(r) PROVE Goal
    BY <1>2, <1>14 DEF TypeOK, IsDue, Reply, EndRequest
  <1>15. CASE UNCHANGED vars
    BY <1>2, <1>15 DEF IsDue, vars
  <1> QED BY <1>3, <1>4, <1>5, <1>6, <1>7, <1>8, <1>9, <1>10, <1>11, <1>12,
             <1>13, <1>14, <1>15 DEF Next, DoRead

-----------------------------------------------------------------------------
(***************************************************************************)
(* Signals.                                                                *)
(***************************************************************************)

\* Where a signal is that the cursor has passed.
Kept(s, id) ==
    \/ \E sig \in received[s] : sig.id = id
    \/ \E r \in Readers : SubOf[r] = s /\ id \in batch[r]
    \/ id \in dropped[s]

\* No step loses a signal between the cursor and the application.
LEMMA KeptInv ==
    TypeOK /\ Phases /\ NothingVanishes /\ [Next]_vars => NothingVanishes'
  <1> SUFFICES ASSUME TypeOK, Phases, NothingVanishes, [Next]_vars,
                      NEW s \in Subscribers, NEW id \in (Oldest..(sig_id[s] - 1))'
               PROVE  Kept(s, id)'
    BY DEF NothingVanishes, Kept
  <1>1. sig_id[s] \in Ids /\ Len(size) \in Nat
    BY DEF TypeOK
  <1>2. \A k \in Oldest..(sig_id[s] - 1) : Kept(s, k)
    BY DEF NothingVanishes, Kept
  <1>3. ASSUME UNCHANGED <<batch, received, dropped>>,
               id \in Oldest..(sig_id[s] - 1)
        PROVE  Kept(s, id)'
    BY <1>2, <1>3 DEF Kept
  <1>4. ASSUME UNCHANGED <<batch, received, dropped, size, sig_id>>
        PROVE  Kept(s, id)'
    BY <1>3, <1>4 DEF Oldest, next_sig_id
  <1>5. ASSUME NEW w \in Publishers, QueueSignal(w) PROVE Kept(s, id)'
    <2>1. Len(size') = Len(size) + 1 /\ sig_id' = sig_id
      BY <1>5 DEF TypeOK, QueueSignal
    <2>2. id \in Oldest..(sig_id[s] - 1)
      BY <1>1, <2>1, IOAssumption DEF Oldest, next_sig_id, Ids
    <2> QED BY <1>3, <1>5, <2>2 DEF QueueSignal
  <1>6. ASSUME NEW r \in Readers, Dequeue(r) PROVE Kept(s, id)'
    <2> DEFINE z == SubOf[r]
               taken == Taken(First(z), room[r])
               cursor == Cursor(First(z), taken)
    <2>1. z \in Subscribers
      BY IOAssumption
    <2> HIDE DEF z
    <2>2. /\ batch' = [batch EXCEPT ![r] = taken]
          /\ sig_id' = [sig_id EXCEPT ![z] = cursor]
          /\ UNCHANGED <<received, dropped, size>>
      BY <1>6 DEF Dequeue, First, z
    <2>3. First(z) \in Ids /\ cursor \in Ids /\ taken = First(z)..(cursor - 1)
      BY <2>1, DequeueTypes
    <2>4. batch[r] = {}
      BY <1>6 DEF Phases, Phase, Dequeue
    <2> HIDE DEF taken, cursor
    <2>5. Oldest' = Oldest
      BY <2>2 DEF Oldest, next_sig_id
    <2>6. ASSUME Kept(s, id) PROVE Kept(s, id)'
      BY <2>2, <2>4, <2>6 DEF TypeOK, Kept
    <2>7. CASE s # z
      BY <1>2, <2>2, <2>5, <2>6, <2>7 DEF TypeOK
    <2>8. CASE s = z
      <3>1. sig_id'[s] = cursor
        BY <2>2, <2>8 DEF TypeOK
      <3>2. CASE id \in taken
        BY <2>2, <2>8, <3>2 DEF TypeOK, Kept, z
      <3>3. CASE id \notin taken
        <4>1. id \in Oldest..(sig_id[s] - 1)
          BY <1>1, <2>3, <2>5, <2>8, <3>1, <3>3, IOAssumption
             DEF First, Oldest, next_sig_id, Ids
        <4> QED BY <1>2, <2>6, <4>1
      <3> QED BY <3>2, <3>3
    <2> QED BY <2>7, <2>8
  <1>7. ASSUME NEW r \in Readers, Reply(r) PROVE Kept(s, id)'
    <2>1. /\ UNCHANGED <<size, sig_id>>
          /\ batch' = [batch EXCEPT ![r] = {}]
      BY <1>7 DEF Reply
    <2>2. Kept(s, id)
      BY <1>2, <2>1 DEF Oldest, next_sig_id
    <2>3. \A k \in Subscribers : /\ received[k] \subseteq received'[k]
                                 /\ dropped[k] \subseteq dropped'[k]
      BY <1>7 DEF TypeOK, Reply
    <2>4. ASSUME NEW k \in batch[r]
          PROVE  \/ \E sig \in received'[SubOf[r]] : sig.id = k
                 \/ k \in dropped'[SubOf[r]]
      <3>1. SubOf[r] \in Subscribers
        BY IOAssumption
      <3>2. CASE dropped' = [dropped EXCEPT ![SubOf[r]] = @ \cup batch[r]]
        BY <2>4, <3>1, <3>2 DEF TypeOK
      <3>3. CASE \E payload \in [batch[r] -> 0..Len(size)] :
                   received' = [received EXCEPT ![SubOf[r]] =
                       @ \cup {[id |-> i, payload |-> payload[i]] : i \in batch[r]}]
        <4>1. PICK payload \in [batch[r] -> 0..Len(size)] :
                received' = [received EXCEPT ![SubOf[r]] =
                    @ \cup {[id |-> i, payload |-> payload[i]] : i \in batch[r]}]
          BY <3>3
        <4>2. [id |-> k, payload |-> payload[k]] \in received'[SubOf[r]]
          BY <2>4, <3>1, <4>1 DEF TypeOK
        <4> QED BY <4>2
      <3> QED BY <1>7, <3>2, <3>3 DEF Reply
    <2> QED BY <2>1, <2>2, <2>3, <2>4 DEF TypeOK, Kept
  <1>8. ASSUME NEW w \in Publishers, Write(w) \/ AnswerWrite(w) PROVE Kept(s, id)'
    BY <1>4, <1>8 DEF Write, AnswerWrite
  <1>9. ASSUME NEW r \in Readers, \/ Read(r) \/ Interrupt(r) \/ TakeInterrupt(r)
                                  \/ ReadInterrupt(r)
        PROVE  Kept(s, id)'
    BY <1>4, <1>9 DEF Read, Interrupt, TakeInterrupt, ReadInterrupt
  <1>10. ASSUME NEW r \in Readers, \/ Register(r) \/ InterruptSelf(r)
                                   \/ FindInterrupted(r) \/ Abandon(r) \/ ClearFunc(r)
         PROVE  Kept(s, id)'
    BY <1>4, <1>10
       DEF Register, InterruptSelf, FindInterrupted, Abandon, ClearFunc
  <1>11. CASE TakeRequest
    BY <1>4, <1>11 DEF TakeRequest
  <1>12. CASE UNCHANGED vars
    BY <1>4, <1>12 DEF vars
  <1> QED BY <1>5, <1>6, <1>7, <1>8, <1>9, <1>10, <1>11, <1>12
          DEF Next, DoWrite, DoRead

-----------------------------------------------------------------------------
(***************************************************************************)
(* The theorems.                                                           *)
(***************************************************************************)

\* The invariant holds at first.
LEMMA InitInv == Init => IInv
  <1> SUFFICES ASSUME Init PROVE IInv
    OBVIOUS
  <1>1. TypeOK
    BY InitType
  <1>2. Queued
    BY DEF Init, Queued
  <1>3. Phases
    BY FreeAssumption DEF Init, Phases, Phase
  <1>4. Accounts
    <2>1. \A s \in Subscribers : Due(s) = {}
      BY DEF Init, Due, IsDue
    <2>2. Cardinality({}) = 0
      BY FS_EmptySet
    <2>3. \A s \in Subscribers : /\ eintrs[s] = 0 /\ interrupts[s] = 0
                                 /\ interrupted[s] = FALSE
      BY DEF Init
    <2> QED BY <2>1, <2>2, <2>3 DEF Accounts, Balance
  <1>5. NothingVanishes
    BY IOAssumption DEF Init, NothingVanishes, Oldest, next_sig_id
  <1> QED BY <1>1, <1>2, <1>3, <1>4, <1>5 DEF IInv

\* It holds in every run.
THEOREM Invariance == Spec => []IInv
  <1>1. IInv /\ [Next]_vars => IInv'
    BY TypeInv, QueuedInv, PhasesInv, AccountsInv, KeptInv DEF IInv
  <1> QED BY <1>1, InitInv, PTL DEF Spec

\* The type invariant.
THEOREM TypeCorrect == Spec => []TypeOK
  <1>1. IInv => TypeOK
    BY DEF IInv
  <1> QED BY <1>1, Invariance, PTL

\* Requests that share a descriptor share its interrupt flag, and the flag
\* outlives them; still no more reads end with EINTR than were interrupted,
\* wherever in do_read and however late an interrupt is served.
THEOREM InterruptsCounted == Spec => []InterruptsEndOneRead
  <1>1. IInv => InterruptsEndOneRead
    <2> SUFFICES ASSUME IInv, NEW s \in Subscribers
                 PROVE  eintrs[s] <= interrupts[s]
      BY DEF InterruptsEndOneRead
    <2>1. Cardinality(Due(s)) \in Nat
      BY DueFinite
    <2>2. eintrs[s] \in Nat /\ interrupts[s] \in Nat
      BY IOAssumption DEF IInv, TypeOK
    <2> QED BY <2>1, <2>2 DEF IInv, Accounts, Balance
  <1> QED BY <1>1, Invariance, PTL

\* Reads that share a cursor, are interrupted or have small buffers lose no
\* signal but those of a reply that is too long.
THEOREM SignalsKept == Spec => []NothingVanishes
  <1>1. IInv => NothingVanishes
    BY DEF IInv
  <1> QED BY <1>1, Invariance, PTL

-----------------------------------------------------------------------------
(***************************************************************************)
(* The two locks taken in opposite orders.                                 *)
(***************************************************************************)

\* A reader in the callback has used up one interrupt, and the interrupter that
\* holds the lock of its request is a second one.
LEMMA LockedOutTakesTwo ==
    ASSUME IInv, NEW r \in Readers, reader[r] = "abandoning", RequestLocked(r)
    PROVE  interrupts[SubOf[r]] >= eintrs[SubOf[r]] + 2
  <1> DEFINE s == SubOf[r]
  <1>1. /\ s \in Subscribers
        /\ eintrs[s] \in Nat /\ interrupts[s] \in Nat
    BY IOAssumption DEF IInv, TypeOK
  <1>2. interrupted[s] = TRUE
    BY <1>1 DEF IInv, TypeOK, Phases, Phase
  <1>3. r \in Due(s)
    BY DEF Due, IsDue, RequestLocked
  <1>4. Cardinality(Due(s)) \in Nat /\ Cardinality(Due(s)) # 0
    BY <1>3, DueFinite, FS_EmptySet
  <1>5. Balance(eintrs[s], interrupted[s], Due(s), interrupts[s])
    BY <1>1 DEF IInv, Accounts
  <1> HIDE DEF s
  <1>6. eintrs[s] + 1 + Cardinality(Due(s)) <= interrupts[s]
    BY <1>2, <1>5 DEF Balance
  <1>7. interrupts[s] >= eintrs[s] + 2
    BY <1>1, <1>4, <1>6
  <1> QED BY <1>7 DEF s

\* No step of anybody lets such a reader out of the callback, and none gets
\* past the mutex that it holds.
LEMMA LockedOutStays ==
    ASSUME IInv, LockedOut, [Next]_vars
    PROVE  LockedOut' /\ UNCHANGED queueVars
  <1>1. PICK r \in Readers : reader[r] = "abandoning" /\ RequestLocked(r)
    BY DEF LockedOut
  <1>2. /\ mutex = r /\ mutex # Free
        /\ interrupter[r] = "calling"
        /\ TypeOK /\ Queued
        /\ \A q \in Readers : reader[q] = "abandoning" => q = r
    BY <1>1, FreeAssumption DEF IInv, Phases, Phase, RequestLocked
  <1> DEFINE Same == /\ reader'[r] = "abandoning" /\ interrupter'[r] = "calling"
                     /\ UNCHANGED queueVars
  <1>3. ASSUME NEW w \in Publishers, Write(w) \/ DoWrite(w) PROVE Same
    BY <1>1, <1>2, <1>3 DEF Write, DoWrite, QueueSignal, AnswerWrite
  <1>4. ASSUME TakeRequest PROVE Same
    BY <1>1, <1>2, <1>4, TakenWasAsked DEF TypeOK, TakeRequest
  <1>5. ASSUME NEW q \in Readers, \/ Read(q) \/ Interrupt(q) \/ TakeInterrupt(q)
                                  \/ ReadInterrupt(q)
        PROVE  Same
    BY <1>1, <1>2, <1>5 DEF TypeOK, Read, Interrupt, TakeInterrupt, ReadInterrupt
  <1>6. ASSUME NEW q \in Readers, DoRead(q) PROVE Same
    <2>1. ~InterruptSelf(q) /\ ~FindInterrupted(q) /\ ~Dequeue(q)
      BY <1>2 DEF InterruptSelf, FindInterrupted, Dequeue
    <2>2. ~Abandon(q)
      BY <1>1, <1>2 DEF Abandon
    <2>3. ASSUME Register(q) \/ ClearFunc(q) PROVE Same
      BY <1>1, <1>2, <2>3 DEF TypeOK, Register, ClearFunc
    <2>4. ASSUME Reply(q) PROVE Same
      <3>1. q # r
        BY <1>1, <2>4 DEF Reply
      <3> QED BY <1>1, <1>2, <2>4, <3>1 DEF TypeOK, Reply, EndRequest
    <2> QED BY <1>6, <2>1, <2>2, <2>3, <2>4 DEF DoRead
  <1>7. ASSUME UNCHANGED vars PROVE Same
    BY <1>1, <1>2, <1>7 DEF vars
  <1>8. Same
    BY <1>3, <1>4, <1>5, <1>6, <1>7 DEF Next
  <1> QED BY <1>8 DEF LockedOut, RequestLocked

\* read_interrupt and the callback lock each other out only when two interrupts
\* have ended no read: one alone never does, wherever it meets the read.
THEOREM DeadlockCounted == Spec => []DeadlockTakesTwoInterrupts
  <1>1. IInv => DeadlockTakesTwoInterrupts
    BY LockedOutTakesTwo DEF DeadlockTakesTwoInterrupts
  <1> QED BY <1>1, Invariance, PTL

\* Once they do, they do forever, and no signal of the file is written or read
\* any more: by no publisher, reader, interrupt or worker.
THEOREM DeadlockPermanent == Spec => LockedOutForGood
  <1>1. IInv /\ [Next]_vars
          => [LockedOut => LockedOut' /\ UNCHANGED queueVars]_vars
    BY LockedOutStays
  <1> QED BY <1>1, Invariance, PTL DEF Spec, LockedOutForGood
=============================================================================
