----------------------- MODULE FuseIORefinementProofs -----------------------
(***************************************************************************)
(* FuseIO implements SignalLog, for every value of its constants: reads    *)
(* and writes, with the interrupts, batches, small buffers and threads of  *)
(* FuseIO, are for the programs a log that keeps N - 1 signals.            *)
(***************************************************************************)
EXTENDS FuseIOProofs, SequenceTheorems

USE DEF queueVars, writeVars, requestVars, replyVars, countVars

-----------------------------------------------------------------------------
(***************************************************************************)
(* The cursors, the histories and the records that are written.            *)
(***************************************************************************)

\* Every record on its way is one that a publisher wrote.
RecordsWritten ==
    \A w \in Publishers : \A k \in 1..Len(buffer[w]) : buffer[w][k] \in Sizes

\* No cursor is ahead of the signals, and what a subscriber was given is behind
\* its cursor.
CursorsBehind ==
    \A s \in Subscribers :
        /\ sig_id[s] <= next_sig_id
        /\ \A k \in 1..Len(dequeued[s]) : dequeued[s][k] < sig_id[s]

LogInv == RecordsWritten /\ CursorsBehind

\* The sequence of a file grows, or stays as it is.
LEMMA RecordsInv == TypeOK /\ RecordsWritten /\ [Next]_vars => RecordsWritten'
  <1> SUFFICES ASSUME TypeOK, RecordsWritten, [Next]_vars, NEW v \in Publishers,
                      NEW k \in 1..Len(buffer'[v])
               PROVE  buffer'[v][k] \in Sizes
    BY DEF RecordsWritten
  <1>1. ASSUME UNCHANGED buffer PROVE buffer'[v][k] \in Sizes
    BY <1>1 DEF RecordsWritten
  <1>2. ASSUME NEW w \in Publishers, Write(w) PROVE buffer'[v][k] \in Sizes
    <2>1. PICK records \in Buffers : buffer' = [buffer EXCEPT ![w] = records]
      BY <1>2 DEF Write
    <2>2. CASE v = w
      <3>1. buffer'[v] = records /\ records \in Seq(Nat)
        BY <2>1, <2>2, IOAssumption DEF TypeOK
      <3>2. k \in DOMAIN records
        BY <3>1
      <3> QED BY <2>1, <3>1, <3>2 DEF Sizes
    <2>3. CASE v # w
      BY <2>1, <2>3 DEF TypeOK, RecordsWritten
    <2> QED BY <2>2, <2>3
  <1>3. ASSUME NEW w \in Publishers, QueueSignal(w) PROVE buffer'[v][k] \in Sizes
    <2>1. /\ buffer' = [buffer EXCEPT ![w] = Tail(buffer[w])]
          /\ buffer[w] \in Seq(Nat) /\ buffer[w] # <<>>
      BY <1>3 DEF TypeOK, QueueSignal
    <2>2. CASE v = w
      <3>1. buffer'[v] = Tail(buffer[w])
        BY <2>1, <2>2 DEF TypeOK
      <3>2. /\ Len(Tail(buffer[w])) = Len(buffer[w]) - 1
            /\ Len(buffer[w]) \in Nat
            /\ k \in 1..Len(Tail(buffer[w]))
        <4>1. Len(Tail(buffer[w])) = Len(buffer[w]) - 1
          BY <2>1, HeadTailProperties
        <4>2. Len(buffer[w]) \in Nat
          BY <2>1, LenProperties
        <4>3. k \in 1..Len(Tail(buffer[w]))
          BY <3>1
        <4> QED BY <4>1, <4>2, <4>3
      <3>3. k + 1 \in 1..Len(buffer[w]) /\ Tail(buffer[w])[k] = buffer[w][k + 1]
        BY <2>1, <3>2, HeadTailProperties
      <3> QED BY <3>1, <3>3 DEF RecordsWritten
    <2>3. CASE v # w
      BY <2>1, <2>3 DEF TypeOK, RecordsWritten
    <2> QED BY <2>2, <2>3
  <1>4. ASSUME NEW w \in Publishers, AnswerWrite(w) PROVE buffer'[v][k] \in Sizes
    <2>1. buffer' = [buffer EXCEPT ![w] = <<>>]
      BY <1>4 DEF AnswerWrite
    <2>2. v # w
      BY <2>1 DEF TypeOK
    <2> QED BY <2>1, <2>2 DEF TypeOK, RecordsWritten
  <1>5. \/ UNCHANGED buffer
        \/ \E w \in Publishers : Write(w) \/ QueueSignal(w) \/ AnswerWrite(w)
    BY DEF Next, DoWrite, DoRead, TakeRequest, Read, Interrupt, TakeInterrupt,
           ReadInterrupt, Register, InterruptSelf, FindInterrupted, Abandon,
           Dequeue, ClearFunc, Reply, vars, Zenon
  <1> QED BY <1>1, <1>2, <1>3, <1>4, <1>5

\* Where a read starts, and where it leaves the cursor: behind the newest signal.
LEMMA DequeueBounds ==
    ASSUME TypeOK, CursorsBehind, NEW s \in Subscribers, NEW bytes
    PROVE  LET taken == Taken(First(s), bytes)
               cursor == Cursor(First(s), taken)
           IN  /\ Len(size) \in Nat /\ First(s) \in Ids /\ cursor \in Ids
               /\ Cardinality(taken) \in Nat
               /\ cursor = First(s) + Cardinality(taken)
               /\ sig_id[s] <= First(s) /\ First(s) <= cursor
               /\ cursor <= next_sig_id
               /\ taken = {} <=> Cardinality(taken) = 0
  <1> DEFINE taken == Taken(First(s), bytes)
             cursor == Cursor(First(s), taken)
  <1>1. Len(size) \in Nat /\ sig_id[s] \in Ids /\ sig_id[s] <= next_sig_id
    BY DEF TypeOK, CursorsBehind
  <1>2. /\ First(s) \in Ids /\ sig_id[s] <= First(s)
        /\ First(s) <= next_sig_id
    BY <1>1, IOAssumption DEF First, Oldest, next_sig_id, Ids
  <1> HIDE DEF First
  <1>3. First(s) \in Nat /\ First(s) # 0
    BY <1>2 DEF Ids
  <1>4. Cardinality(taken) \in Nat /\ taken = First(s)..(cursor - 1)
    BY <1>1, <1>3, TakenIsInterval
  <1>5. cursor = First(s) + Cardinality(taken)
    BY DEF Cursor
  <1>6. \A id \in taken : id <= Len(size)
    BY <1>1, <1>3 DEF Taken, next_sig_id
  <1> HIDE DEF taken, cursor
  <1>7. taken = {} <=> Cardinality(taken) = 0
    BY <1>3, <1>4, <1>5
  <1>8. cursor <= next_sig_id
    <2>1. CASE Cardinality(taken) = 0
      BY <1>2, <1>3, <1>5, <2>1
    <2>2. CASE Cardinality(taken) # 0
      <3>1. cursor - 1 \in taken
        BY <1>3, <1>4, <1>5, <2>2
      <3> QED BY <1>1, <1>3, <1>4, <1>5, <1>6, <3>1 DEF next_sig_id
    <2> QED BY <2>1, <2>2
  <1>9. cursor \in Ids /\ First(s) <= cursor
    BY <1>3, <1>4, <1>5 DEF Ids
  <1> QED BY <1>1, <1>2, <1>4, <1>5, <1>7, <1>8, <1>9 DEF taken, cursor

\* The cursors and the histories move together.
LEMMA CursorsInv == TypeOK /\ CursorsBehind /\ [Next]_vars => CursorsBehind'
  <1> SUFFICES ASSUME TypeOK, CursorsBehind, [Next]_vars, NEW s \in Subscribers
               PROVE  /\ sig_id'[s] <= next_sig_id'
                      /\ \A k \in 1..Len(dequeued'[s]) :
                           dequeued'[s][k] < sig_id'[s]
    BY DEF CursorsBehind
  <1> DEFINE Goal == /\ sig_id'[s] <= next_sig_id'
                     /\ \A k \in 1..Len(dequeued'[s]) :
                          dequeued'[s][k] < sig_id'[s]
  <1>1. ASSUME UNCHANGED <<size, sig_id, dequeued>> PROVE Goal
    BY <1>1 DEF CursorsBehind, next_sig_id
  <1>2. ASSUME NEW w \in Publishers, QueueSignal(w) PROVE Goal
    <2>1. /\ UNCHANGED <<sig_id, dequeued>>
          /\ size' = Append(size, Head(buffer[w])) /\ Head(buffer[w]) \in Nat
      BY <1>2 DEF TypeOK, QueueSignal
    <2>2. Len(size') = Len(size) + 1 /\ Len(size) \in Nat
      BY <2>1 DEF TypeOK
    <2>3. sig_id[s] \in Nat
      BY DEF TypeOK, Ids
    <2> QED BY <2>1, <2>2, <2>3 DEF CursorsBehind, next_sig_id
  <1>3. ASSUME NEW r \in Readers, Dequeue(r) PROVE Goal
    <2> DEFINE z == SubOf[r]
               taken == Taken(First(z), room[r])
               cursor == Cursor(First(z), taken)
               new == Batch(First(z), taken)
    <2>1. z \in Subscribers
      BY IOAssumption
    <2>2. size' = size
      BY <1>3 DEF Dequeue
    <2>3. sig_id' = [sig_id EXCEPT ![z] = cursor]
      BY <1>3 DEF Dequeue, First
    <2>4. /\ new \in Seq(Ids)
          /\ dequeued' = [dequeued EXCEPT ![z] = dequeued[z] \o new]
      BY <1>3, DequeuedAppended
    <2> HIDE DEF z
    <2>5. /\ Len(size) \in Nat /\ First(z) \in Ids /\ cursor \in Ids
          /\ Cardinality(taken) \in Nat
          /\ cursor = First(z) + Cardinality(taken)
          /\ sig_id[z] <= First(z) /\ First(z) <= cursor
          /\ cursor <= next_sig_id
      BY <2>1, DequeueBounds
    <2> HIDE DEF cursor, taken
    <2>6. CASE s # z
      BY <2>2, <2>3, <2>4, <2>6 DEF TypeOK, CursorsBehind, next_sig_id
    <2>7. CASE s = z
      <3> DEFINE old == dequeued[s]
      <3>1. /\ old \in Seq(Ids)
            /\ \A k \in 1..Len(old) : old[k] < sig_id[s]
            /\ sig_id[s] \in Ids
        BY DEF TypeOK, CursorsBehind
      <3>2. /\ Len(new) = Cardinality(taken)
            /\ \A k \in 1..Len(new) : new[k] = First(z) + k - 1
        BY <2>5 DEF Batch
      <3>3. sig_id'[s] = cursor /\ dequeued'[s] = old \o new
        BY <2>3, <2>4, <2>7 DEF TypeOK
      <3>4. cursor <= next_sig_id'
        BY <2>2, <2>5 DEF next_sig_id
      <3> HIDE DEF old, new
      <3>5. /\ Len(old \o new) = Len(old) + Len(new)
            /\ \A k \in 1..(Len(old) + Len(new)) :
                 (old \o new)[k] = IF k <= Len(old) THEN old[k] ELSE new[k - Len(old)]
        BY <2>4, <3>1, ConcatProperties, Zenon
      <3>6. Len(old) \in Nat
        BY <3>1, LenProperties
      <3>7. ASSUME NEW k \in 1..Len(old \o new) PROVE (old \o new)[k] < cursor
        <4>1. CASE k <= Len(old)
          <5>1. (old \o new)[k] = old[k] /\ k \in 1..Len(old) /\ old[k] \in Ids
            BY <2>5, <3>1, <3>2, <3>5, <3>6, <4>1
          <5> QED BY <2>5, <2>7, <3>1, <5>1 DEF Ids
        <4>2. CASE ~(k <= Len(old))
          <5>1. /\ k - Len(old) \in 1..Len(new)
                /\ (old \o new)[k] = new[k - Len(old)]
            BY <2>5, <3>2, <3>5, <3>6, <4>2
          <5> QED BY <2>5, <3>2, <5>1 DEF Ids
        <4> QED BY <4>1, <4>2
      <3> QED BY <3>3, <3>4, <3>7
    <2> QED BY <2>6, <2>7
  <1>4. \/ UNCHANGED <<size, sig_id, dequeued>>
        \/ \E w \in Publishers : QueueSignal(w)
        \/ \E r \in Readers : Dequeue(r)
    BY DEF Next, DoWrite, DoRead, TakeRequest, Write, AnswerWrite, Read, Interrupt,
           TakeInterrupt, ReadInterrupt, Register, InterruptSelf, FindInterrupted,
           Abandon, ClearFunc, Reply, vars, Zenon
  <1> QED BY <1>1, <1>2, <1>3, <1>4

\* No reader has a history, and no record is on its way.
LEMMA InitLogInv == Init => LogInv
  BY DEF Init, LogInv, RecordsWritten, CursorsBehind, next_sig_id

\* Both hold in every run: with the invariant of FuseIOProofs they are what the
\* refinement needs.
THEOREM LogInvariance == Spec => [](IInv /\ LogInv)
  <1>1. IInv /\ LogInv /\ [Next]_vars => LogInv'
    BY RecordsInv, CursorsInv DEF IInv, LogInv
  <1> QED BY <1>1, InitLogInv, Invariance, PTL DEF Spec

-----------------------------------------------------------------------------
(***************************************************************************)
(* The refinement.                                                         *)
(***************************************************************************)

\* Pairs of an id and what has that id.
Paired(ids, log) == [k \in 1..Len(ids) |-> <<ids[k], log[ids[k]]>>]

\* To pair the ids of a longer history is to go on with the pairs.
LEMMA PairedConcat ==
    ASSUME NEW old \in Seq(Ids), NEW new \in Seq(Ids), NEW log, NEW Item,
           \A k \in 1..Len(old) : <<old[k], log[old[k]]>> \in Item,
           \A k \in 1..Len(new) : <<new[k], log[new[k]]>> \in Item
    PROVE  Paired(old \o new, log) = Paired(old, log) \o Paired(new, log)
  <1> DEFINE both == old \o new
  <1>1. /\ both \in Seq(Ids)
        /\ Len(both) = Len(old) + Len(new)
        /\ \A k \in 1..(Len(old) + Len(new)) :
             both[k] = IF k <= Len(old) THEN old[k] ELSE new[k - Len(old)]
    BY ConcatProperties, Zenon
  <1>2. Len(old) \in Nat /\ Len(new) \in Nat
    BY LenProperties
  <1> HIDE DEF both
  <1>3. /\ Paired(old, log) \in Seq(Item) /\ Len(Paired(old, log)) = Len(old)
        /\ Paired(new, log) \in Seq(Item) /\ Len(Paired(new, log)) = Len(new)
    BY <1>2 DEF Paired
  <1> DEFINE pairs == Paired(old, log) \o Paired(new, log)
  <1>4. /\ pairs \in Seq(Item)
        /\ Len(pairs) = Len(Paired(old, log)) + Len(Paired(new, log))
        /\ \A k \in 1..(Len(Paired(old, log)) + Len(Paired(new, log))) :
             pairs[k] = IF k <= Len(Paired(old, log)) THEN Paired(old, log)[k]
                        ELSE Paired(new, log)[k - Len(Paired(old, log))]
    <2>1. Paired(old, log) \in Seq(Item) /\ Paired(new, log) \in Seq(Item)
      BY <1>3
    <2> QED BY <2>1, ConcatProperties, Zenon
  <1> HIDE DEF pairs
  <1>5. ASSUME NEW k \in 1..(Len(old) + Len(new))
        PROVE  <<both[k], log[both[k]]>> = pairs[k] /\ pairs[k] \in Item
    <2>1. CASE k <= Len(old)
      <3>1. k \in 1..Len(old) /\ both[k] = old[k]
        BY <1>1, <1>2, <2>1
      <3>2. pairs[k] = Paired(old, log)[k]
        BY <1>2, <1>3, <1>4, <2>1
      <3> QED BY <3>1, <3>2 DEF Paired
    <2>2. CASE ~(k <= Len(old))
      <3>1. k - Len(old) \in 1..Len(new) /\ both[k] = new[k - Len(old)]
        BY <1>1, <1>2, <2>2
      <3>2. pairs[k] = Paired(new, log)[k - Len(old)]
        BY <1>2, <1>3, <1>4, <2>2
      <3> QED BY <3>1, <3>2 DEF Paired
    <2> QED BY <2>1, <2>2
  <1>6. Paired(both, log) \in Seq(Item) /\ Len(Paired(both, log)) = Len(both)
    <2>1. \A k \in 1..Len(both) : <<both[k], log[both[k]]>> \in Item
      BY <1>1, <1>5
    <2>2. Len(both) \in Nat
      BY <1>1, <1>2
    <2> QED BY <2>1, <2>2 DEF Paired
  <1>7. Len(pairs) = Len(both) /\ Len(both) = Len(old) + Len(new)
    BY <1>1, <1>3, <1>4
  <1>8. \A k \in 1..Len(both) : Paired(both, log)[k] = pairs[k]
    BY <1>5, <1>7 DEF Paired
  <1>9. Paired(both, log) = pairs
    BY <1>4, <1>6, <1>7, <1>8, SeqEqual
  <1> QED BY <1>9 DEF both, pairs

\* The oldest signal of the ring is the oldest one that the log keeps.
LEMMA KeptIsOldest ==
    ASSUME TypeOK
    PROVE  Log!Kept = Oldest /\ Oldest \in Nat \ {0}
  BY IOAssumption DEF TypeOK, Log!Kept, Oldest, next_sig_id

LEMMA InitRefines == Init => Log!Init
  <1> SUFFICES ASSUME Init PROVE Log!Init
    OBVIOUS
  <1>1. Dequeued = [s \in Subscribers |-> <<>>]
    <2>1. ASSUME NEW s \in Subscribers PROVE Dequeued[s] = <<>>
      BY DEF Init, Dequeued
    <2> QED BY <2>1 DEF Dequeued
  <1> QED BY <1>1 DEF Init, Log!Init

\* A record that becomes a signal is written to the log; what subscribers were
\* given before stays as it was.
LEMMA QueueSignalRefines ==
    ASSUME TypeOK, LogInv, NEW w \in Publishers, QueueSignal(w)
    PROVE  \E data \in Sizes \ {Malformed} : Log!Write(data)
  <1> DEFINE data == Head(buffer[w])
  <1>1. buffer[w] \in Seq(Nat) /\ buffer[w] # <<>> /\ data # Malformed
    BY DEF TypeOK, QueueSignal
  <1>2. 1 \in 1..Len(buffer[w]) /\ data = buffer[w][1]
    BY <1>1
  <1>3. data \in Sizes \ {Malformed}
    BY <1>1, <1>2 DEF LogInv, RecordsWritten
  <1>4. size' = Append(size, data) /\ sig_id' = sig_id /\ dequeued' = dequeued
    BY DEF QueueSignal
  <1>5. Dequeued' = Dequeued
    <2>1. ASSUME NEW s \in Subscribers, NEW k \in 1..Len(dequeued[s])
          PROVE  size'[dequeued[s][k]] = size[dequeued[s][k]]
      <3>1. dequeued[s][k] \in Nat \ {0}
        BY ElementOfSeq DEF TypeOK, Ids
      <3>2. dequeued[s][k] < sig_id[s] /\ sig_id[s] <= Len(size) + 1
        BY DEF LogInv, CursorsBehind, next_sig_id
      <3>3. sig_id[s] \in Nat /\ Len(size) \in Nat
        BY DEF TypeOK, Ids
      <3>4. dequeued[s][k] \in 1..Len(size)
        BY <3>1, <3>2, <3>3
      <3>5. size \in Seq(Nat) /\ data \in Nat
        BY <1>1 DEF TypeOK
      <3> HIDE DEF data
      <3> QED BY <1>4, <3>4, <3>5
    <2>2. ASSUME NEW s \in Subscribers
          PROVE  [k \in 1..Len(dequeued[s]) |->
                    <<dequeued[s][k], size'[dequeued[s][k]]>>]
                 = [k \in 1..Len(dequeued[s]) |->
                    <<dequeued[s][k], size[dequeued[s][k]]>>]
      BY <2>1
    <2> QED BY <1>4, <2>2 DEF Dequeued
  <1> HIDE DEF data
  <1>6. Log!Write(data)
    BY <1>4, <1>5 DEF Log!Write
  <1> QED BY <1>3, <1>6

\* What dequeue_signal adds to the history of the subscriber are consecutive
\* signals of the log.
LEMMA DequeuedPairs ==
    ASSUME TypeOK, LogInv, NEW r \in Readers, Dequeue(r)
    PROVE  LET s == SubOf[r]
               first == First(s)
               count == Cardinality(Taken(first, room[r]))
           IN  Dequeued' = [Dequeued EXCEPT
                  ![s] = @ \o [k \in 1..count |->
                                 <<first + k - 1, size[first + k - 1]>>]]
  <1> DEFINE s == SubOf[r]
             first == First(s)
             taken == Taken(first, room[r])
             count == Cardinality(taken)
             new == Batch(first, taken)
             old == dequeued[s]
             pairs == [k \in 1..count |-> <<first + k - 1, size[first + k - 1]>>]
             Item == Ids \X Nat
  <1>1. s \in Subscribers /\ size' = size
    BY IOAssumption DEF Dequeue
  <1>2. new \in Seq(Ids) /\ dequeued' = [dequeued EXCEPT ![s] = old \o new]
    BY DequeuedAppended
  <1> HIDE DEF s
  <1>3. /\ Len(size) \in Nat /\ first \in Ids /\ count \in Nat
        /\ sig_id[s] <= first /\ first + count <= next_sig_id
    <2>1. Cursor(first, taken) = first + count
      BY DEF Cursor
    <2> QED BY <1>1, <2>1, DequeueBounds DEF LogInv
  <1> HIDE DEF taken, first, count
  <1>4. /\ old \in Seq(Ids)
        /\ \A k \in 1..Len(old) : old[k] < sig_id[s]
        /\ sig_id[s] \in Nat
    BY <1>1 DEF TypeOK, LogInv, CursorsBehind, Ids
  <1>5. \A id \in 1..Len(size) : size[id] \in Nat
    BY DEF TypeOK
  <1>6. Len(new) = count /\ \A k \in 1..count : new[k] = first + k - 1
    BY <1>3 DEF Batch, count
  <1> HIDE DEF old, new
  <1>7. ASSUME NEW k \in 1..Len(old) PROVE <<old[k], size[old[k]]>> \in Item
    <2>1. old[k] \in Ids /\ old[k] < sig_id[s]
      BY <1>4, ElementOfSeq
    <2>2. old[k] \in 1..Len(size)
      BY <1>3, <1>4, <2>1 DEF Ids, next_sig_id
    <2> QED BY <1>5, <2>1, <2>2
  <1>8. ASSUME NEW k \in 1..Len(new) PROVE <<new[k], size[new[k]]>> \in Item
    <2>1. new[k] \in Ids
      BY <1>2, ElementOfSeq
    <2>2. new[k] \in 1..Len(size)
      BY <1>3, <1>6, <2>1 DEF Ids, next_sig_id
    <2> QED BY <1>5, <2>1, <2>2
  <1>9. Paired(old \o new, size) = Paired(old, size) \o Paired(new, size)
    <2> HIDE DEF Item
    <2> QED BY <1>2, <1>4, <1>7, <1>8, PairedConcat
  <1>10. Paired(new, size) = pairs
    BY <1>6 DEF Paired
  <1> HIDE DEF pairs
  <1>11. Dequeued[s] = Paired(old, size)
    BY <1>1 DEF Dequeued, Paired, old
  <1>12. Dequeued' = [Dequeued EXCEPT ![s] = Dequeued[s] \o pairs]
    <2>1. dequeued'[s] = old \o new
      BY <1>1, <1>2 DEF TypeOK
    <2>2. Dequeued'[s] = Paired(old \o new, size)
      BY <1>1, <2>1 DEF Dequeued, Paired
    <2>3. ASSUME NEW t \in Subscribers, t # s PROVE Dequeued'[t] = Dequeued[t]
      <3>1. dequeued'[t] = dequeued[t]
        BY <1>2, <2>3 DEF TypeOK
      <3> QED BY <1>1, <3>1 DEF Dequeued
    <2>4. Dequeued'[s] = Dequeued[s] \o pairs
      BY <1>9, <1>10, <1>11, <2>2
    <2> QED BY <2>3, <2>4 DEF Dequeued
  <1>13. Dequeued' = [Dequeued EXCEPT ![s] = @ \o pairs]
    BY <1>1, <1>12 DEF Dequeued
  <1> QED BY <1>13 DEF pairs, count, taken, first, s

\* A read that takes signals receives them from the log; one that is too small
\* for the first of them at most finds that the subscriber fell behind.
LEMMA DequeueRefines ==
    ASSUME TypeOK, LogInv, NEW r \in Readers, Dequeue(r)
    PROVE  Log!Receive(SubOf[r]) \/ Log!Miss(SubOf[r]) \/ UNCHANGED Log!vars
  <1> DEFINE s == SubOf[r]
             first == First(s)
             taken == Taken(first, room[r])
             count == Cardinality(taken)
             pairs == [k \in 1..count |-> <<first + k - 1, size[first + k - 1]>>]
  <1>1. s \in Subscribers /\ size' = size
    BY IOAssumption DEF Dequeue
  <1>2. sig_id' = [sig_id EXCEPT ![s] = first + count]
    BY DEF Dequeue, First, Cursor
  <1>3. Dequeued' = [Dequeued EXCEPT ![s] = @ \o pairs]
    BY DequeuedPairs
  <1> HIDE DEF s
  <1>4. /\ Len(size) \in Nat /\ first \in Ids /\ count \in Nat
        /\ first + count <= Len(size) + 1
    <2>1. Cursor(first, taken) = first + count
      BY DEF Cursor
    <2> QED BY <1>1, <2>1, DequeueBounds DEF LogInv, next_sig_id
  <1>5. sig_id[s] \in Nat \ {0}
    BY <1>1 DEF TypeOK, Ids
  <1>6. first = IF sig_id[s] < Log!Kept THEN Log!Kept ELSE sig_id[s]
    BY KeptIsOldest DEF First
  <1>7. Log!Kept \in Nat
    BY KeptIsOldest
  <1> HIDE DEF count, taken, first
  <1>8. CASE count # 0
    <2> DEFINE last == first + count - 1
    <2>1. last \in first..Len(size) /\ last - first + 1 = count /\ last + 1 = first + count
      BY <1>4, <1>8 DEF Ids
    <2> HIDE DEF last
    <2>2. /\ Dequeued' = [Dequeued EXCEPT
               ![s] = @ \o [k \in 1..(last - first + 1) |->
                              <<first + k - 1, size[first + k - 1]>>]]
          /\ sig_id' = [sig_id EXCEPT ![s] = last + 1]
      BY <1>2, <1>3, <2>1
    <2>3. Log!Receive(s)
      BY <1>1, <1>5, <1>6, <2>1, <2>2 DEF Log!Receive
    <2> QED BY <2>3 DEF s
  <1>9. CASE count = 0
    <2>1. pairs = <<>>
      BY <1>9
    <2>2. Dequeued' = Dequeued
      <3>1. Dequeued[s] \in Seq({Dequeued[s][k] : k \in 1..Len(Dequeued[s])})
        <4>1. Len(dequeued[s]) \in Nat
          BY <1>1 DEF TypeOK
        <4> QED BY <1>1, <4>1 DEF Dequeued
      <3>2. Dequeued[s] \o <<>> = Dequeued[s]
        BY <3>1, ConcatEmptySeq
      <3> HIDE DEF pairs
      <3> QED BY <1>1, <1>3, <2>1, <3>2 DEF Dequeued
    <2>3. sig_id' = [sig_id EXCEPT ![s] = first]
      BY <1>2, <1>4, <1>9 DEF Ids
    <2>4. CASE sig_id[s] < Log!Kept
      <3>1. Log!Miss(s)
        BY <1>1, <1>5, <1>6, <1>7, <2>2, <2>3, <2>4 DEF Log!Miss
      <3> QED BY <3>1 DEF s
    <2>5. CASE ~(sig_id[s] < Log!Kept)
      <3>1. sig_id' = sig_id
        BY <1>1, <1>6, <2>3, <2>5 DEF TypeOK
      <3> QED BY <1>1, <2>2, <3>1 DEF Log!vars
    <2> QED BY <2>4, <2>5
  <1> QED BY <1>8, <1>9

\* Every step is one of the log, or none.
LEMMA StepRefines ==
    ASSUME IInv, LogInv, [Next]_vars
    PROVE  [Log!Next]_Log!vars
  <1>1. TypeOK
    BY DEF IInv
  <1>2. ASSUME UNCHANGED <<size, sig_id, dequeued>>
        PROVE  UNCHANGED Log!vars
    BY <1>2 DEF Log!vars, Dequeued
  <1>3. \/ UNCHANGED <<size, sig_id, dequeued>>
        \/ \E w \in Publishers : QueueSignal(w)
        \/ \E r \in Readers : Dequeue(r)
    BY DEF Next, DoWrite, DoRead, TakeRequest, Write, AnswerWrite, Read, Interrupt,
           TakeInterrupt, ReadInterrupt, Register, InterruptSelf, FindInterrupted,
           Abandon, ClearFunc, Reply, vars, Zenon
  <1>4. \A r \in Readers : SubOf[r] \in Subscribers
    BY IOAssumption
  <1> QED BY <1>1, <1>2, <1>3, <1>4, QueueSignalRefines, DequeueRefines DEF Log!Next

\* Whatever interrupts, buffers and threads do, each subscriber takes the signals
\* of the log in order and once, less those that N - 1 newer ones have
\* overwritten.
THEOREM IORefinement == Spec => ImplementsSignalLog
  <1>1. IInv /\ LogInv /\ [Next]_vars => [Log!Next]_Log!vars
    BY StepRefines
  <1> QED BY <1>1, InitRefines, LogInvariance, PTL
          DEF Spec, ImplementsSignalLog, Log!Spec
=============================================================================
