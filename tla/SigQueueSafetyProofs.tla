------------------------ MODULE SigQueueSafetyProofs ------------------------
(***************************************************************************)
(* The safety properties of SigQueue, for every value of its constants     *)
(* under IdsFit.  The inductive invariant IInv joins them and what they    *)
(* need of each other: the window the ring holds (Window), where a cursor  *)
(* may stand and who holds the mutex (Cursors), what was delivered         *)
(* (History), and who is about to notify (NoLostWakeup).                   *)
(***************************************************************************)
EXTENDS SigQueueProofs

-----------------------------------------------------------------------------
(***************************************************************************)
(* The ring.                                                               *)
(***************************************************************************)

\* The window is never empty once a signal was published, and never reaches
\* the head slot.
LEMMA WindowBounds ==
    ASSUME TypeOK
    PROVE  /\ Oldest \in 1..next_sig_id
           /\ next_sig_id - Oldest < N
           /\ next_sig_id \in Nat
           /\ Oldest = next_sig_id <=> next_sig_id = 1
  BY NRange, ConstAssumption DEF TypeOK, Oldest

\* The ring is empty only as long as nothing was published.
LEMMA HeadMeetsTail ==
    ASSUME TypeOK, Window
    PROVE  head = tail <=> next_sig_id = 1
  <1>1. Oldest \in 1..next_sig_id /\ next_sig_id - Oldest < N
        /\ next_sig_id \in Nat /\ (Oldest = next_sig_id <=> next_sig_id = 1)
    BY WindowBounds
  <1>2. head = Index(next_sig_id) /\ tail = Index(Oldest)
    BY DEF Window, RingHoldsWindow
  <1>3. Oldest < next_sig_id => Index(Oldest) # Index(next_sig_id)
    BY <1>1, IndexApart, NRange
  <1> QED BY <1>1, <1>2, <1>3

LEMMA InitWindow == Init => Window
  <1> SUFFICES ASSUME Init PROVE Window
    OBVIOUS
  <1>1. Oldest = 1
    BY NRange DEF Init, Oldest
  <1>2. Index(1) = 1
    <2>1. Index(N * 0 + 1) = 1
      BY IndexUnique, NRange
    <2> QED BY <2>1, NRange
  <1> QED BY <1>1, <1>2, NRange DEF Init, Window, RingHoldsWindow

\* Publishing moves the window by one signal and damages none that is kept.
LEMMA QueueSignalWindow ==
    ASSUME TypeOK, Window, IdsFit, NEW p \in Publishers, QueueSignal(p)
    PROVE  Window'
  <1> DEFINE n == next_sig_id
  <1>1. PICK data \in Payloads :
          /\ queue' = [queue EXCEPT
                         ![head] = [sig_id |-> Stored(next_sig_id),
                                    payload |-> data],
                         ![NextIndex(head)].sig_id = 0]
          /\ log' = Append(log, data)
    BY DEF QueueSignal
  <1>2. /\ n \in Nat /\ n >= 1 /\ n <= MaxSig
        /\ next_sig_id' = n + 1
        /\ head' = NextIndex(head)
        /\ tail' = IF NextIndex(head) = tail THEN NextIndex(tail) ELSE tail
    BY ConstAssumption DEF QueueSignal, TypeOK
  <1>3. /\ head = Index(n) /\ tail = Index(Oldest) /\ Len(log) = n - 1
        /\ \A id \in Oldest..(n - 1) :
             queue[Index(id)] = [sig_id |-> id, payload |-> log[id]]
    BY DEF Window, RingHoldsWindow
  <1>4. Stored(n) = n
    BY <1>2, ConstAssumption DEF Stored, IdsFit
  <1>5. NextIndex(head) = Index(n + 1)
    BY <1>2, <1>3, NextIndexIsIndex
  <1>6. Oldest \in 1..n /\ n - Oldest < N
    BY WindowBounds
  <1>7. Oldest' = IF n < N THEN 1 ELSE n - N + 2
    BY <1>2, NRange DEF Oldest
  <1>8. Index(n) \in 0..(N - 1) /\ Index(n + 1) \in 0..(N - 1)
        /\ Index(n) # Index(n + 1)
    <2>1. n + 1 \in Nat /\ n < n + 1 /\ n + 1 < n + N
      BY <1>2, NRange
    <2> QED BY <1>2, <2>1, IndexRange, IndexApart
  <1>9. tail' = Index(Oldest')
    <2>1. CASE n < N
      <3>1. Oldest = 1 /\ Oldest' = 1
        BY <1>7, <2>1, <1>2, NRange DEF Oldest
      <3>2. Index(n + 1) # Index(1)
        BY <1>2, <2>1, IndexApart, NRange
      <3> QED BY <1>2, <1>3, <1>5, <3>1, <3>2
    <2>2. CASE ~(n < N)
      <3>1. Oldest = n - N + 1 /\ Oldest' = Oldest + 1 /\ n + 1 = Oldest + N
        BY <1>2, <1>7, <2>2, NRange DEF Oldest
      <3>2. Index(n + 1) = Index(Oldest)
        BY <1>6, <3>1, IndexLap
      <3>3. NextIndex(tail) = Index(Oldest + 1)
        BY <1>3, <1>6, NextIndexIsIndex
      <3> QED BY <1>2, <1>3, <1>5, <3>1, <3>2, <3>3
    <2> QED BY <2>1, <2>2
  <1>10. /\ queue'[Index(n)] = [sig_id |-> n, payload |-> data]
         /\ queue'[Index(n + 1)].sig_id = 0
         /\ \A i \in 0..(N - 1) : i # Index(n) /\ i # Index(n + 1)
              => queue'[i] = queue[i]
    <2>1. queue \in [0..(N - 1) -> Slot]
      BY DEF TypeOK
    <2> QED BY <1>1, <1>3, <1>4, <1>5, <1>8, <2>1 DEF Slot
  <1>11. log \in Seq(Payloads)
    BY DEF TypeOK
  <1>12. Len(log') = n /\ log'[n] = data
         /\ \A id \in 1..(n - 1) : log'[id] = log[id]
    BY <1>1, <1>2, <1>3, <1>11
  <1>13. ASSUME NEW id \in Oldest'..n
         PROVE  queue'[Index(id)] = [sig_id |-> id, payload |-> log'[id]]
    <2>1. CASE id = n
      BY <1>10, <1>12, <2>1
    <2>2. CASE id # n
      <3>1. id \in Oldest..(n - 1) /\ id \in Nat /\ id \in 1..(n - 1)
            /\ id < n /\ n < id + N /\ n + 1 < id + N
        BY <1>2, <1>6, <1>7, <2>2, NRange DEF Oldest
      <3>2. Index(id) # Index(n) /\ Index(id) # Index(n + 1)
        BY <1>2, <3>1, IndexApart
      <3>3. Index(id) \in 0..(N - 1)
        BY <3>1, IndexRange
      <3> QED BY <1>3, <1>10, <1>12, <3>1, <3>2, <3>3
    <2> QED BY <2>1, <2>2
  <1> QED BY <1>2, <1>5, <1>9, <1>10, <1>12, <1>13
          DEF Window, RingHoldsWindow

LEMMA WindowUnchanged ==
    ASSUME Window, UNCHANGED ringVars
    PROVE  Window' /\ Oldest' = Oldest
  BY DEF Window, RingHoldsWindow, Oldest, ringVars

-----------------------------------------------------------------------------
(***************************************************************************)
(* The cursors.                                                            *)
(***************************************************************************)

\* A slot inside the window carries the id it was looked up by.
LEMMA SlotOfRetained ==
    ASSUME Window, NEW id \in Oldest..(next_sig_id - 1)
    PROVE  queue[Index(id)] = [sig_id |-> id, payload |-> log[id]]
  BY DEF Window, RingHoldsWindow

\* Once the predicate of the wait holds, the catch-up with the tail puts the
\* cursor on a signal the ring holds, and moves it only past lost ones.
LEMMA StartDeliveryCursor ==
    ASSUME TypeOK, Window, Cursors, NEW r \in Readers, StartDelivery(r)
    PROVE  LET s == SubOf[r]
           IN  /\ s \in Subscribers
               /\ sig_id'[s] \in Oldest..(next_sig_id - 1)
               /\ \/ sig_id' = sig_id
                  \/ /\ sig_id' = [sig_id EXCEPT ![s] = Oldest]
                     /\ sig_id[s] < Oldest
  <1> DEFINE s == SubOf[r]
  <1>1. s \in Subscribers /\ sig_id[s] \in Nat /\ sig_id[s] <= next_sig_id
    BY ConstAssumption DEF TypeOK, Cursors
  <1>2. head # tail /\ queue[Index(sig_id[s])].sig_id >= sig_id[s]
    BY DEF StartDelivery, Check
  <1>3. Oldest \in 1..next_sig_id /\ Oldest < next_sig_id
        /\ next_sig_id \in Nat
    BY <1>2, WindowBounds, HeadMeetsTail
  <1>4. TailSigId = Oldest
    <2>1. Oldest \in Oldest..(next_sig_id - 1)
      BY <1>3
    <2>2. queue[Index(Oldest)] = [sig_id |-> Oldest, payload |-> log[Oldest]]
      BY <2>1, SlotOfRetained
    <2>3. queue[Index(Oldest)].sig_id = Oldest
      BY <2>2
    <2> QED BY <2>3 DEF Window, RingHoldsWindow, TailSigId
  <1>5. sig_id[s] # next_sig_id
    <2>1. queue[Index(next_sig_id)].sig_id = 0
      BY DEF Window, RingHoldsWindow
    <2> QED BY <1>2, <1>3, <2>1
  <1>6. sig_id' = [sig_id EXCEPT
                     ![s] = IF Oldest > sig_id[s] THEN Oldest ELSE @]
    BY <1>4 DEF StartDelivery
  <1>7. sig_id \in [Subscribers -> Nat]
    BY DEF TypeOK
  <1>8. CASE Oldest > sig_id[s]
    <2>1. sig_id' = [sig_id EXCEPT ![s] = Oldest]
      BY <1>6, <1>8
    <2>2. sig_id'[s] = Oldest
      BY <1>1, <1>7, <2>1
    <2> QED BY <1>1, <1>3, <1>8, <2>1, <2>2
  <1>9. CASE ~(Oldest > sig_id[s])
    <2>1. sig_id' = sig_id
      BY <1>6, <1>7, <1>9
    <2> QED BY <1>1, <1>3, <1>5, <1>9, <2>1
  <1> QED BY <1>8, <1>9

\* What a turn of the loop does to the cursor, whatever the callback returns.
LEMMA DeliverCursor ==
    ASSUME TypeOK, Cursors, NEW r \in Readers, Deliver(r)
    PROVE  LET s == SubOf[r]
               signal == [id |-> sig_id[s],
                          payload |-> queue[Index(sig_id[s])].payload,
                          lost |-> lost[r]]
           IN  /\ s \in Subscribers
               /\ mutex = r
               /\ sig_id[s] \in Oldest..(next_sig_id - 1)
               /\ \/ sig_id' = sig_id /\ delivered' = delivered
                  \/ /\ sig_id' = [sig_id EXCEPT ![s] = @ + 1]
                     /\ delivered' = [delivered EXCEPT ![s] = Append(@, signal)]
  BY ConstAssumption DEF Cursors, Deliver, TypeOK

LEMMA NoneDeliversWhenFree ==
    ASSUME Cursors, mutex = Free, NEW r \in Readers
    PROVE  reader[r] # "delivering"
  BY FreeAssumption DEF Cursors

LEMMA InitCursors == Init => Cursors
  BY FreeAssumption DEF Init, Cursors, InCall

\* Cursors stay within what was published, and a reader in its loop stays on a
\* signal the ring holds: publishers are shut out, and so are other readers.
LEMMA NextCursors ==
    ASSUME TypeOK, TypeOK', Window, Window', Cursors, [Next]_vars
    PROVE  Cursors'
  <1>1. ASSUME NEW s \in Subscribers, InitializeSubscriber(s)
        PROVE  Cursors'
    <2>1. sig_id' = [sig_id EXCEPT ![s] = next_sig_id] /\ sig_id[s] = 0
          /\ UNCHANGED <<ringVars, mutex, reader>> /\ Oldest' = Oldest
      BY <1>1, WindowUnchanged DEF InitializeSubscriber, Opened
    <2>2. \A r \in Readers : reader[r] # "delivering"
      BY <1>1, NoneDeliversWhenFree DEF InitializeSubscriber
    <2>3. next_sig_id' = next_sig_id
      BY <2>1 DEF ringVars
    <2> QED BY <2>1, <2>2, <2>3, ConstAssumption
            DEF Cursors, TypeOK, InCall, Opened
  <1>2. ASSUME NEW s \in Subscribers, InterruptDequeue(s) PROVE Cursors'
    <2>1. UNCHANGED <<ringVars, sig_id, mutex>> /\ reader' = NotifyAll
          /\ Oldest' = Oldest
      BY <1>2, WindowUnchanged DEF InterruptDequeue
    <2> QED BY <2>1 DEF Cursors, NotifyAll, InCall, Opened, ringVars
  <1>3. ASSUME NEW p \in Publishers, QueueSignal(p) PROVE Cursors'
    <2>1. next_sig_id' = next_sig_id + 1
          /\ UNCHANGED <<sig_id, mutex, reader>>
      BY <1>3 DEF QueueSignal, subVars
    <2>2. \A r \in Readers : reader[r] # "delivering"
      BY <1>3, NoneDeliversWhenFree DEF QueueSignal
    <2> QED BY <2>1, <2>2 DEF Cursors, TypeOK, InCall, Opened
  <1>4. ASSUME NEW p \in Publishers, NotifyReaders(p) PROVE Cursors'
    <2>1. UNCHANGED <<ringVars, sig_id, mutex>> /\ reader' = NotifyAll
          /\ Oldest' = Oldest
      BY <1>4, WindowUnchanged DEF NotifyReaders, subVars
    <2> QED BY <2>1 DEF Cursors, NotifyAll, InCall, Opened, ringVars
  <1>5. ASSUME NEW r \in Readers, Opened(SubOf[r]), mutex = Free,
               Sleep(r) \/ GiveUp(r)
        PROVE  Cursors'
    <2>1. UNCHANGED <<ringVars, sig_id, mutex>> /\ Oldest' = Oldest
      BY <1>5, WindowUnchanged DEF Sleep, GiveUp, subVars
    <2>2. \A q \in Readers : reader[q] # "delivering"
      BY <1>5, NoneDeliversWhenFree
    <2>3. \/ reader' = [reader EXCEPT ![r] = "waiting"]
          \/ reader' = [reader EXCEPT ![r] = "idle"]
      BY <1>5 DEF Sleep, GiveUp
    <2> QED BY <1>5, <2>1, <2>2, <2>3
            DEF Cursors, TypeOK, InCall, Opened, ringVars
  <1>6. ASSUME NEW r \in Readers, Opened(SubOf[r]), mutex = Free,
               StartDelivery(r)
        PROVE  Cursors'
    <2> DEFINE s == SubOf[r]
    <2>1. /\ s \in Subscribers
          /\ sig_id'[s] \in Oldest..(next_sig_id - 1)
          /\ \/ sig_id' = sig_id
             \/ sig_id' = [sig_id EXCEPT ![s] = Oldest]
      BY <1>6, StartDeliveryCursor
    <2>2. UNCHANGED ringVars /\ Oldest' = Oldest
          /\ mutex' = r /\ reader' = [reader EXCEPT ![r] = "delivering"]
      BY <1>6, WindowUnchanged DEF StartDelivery
    <2>3. \A q \in Readers : reader[q] # "delivering"
      BY <1>6, NoneDeliversWhenFree
    <2>4. Oldest \in 1..next_sig_id /\ next_sig_id \in Nat
          /\ next_sig_id' = next_sig_id
      BY <2>2, WindowBounds DEF ringVars
    <2>a. sig_id \in [Subscribers -> Nat]
      BY DEF TypeOK
    <2>b. \A t \in Subscribers : t # s => sig_id'[t] = sig_id[t]
      BY <2>1, <2>a
    <2>c. sig_id'[s] \in 1..(next_sig_id - 1)
      BY <2>1, <2>4
    <2>5. \A t \in Subscribers : sig_id'[t] <= next_sig_id
      BY <2>1, <2>4, <2>b, <2>c DEF Cursors
    <2>6. \A t \in Subscribers : sig_id[t] # 0 => sig_id'[t] # 0
      BY <2>1, <2>b, <2>c
    <2>7. \A q \in Readers : reader'[q] # "idle" => sig_id'[SubOf[q]] # 0
      BY <1>6, <2>2, <2>6, ConstAssumption
         DEF Cursors, InCall, Opened, TypeOK
    <2>8. /\ \A q \in Readers : reader'[q] = "delivering" <=> mutex' = q
          /\ \A q \in Readers : reader'[q] = "delivering" => q = r
      BY <2>2, <2>3 DEF TypeOK
    <2>9. ASSUME NEW q \in Readers, reader'[q] = "delivering"
          PROVE  sig_id'[SubOf[q]] \in Oldest'..(next_sig_id' - 1)
      <3>1. q = r
        BY <2>8, <2>9
      <3>2. Oldest'..(next_sig_id' - 1) = Oldest..(next_sig_id - 1)
        BY <2>2, <2>4
      <3> QED BY <2>1, <3>1, <3>2
    <2>10. \A t \in Subscribers : sig_id'[t] <= next_sig_id'
      BY <2>4, <2>5
    <2>11. \A q \in Readers : InCall(q)' => Opened(SubOf[q])'
      BY <2>7 DEF InCall, Opened
    <2>12. \A q \in Readers : reader'[q] = "delivering" <=> mutex' = q
      BY <2>8
    <2> QED BY <2>9, <2>10, <2>11, <2>12 DEF Cursors
  <1>7. ASSUME NEW r \in Readers, SpuriousWakeup(r) PROVE Cursors'
    <2>1. UNCHANGED <<ringVars, sig_id, mutex>> /\ Oldest' = Oldest
          /\ reader[r] = "waiting" /\ reader' = [reader EXCEPT ![r] = "woken"]
      BY <1>7, WindowUnchanged DEF SpuriousWakeup, subVars
    <2> QED BY <2>1 DEF Cursors, TypeOK, InCall, Opened, ringVars
  <1>8. ASSUME NEW r \in Readers, Deliver(r) PROVE Cursors'
    <2> DEFINE s == SubOf[r]
    <2>1. /\ s \in Subscribers
          /\ mutex = r
          /\ sig_id[s] \in Oldest..(next_sig_id - 1)
          /\ \/ sig_id' = sig_id
             \/ sig_id' = [sig_id EXCEPT ![s] = @ + 1]
      BY <1>8, DeliverCursor
    <2>2. UNCHANGED ringVars /\ Oldest' = Oldest
      BY <1>8, WindowUnchanged DEF Deliver
    <2>3. Oldest \in 1..next_sig_id /\ next_sig_id \in Nat
          /\ next_sig_id' = next_sig_id
      BY <2>2, WindowBounds DEF ringVars
    <2>a. sig_id \in [Subscribers -> Nat]
      BY DEF TypeOK
    <2>b. \A t \in Subscribers : t # s => sig_id'[t] = sig_id[t]
      BY <2>1, <2>a
    <2>c. sig_id'[s] \in 1..next_sig_id
      BY <2>1, <2>3, <2>a
    <2>4. /\ \A t \in Subscribers : sig_id'[t] <= next_sig_id
          /\ \A t \in Subscribers : sig_id[t] # 0 => sig_id'[t] # 0
      BY <2>1, <2>3, <2>b, <2>c DEF Cursors
    <2>5. \A q \in Readers : q # r => reader[q] # "delivering"
      BY <2>1 DEF Cursors
    <2>6. reader[r] = "delivering"
      BY <1>8 DEF Deliver
    <2>7. CASE mutex' = Free /\ reader' = [reader EXCEPT ![r] = "idle"]
      BY <2>2, <2>3, <2>4, <2>5, <2>6, <2>7, FreeAssumption, ConstAssumption
         DEF Cursors, TypeOK, InCall, Opened
    <2>8. CASE UNCHANGED <<mutex, reader>> /\ SignalAvailable(s)'
               /\ sig_id' = [sig_id EXCEPT ![s] = @ + 1]
      <3>1. sig_id'[s] = sig_id[s] + 1
        BY <2>1, <2>8 DEF TypeOK
      <3>2. Index(sig_id'[s]) # head /\ head = Index(next_sig_id)
        BY <2>2, <2>8
           DEF SignalAvailable, Window, RingHoldsWindow, ringVars, Index
      <3>3. sig_id'[s] \in Oldest..(next_sig_id - 1)
        BY <2>1, <2>3, <3>1, <3>2
      <3> QED BY <2>1, <2>2, <2>3, <2>4, <2>5, <2>6, <2>8, <3>3,
                 ConstAssumption
              DEF Cursors, TypeOK, InCall, Opened
    <2>9. \/ mutex' = Free /\ reader' = [reader EXCEPT ![r] = "idle"]
          \/ /\ UNCHANGED <<mutex, reader>> /\ SignalAvailable(s)'
             /\ sig_id' = [sig_id EXCEPT ![s] = @ + 1]
      BY <1>8 DEF Deliver, CallAgain, NotProcessed
    <2> QED BY <2>7, <2>8, <2>9
  <1>9. ASSUME NEW r \in Readers, CallDequeue(r) \/ ResumeDequeue(r)
        PROVE  Cursors'
    <2>1. Opened(SubOf[r])
      BY <1>9 DEF CallDequeue, ResumeDequeue, Cursors, InCall
    <2> QED BY <1>5, <1>6, <1>9, <2>1
            DEF CallDequeue, ResumeDequeue, LockAndCheck
  <1>10. CASE UNCHANGED vars
    <2>1. UNCHANGED <<ringVars, sig_id, mutex, reader>> /\ Oldest' = Oldest
      BY <1>10, WindowUnchanged DEF vars, subVars
    <2> QED BY <2>1 DEF Cursors, InCall, Opened, ringVars
  <1> QED BY <1>1, <1>2, <1>3, <1>4, <1>7, <1>8, <1>9, <1>10 DEF Next

-----------------------------------------------------------------------------
(***************************************************************************)
(* The history of deliveries.                                              *)
(***************************************************************************)

LEMMA InitHistory == Init => History
  BY DEF Init, History, DeliveredAsPublished, DeliveredInOrder

\* Steps that deliver nothing: cursors move forward, the log only grows.
LEMMA HistoryKept ==
    ASSUME TypeOK, History,
           delivered' = delivered,
           \A s \in Subscribers : sig_id'[s] \in Nat /\ sig_id'[s] >= sig_id[s],
           \/ log' = log
           \/ \E data \in Payloads : log' = Append(log, data)
    PROVE  History'
  <1>1. \A i \in DOMAIN log : i \in DOMAIN log' /\ log'[i] = log[i]
    <2>1. log \in Seq(Payloads)
      BY DEF TypeOK
    <2>2. CASE log' = log
      BY <2>2
    <2>3. ASSUME NEW data \in Payloads, log' = Append(log, data)
          PROVE  \A i \in DOMAIN log : i \in DOMAIN log' /\ log'[i] = log[i]
      BY <2>1, <2>3
    <2> QED BY <2>2, <2>3
  <1>2. DeliveredAsPublished'
    BY <1>1 DEF History, DeliveredAsPublished
  <1>3. DeliveredInOrder'
    BY DEF History, DeliveredInOrder
  <1>4. ASSUME NEW s \in Subscribers, NEW k \in 1..Len(delivered[s])
        PROVE  delivered[s][k].id < sig_id'[s]
    <2>1. delivered[s] \in Seq(Delivery)
      BY DEF TypeOK
    <2>2. delivered[s][k] \in Delivery
      BY <2>1
    <2>3. delivered[s][k].id \in Nat
      BY <2>2 DEF Delivery
    <2>4. delivered[s][k].id < sig_id[s] /\ sig_id[s] \in Nat
      BY DEF History, TypeOK
    <2> QED BY <2>3, <2>4
  <1> QED BY <1>2, <1>3, <1>4 DEF History

\* A callback is given the signal at the cursor, which the ring still holds
\* and which is newer than all it was given before.
LEMMA HistoryDelivered ==
    ASSUME TypeOK, Window, Cursors, History,
           NEW r \in Readers, Deliver(r), delivered' # delivered
    PROVE  History'
  <1> DEFINE s == SubOf[r]
             c == sig_id[s]
             signal == [id |-> c, payload |-> queue[Index(c)].payload,
                        lost |-> lost[r]]
             old == delivered[s]
             new == delivered'[s]
  <1>1. /\ s \in Subscribers
        /\ c \in Oldest..(next_sig_id - 1)
        /\ sig_id' = [sig_id EXCEPT ![s] = @ + 1]
        /\ delivered' = [delivered EXCEPT ![s] = Append(@, signal)]
    BY DeliverCursor
  <1>2. Oldest \in 1..next_sig_id /\ next_sig_id \in Nat
        /\ log' = log /\ DOMAIN log = 1..(next_sig_id - 1)
    BY WindowBounds DEF Deliver, ringVars, Window, TypeOK
  <1>3. c \in Nat /\ c \in DOMAIN log /\ sig_id'[s] = c + 1
    BY <1>1, <1>2 DEF TypeOK
  <1>4. signal.payload = log[c] /\ signal.id = c
    <2>1. queue[Index(c)] = [sig_id |-> c, payload |-> log[c]]
      BY <1>1, SlotOfRetained
    <2> QED BY <2>1
  <1>5. old \in Seq(Delivery) /\ new = Append(old, signal)
    BY <1>1 DEF TypeOK
  <1> HIDE DEF signal
  <1>6. /\ Len(new) = Len(old) + 1 /\ Len(old) \in Nat
        /\ new[Len(old) + 1] = signal
        /\ \A k \in 1..Len(old) : new[k] = old[k] /\ old[k] \in Delivery
    BY <1>5
  <1>7. ASSUME NEW t \in Subscribers, t # s
        PROVE  delivered'[t] = delivered[t] /\ sig_id'[t] = sig_id[t]
    BY <1>1, <1>7 DEF TypeOK
  <1>8. \A k \in 1..Len(old) :
          /\ old[k].id \in Nat /\ old[k].id < c
          /\ old[k].id \in DOMAIN log
          /\ old[k].payload = log[old[k].id]
    BY <1>1, <1>6 DEF History, DeliveredAsPublished, Delivery
  <1>9. \A k \in 1..Len(new) : k \in 1..Len(old) \/ k = Len(old) + 1
    BY <1>6
  <1>10. DeliveredAsPublished'
    <2>1. \A k \in 1..Len(new) :
            /\ new[k].id \in DOMAIN log
            /\ new[k].payload = log[new[k].id]
      BY <1>3, <1>4, <1>6, <1>8, <1>9
    <2> QED BY <1>2, <1>7, <2>1 DEF History, DeliveredAsPublished
  <1>11. DeliveredInOrder'
    <2>1. ASSUME NEW j \in 1..Len(new), NEW k \in 1..Len(new), j < k
          PROVE  new[j].id < new[k].id
      <3>1. j \in 1..Len(old)
        BY <1>6, <2>1
      <3>2. CASE k \in 1..Len(old)
        BY <1>1, <1>6, <2>1, <3>1, <3>2 DEF History, DeliveredInOrder
      <3>3. CASE k = Len(old) + 1
        BY <1>4, <1>6, <1>8, <3>1, <3>3
      <3> QED BY <1>9, <3>2, <3>3
    <2> QED BY <1>7, <2>1 DEF History, DeliveredInOrder
  <1>12. ASSUME NEW t \in Subscribers, NEW k \in 1..Len(delivered'[t])
         PROVE  delivered'[t][k].id < sig_id'[t]
    <2>1. CASE t # s
      BY <1>7, <1>12, <2>1 DEF History
    <2>2. \A i \in 1..Len(new) : new[i].id < sig_id'[s]
      <3>1. ASSUME NEW i \in 1..Len(old) PROVE new[i].id < c + 1
        <4>1. new[i].id = old[i].id /\ old[i].id \in Nat /\ old[i].id < c
          BY <1>6, <1>8
        <4> QED BY <1>3, <4>1
      <3>2. new[Len(old) + 1].id < c + 1
        BY <1>3, <1>4, <1>6
      <3> QED BY <1>3, <1>9, <3>1, <3>2
    <2> QED BY <1>12, <2>1, <2>2
  <1> QED BY <1>10, <1>11, <1>12 DEF History

LEMMA NextHistory ==
    ASSUME TypeOK, TypeOK', Window, Cursors, History, [Next]_vars
    PROVE  History'
  <1>1. sig_id \in [Subscribers -> Nat] /\ sig_id' \in [Subscribers -> Nat]
    BY DEF TypeOK
  <1>2. ASSUME delivered' = delivered, sig_id' = sig_id,
               log' = log \/ \E data \in Payloads : log' = Append(log, data)
        PROVE  History'
    BY <1>1, <1>2, HistoryKept
  <1>3. ASSUME NEW s \in Subscribers, InitializeSubscriber(s)
        PROVE  History'
    BY <1>1, <1>3, HistoryKept
       DEF InitializeSubscriber, Opened, ringVars
  <1>4. ASSUME NEW s \in Subscribers, InterruptDequeue(s) PROVE History'
    BY <1>2, <1>4 DEF InterruptDequeue, ringVars
  <1>5. ASSUME NEW p \in Publishers, QueueSignal(p) PROVE History'
    BY <1>2, <1>5 DEF QueueSignal, subVars
  <1>6. ASSUME NEW p \in Publishers, NotifyReaders(p) PROVE History'
    BY <1>2, <1>6 DEF NotifyReaders, ringVars, subVars
  <1>7. ASSUME NEW r \in Readers, Sleep(r) \/ GiveUp(r) \/ SpuriousWakeup(r)
        PROVE  History'
    BY <1>2, <1>7 DEF Sleep, GiveUp, SpuriousWakeup, ringVars, subVars
  <1>8. ASSUME NEW r \in Readers, StartDelivery(r) PROVE History'
    <2>1. /\ SubOf[r] \in Subscribers
          /\ \/ sig_id' = sig_id
             \/ /\ sig_id' = [sig_id EXCEPT ![SubOf[r]] = Oldest]
                /\ sig_id[SubOf[r]] < Oldest
      BY <1>8, StartDeliveryCursor
    <2>2. \A s \in Subscribers : sig_id'[s] \in Nat /\ sig_id'[s] >= sig_id[s]
      <3>1. Oldest \in Nat
        BY WindowBounds
      <3> QED BY <1>1, <2>1, <3>1
    <2>3. delivered' = delivered /\ log' = log
      BY <1>8 DEF StartDelivery, ringVars
    <2> QED BY <2>2, <2>3, HistoryKept
  <1>9. ASSUME NEW r \in Readers, Deliver(r) PROVE History'
    <2>1. CASE delivered' # delivered
      BY <1>9, <2>1, HistoryDelivered
    <2>2. CASE delivered' = delivered
      <3>1. log' = log
        BY <1>9 DEF Deliver, ringVars
      <3>2. \/ sig_id' = sig_id
            \/ sig_id' = [sig_id EXCEPT ![SubOf[r]] = @ + 1]
        BY <1>9, DeliverCursor
      <3>3. \A s \in Subscribers : sig_id'[s] \in Nat
                                  /\ sig_id'[s] >= sig_id[s]
        BY <1>1, <3>2
      <3> QED BY <2>2, <3>1, <3>3, HistoryKept
    <2> QED BY <2>1, <2>2
  <1>10. CASE UNCHANGED vars
    BY <1>2, <1>10 DEF vars, ringVars, subVars
  <1> QED BY <1>3, <1>4, <1>5, <1>6, <1>7, <1>8, <1>9, <1>10
          DEF Next, CallDequeue, ResumeDequeue, LockAndCheck

-----------------------------------------------------------------------------
(***************************************************************************)
(* Wake-ups.                                                               *)
(***************************************************************************)

\* The predicate that started a delivery holds as long as the delivery lasts.
LEMMA DeliveringMeansReady ==
    ASSUME TypeOK, Window, Cursors, NEW r \in Readers,
           reader[r] = "delivering"
    PROVE  head # tail /\ Check(SubOf[r])
  <1> DEFINE c == sig_id[SubOf[r]]
  <1>1. c \in Oldest..(next_sig_id - 1)
    BY DEF Cursors
  <1>2. queue[Index(c)] = [sig_id |-> c, payload |-> log[c]]
    BY <1>1, SlotOfRetained
  <1>3. Oldest \in 1..next_sig_id /\ next_sig_id \in Nat /\ next_sig_id # 1
    BY <1>1, WindowBounds
  <1>4. head # tail
    BY <1>3, HeadMeetsTail
  <1>5. queue[Index(c)].sig_id >= c
    BY <1>1, <1>2, <1>3
  <1> QED BY <1>4, <1>5 DEF Check

\* A step after which every sleeping reader was already asleep and its
\* predicate already held loses no wake-up.
LEMMA WakeupKept ==
    ASSUME NoLostWakeup, publisher' = publisher,
           \A r \in Readers : reader'[r] = "waiting" /\ Check(SubOf[r])'
               => reader[r] = "waiting" /\ Check(SubOf[r])
    PROVE  NoLostWakeup'
  BY DEF NoLostWakeup

LEMMA NextNoLostWakeup ==
    ASSUME TypeOK, TypeOK', Window, Cursors, NoLostWakeup, [Next]_vars
    PROVE  NoLostWakeup'
  <1>1. ASSUME NEW s \in Subscribers, InitializeSubscriber(s)
        PROVE  NoLostWakeup'
    <2>1. ASSUME NEW r \in Readers, reader'[r] = "waiting", Check(SubOf[r])'
          PROVE  reader[r] = "waiting" /\ Check(SubOf[r])
      <3>1. reader[r] = "waiting" /\ SubOf[r] # s
        BY <1>1, <2>1 DEF InitializeSubscriber, Cursors, InCall
      <3>2. sig_id'[SubOf[r]] = sig_id[SubOf[r]]
        BY <1>1, <3>1, ConstAssumption DEF InitializeSubscriber, TypeOK
      <3> QED BY <1>1, <2>1, <3>1, <3>2
              DEF InitializeSubscriber, Check, Index, ringVars
    <2> QED BY <1>1, <2>1, WakeupKept DEF InitializeSubscriber
  <1>2. ASSUME NEW s \in Subscribers, InterruptDequeue(s)
        PROVE  NoLostWakeup'
    BY <1>2 DEF InterruptDequeue, NotifyAll, NoLostWakeup
  <1>3. ASSUME NEW p \in Publishers, QueueSignal(p) PROVE NoLostWakeup'
    <2>1. publisher'[p] = "notify"
      BY <1>3 DEF QueueSignal, TypeOK
    <2> QED BY <2>1 DEF NoLostWakeup
  <1>4. ASSUME NEW p \in Publishers, NotifyReaders(p) PROVE NoLostWakeup'
    BY <1>4 DEF NotifyReaders, NotifyAll, NoLostWakeup
  <1>5. ASSUME NEW r \in Readers, Sleep(r) PROVE NoLostWakeup'
    <2>1. UNCHANGED <<ringVars, subVars, publisher>> /\ ~Check(SubOf[r])
          /\ reader' = [reader EXCEPT ![r] = "waiting"]
      BY <1>5 DEF Sleep
    <2>2. \A q \in Readers : Check(SubOf[q])' => Check(SubOf[q])
      BY <2>1 DEF Check, Index, ringVars, subVars
    <2> QED BY <2>1, <2>2, WakeupKept DEF TypeOK
  <1>6. ASSUME NEW r \in Readers, GiveUp(r) PROVE NoLostWakeup'
    <2>1. /\ UNCHANGED <<ringVars, sig_id, publisher>>
          /\ interrupted' = [interrupted EXCEPT ![SubOf[r]] = FALSE]
          /\ reader' = [reader EXCEPT ![r] = "idle"]
      BY <1>6 DEF GiveUp
    <2>2. \A q \in Readers : Check(SubOf[q])' => Check(SubOf[q])
      BY <2>1, ConstAssumption DEF Check, Index, ringVars, TypeOK
    <2> QED BY <2>1, <2>2, WakeupKept DEF TypeOK
  <1>7. ASSUME NEW r \in Readers, StartDelivery(r) PROVE NoLostWakeup'
    <2> DEFINE s == SubOf[r]
    <2>1. ASSUME NEW q \in Readers, reader'[q] = "waiting", Check(SubOf[q])'
          PROVE  reader[q] = "waiting" /\ Check(SubOf[q])
      <3>1. reader[q] = "waiting"
        BY <1>7, <2>1 DEF StartDelivery, TypeOK
      <3>2. CASE SubOf[q] = s
        BY <1>7, <3>1, <3>2 DEF StartDelivery
      <3>3. CASE SubOf[q] # s
        <4>1. sig_id'[SubOf[q]] = sig_id[SubOf[q]]
          BY <1>7, <3>3, ConstAssumption DEF StartDelivery, TypeOK
        <4> QED BY <1>7, <2>1, <3>1, <4>1
                DEF StartDelivery, Check, Index, ringVars
      <3> QED BY <3>2, <3>3
    <2> QED BY <1>7, <2>1, WakeupKept DEF StartDelivery
  <1>8. ASSUME NEW r \in Readers, SpuriousWakeup(r) PROVE NoLostWakeup'
    <2>1. UNCHANGED <<ringVars, subVars, publisher>>
          /\ reader' = [reader EXCEPT ![r] = "woken"]
      BY <1>8 DEF SpuriousWakeup
    <2>2. \A q \in Readers : Check(SubOf[q])' => Check(SubOf[q])
      BY <2>1 DEF Check, Index, ringVars, subVars
    <2> QED BY <2>1, <2>2, WakeupKept DEF TypeOK
  <1>9. ASSUME NEW r \in Readers, Deliver(r) PROVE NoLostWakeup'
    <2> DEFINE s == SubOf[r]
    <2>1. Check(s)
      BY <1>9, DeliveringMeansReady DEF Deliver
    <2>2. /\ s \in Subscribers
          /\ \/ sig_id' = sig_id
             \/ sig_id' = [sig_id EXCEPT ![s] = @ + 1]
      BY <1>9, DeliverCursor
    <2>3. ASSUME NEW q \in Readers, reader'[q] = "waiting", Check(SubOf[q])'
          PROVE  reader[q] = "waiting" /\ Check(SubOf[q])
      <3>1. reader[q] = "waiting"
        BY <1>9, <2>3 DEF Deliver, TypeOK
      <3>2. CASE SubOf[q] = s
        BY <2>1, <3>1, <3>2
      <3>3. CASE SubOf[q] # s
        <4>1. sig_id'[SubOf[q]] = sig_id[SubOf[q]]
          BY <2>2, <3>3, ConstAssumption DEF TypeOK
        <4> QED BY <1>9, <2>3, <3>1, <4>1 DEF Deliver, Check, Index, ringVars
      <3> QED BY <3>2, <3>3
    <2> QED BY <1>9, <2>3, WakeupKept DEF Deliver
  <1>10. CASE UNCHANGED vars
    <2>1. \A q \in Readers : Check(SubOf[q])' => Check(SubOf[q])
      BY <1>10 DEF Check, Index, vars, ringVars, subVars
    <2> QED BY <1>10, <2>1, WakeupKept DEF vars
  <1> QED BY <1>1, <1>2, <1>3, <1>4, <1>5, <1>6, <1>7, <1>8, <1>9, <1>10
          DEF Next, CallDequeue, ResumeDequeue, LockAndCheck

-----------------------------------------------------------------------------
(***************************************************************************)
(* The theorems.                                                           *)
(***************************************************************************)

\* Only publishing changes the ring.
LEMMA NextWindow ==
    ASSUME TypeOK, Window, IdsFit, [Next]_vars
    PROVE  Window'
  <1>1. CASE \E p \in Publishers : QueueSignal(p)
    BY <1>1, QueueSignalWindow
  <1>2. CASE UNCHANGED ringVars
    BY <1>2, WindowUnchanged
  <1> QED BY <1>1, <1>2
          DEF Next, InitializeSubscriber, InterruptDequeue, NotifyReaders,
              CallDequeue, ResumeDequeue, LockAndCheck, Sleep, GiveUp,
              StartDelivery, SpuriousWakeup, Deliver, vars

LEMMA InitIInv == Init => IInv
  <1>1. Init => NoLostWakeup
    BY DEF Init, NoLostWakeup
  <1> QED BY <1>1, InitTypeOK, InitWindow, InitCursors, InitHistory DEF IInv

LEMMA NextIInv == IdsFit /\ IInv /\ [Next]_vars => IInv'
  <1> SUFFICES ASSUME IdsFit, IInv, [Next]_vars PROVE IInv'
    OBVIOUS
  <1>1. TypeOK /\ Window /\ Cursors /\ History /\ NoLostWakeup
    BY DEF IInv
  <1>2. TypeOK'
    BY <1>1, NextTypeOK
  <1>3. Window'
    BY <1>1, NextWindow
  <1>4. Cursors'
    BY <1>1, <1>2, <1>3, NextCursors
  <1>5. History'
    BY <1>1, <1>2, NextHistory
  <1>6. NoLostWakeup'
    BY <1>1, <1>2, NextNoLostWakeup
  <1> QED BY <1>2, <1>3, <1>4, <1>5, <1>6 DEF IInv

\* The inductive invariant holds in every reachable state.
THEOREM Invariance ==
    ASSUME IdsFit
    PROVE  Spec => []IInv
  <1>1. IInv /\ [Next]_vars => IInv'
    BY NextIInv
  <1> QED BY <1>1, InitIInv, PTL DEF Spec

\* The ring always holds the last N - 1 signals, each complete in its slot.
THEOREM RingCorrect ==
    ASSUME IdsFit
    PROVE  Spec => []RingHoldsWindow
  <1>1. IInv => RingHoldsWindow
    BY DEF IInv, Window
  <1> QED BY <1>1, Invariance, PTL

\* Every payload is delivered under the id it was published with.
THEOREM DeliveryCorrect ==
    ASSUME IdsFit
    PROVE  Spec => []DeliveredAsPublished
  <1>1. IInv => DeliveredAsPublished
    BY DEF IInv, History
  <1> QED BY <1>1, Invariance, PTL

\* Each subscriber's deliveries are in order and without repetition, also when
\* several threads read for it.
THEOREM OrderCorrect ==
    ASSUME IdsFit
    PROVE  Spec => []DeliveredInOrder
  <1>1. IInv => DeliveredInOrder
    BY DEF IInv, History
  <1> QED BY <1>1, Invariance, PTL

\* No reader sleeps through a signal or an interrupt it should wake up for.
THEOREM WakeupCorrect ==
    ASSUME IdsFit
    PROVE  Spec => []NoLostWakeup
  <1>1. IInv => NoLostWakeup
    BY DEF IInv
  <1> QED BY <1>1, Invariance, PTL

\* Once the ring is full, every slot but the head slot is that of a signal kept.
LEMMA WindowHasSlot ==
    ASSUME NEW n \in Nat, n >= N, NEW i \in 0..(N - 1), i # Index(n)
    PROVE  \E id \in (n - (N - 1))..(n - 1) : Index(id) = i
  <1> DEFINE h == Index(n)
             d == IF i < h THEN h - i ELSE h - i + N
             id == n - d
  <1>1. h \in 0..(N - 1)
    BY IndexRange
  <1> HIDE DEF h
  <1>2. d \in 1..(N - 1) /\ id \in Nat /\ id + d = n
        /\ id \in (n - (N - 1))..(n - 1)
    BY <1>1, NRange DEF h
  <1>3. \/ i < h /\ d = h - i
        \/ i > h /\ d = h - i + N
    BY <1>1 DEF h
  <1> HIDE DEF id, d
  <1>4. Index(id) \in 0..(N - 1)
    BY <1>2, IndexRange
  <1>5. d \in 1..N
    BY <1>2, NRange
  <1>6. IF Index(id) + d < N THEN Index(id + d) = Index(id) + d
                             ELSE Index(id + d) = Index(id) + d - N
    BY <1>2, <1>5, IndexSum
  <1>7. Index(id + d) = h
    BY <1>2 DEF h
  <1>8. Index(id) = i
    BY <1>1, <1>2, <1>3, <1>4, <1>6, <1>7, NRange
  <1> QED BY <1>2, <1>8

\* What the slot of a cursor tells of the cursor: there is a signal to read, but
\* for the cursors that a whole number of laps has put on the head slot.
LEMMA PredicateExact ==
    ASSUME TypeOK, Window, Cursors, NEW s \in Subscribers, Opened(s)
    PROVE  Check(s) <=> interrupted[s] \/ (Behind(s) /\ ~WholeLapsBehind(s))
  <1> DEFINE c == sig_id[s]
             n == next_sig_id
  <1>1. c \in 1..n /\ n \in Nat
    BY WindowBounds DEF TypeOK, Cursors, Opened
  <1>2. /\ head = Index(n) /\ queue[Index(n)].sig_id = 0
        /\ Oldest \in 1..n /\ n - Oldest < N
        /\ (head = tail <=> n = 1)
    BY WindowBounds, HeadMeetsTail DEF Window, RingHoldsWindow
  <1>3. CASE Index(c) = head
    BY <1>1, <1>2, <1>3 DEF Check, WholeLapsBehind
  <1>4. CASE Index(c) # head
    <2>1. c # n /\ Behind(s) /\ n # 1
      BY <1>1, <1>2, <1>4 DEF Behind
    <2>2. PICK id \in Oldest..(n - 1) : Index(id) = Index(c) /\ id >= c
      <3>1. CASE c >= Oldest
        BY <1>1, <2>1, <3>1
      <3>2. CASE c < Oldest
        <4>1. n >= N /\ Oldest = n - (N - 1)
          BY <1>1, <3>2, NRange DEF Oldest
        <4>2. Index(c) \in 0..(N - 1)
          BY <1>1, IndexRange
        <4>3. PICK id \in (n - (N - 1))..(n - 1) : Index(id) = Index(c)
          <5> HIDE DEF c, n
          <5> QED BY <1>1, <1>2, <1>4, <4>1, <4>2, WindowHasSlot
        <4> QED BY <1>1, <1>2, <3>2, <4>1, <4>3
      <3> QED BY <1>1, <1>2, <3>1, <3>2
    <2>3. queue[Index(id)] = [sig_id |-> id, payload |-> log[id]]
      BY SlotOfRetained
    <2>4. queue[Index(c)].sig_id >= c
      BY <2>2, <2>3
    <2> QED BY <1>2, <1>4, <2>1, <2>4 DEF Check, WholeLapsBehind
  <1> QED BY <1>3, <1>4

\* A reader sleeps while its subscriber has signals to read only if the
\* subscriber is a whole number of laps behind, or a publisher is about to
\* notify it: whatever the length of the ring and however it was overtaken.
THEOREM SleepersLapped ==
    ASSUME IdsFit
    PROVE  Spec => []SleepsOnlyIfLapped
  <1>1. ASSUME IInv, NEW r \in Readers,
               reader[r] = "waiting", Behind(SubOf[r]), ~WholeLapsBehind(SubOf[r])
        PROVE  \E p \in Publishers : publisher[p] = "notify"
    <2>1. SubOf[r] \in Subscribers /\ Opened(SubOf[r])
      BY <1>1, ConstAssumption DEF IInv, Cursors, InCall
    <2>2. Check(SubOf[r])
      BY <1>1, <2>1, PredicateExact DEF IInv
    <2> QED BY <1>1, <2>2 DEF IInv, NoLostWakeup
  <1>2. IInv => SleepsOnlyIfLapped
    BY <1>1 DEF SleepsOnlyIfLapped
  <1> QED BY <1>2, Invariance, PTL

-----------------------------------------------------------------------------
(***************************************************************************)
(* What a step does to a cursor.                                           *)
(***************************************************************************)

LEMMA StepPasses ==
    ASSUME IInv, IdsFit, [Next]_vars,
           NEW s \in Subscribers, Opened(s), NEW id \in sig_id[s]..(sig_id'[s] - 1)
    PROVE  \/ id < Oldest
           \/ /\ Len(delivered'[s]) = Len(delivered[s]) + 1
              /\ delivered'[s][Len(delivered'[s])].id = id
  <1>1. TypeOK /\ Window /\ Cursors /\ sig_id[s] \in Nat
    BY DEF IInv, TypeOK
  <1>2. sig_id'[s] # sig_id[s]
    BY <1>1
  <1>3. ASSUME NEW t \in Subscribers, InitializeSubscriber(t) PROVE FALSE
    BY <1>1, <1>2, <1>3 DEF InitializeSubscriber, Opened, TypeOK
  <1>4. ASSUME NEW r \in Readers, StartDelivery(r) PROVE id < Oldest
    <2>1. /\ sig_id' = [sig_id EXCEPT ![SubOf[r]] = Oldest]
          /\ sig_id[SubOf[r]] < Oldest
      BY <1>1, <1>2, <1>4, StartDeliveryCursor
    <2>2. sig_id'[s] = Oldest /\ Oldest \in Nat
      BY <1>1, <1>2, <2>1, WindowBounds DEF TypeOK
    <2> QED BY <1>1, <2>2
  <1>5. ASSUME NEW r \in Readers, Deliver(r)
        PROVE  /\ Len(delivered'[s]) = Len(delivered[s]) + 1
               /\ delivered'[s][Len(delivered'[s])].id = id
    <2> DEFINE signal == [id |-> sig_id[s],
                          payload |-> queue[Index(sig_id[s])].payload,
                          lost |-> lost[r]]
    <2>1. sig_id' = [sig_id EXCEPT ![SubOf[r]] = @ + 1] /\ sig_id' # sig_id
      BY <1>1, <1>2, <1>5, DeliverCursor
    <2>2. SubOf[r] = s /\ sig_id'[s] = sig_id[s] + 1
      BY <1>1, <1>2, <2>1 DEF TypeOK
    <2>3. delivered'[s] = Append(delivered[s], signal)
      BY <1>1, <1>5, <2>1, <2>2, DeliverCursor DEF TypeOK
    <2>4. delivered[s] \in Seq(Delivery)
      BY <1>1 DEF TypeOK
    <2>5. signal.id = sig_id[s] /\ id = sig_id[s]
      BY <1>1, <2>2
    <2> HIDE DEF signal
    <2> QED BY <2>3, <2>4, <2>5
  <1>6. \/ \E t \in Subscribers : InitializeSubscriber(t)
        \/ \E r \in Readers : StartDelivery(r) \/ Deliver(r)
    BY <1>2 DEF Next, InterruptDequeue, QueueSignal, NotifyReaders,
                CallDequeue, ResumeDequeue, LockAndCheck, Sleep, GiveUp,
                SpuriousWakeup, vars, subVars
  <1> QED BY <1>3, <1>4, <1>5, <1>6

\* A subscriber less than N signals behind loses none: its cursor passes a
\* signal only by processing it or after the signal was overwritten.
THEOREM NothingSkipped ==
    ASSUME IdsFit
    PROVE  Spec => PassesOnlyProcessedOrOverwritten
  <1> DEFINE Passes ==
        \A s \in Subscribers : Opened(s) =>
          \A id \in sig_id[s]..(sig_id'[s] - 1) :
              \/ id < Oldest
              \/ /\ Len(delivered'[s]) = Len(delivered[s]) + 1
                 /\ delivered'[s][Len(delivered'[s])].id = id
  <1>1. IInv /\ [Next]_vars => [Passes]_vars
    BY StepPasses
  <1> QED BY <1>1, Invariance, PTL DEF Spec, PassesOnlyProcessedOrOverwritten
=============================================================================
