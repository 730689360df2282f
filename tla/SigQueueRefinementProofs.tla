---------------------- MODULE SigQueueRefinementProofs ----------------------
(***************************************************************************)
(* SigQueue implements SignalLog, for every value of its constants under   *)
(* IdsFit: the ring of N slots with its locks and lapped cursors is, for   *)
(* the programs that write and read, a log that keeps N - 1 signals.       *)
(***************************************************************************)
EXTENDS SigQueueSafetyProofs, SequenceTheorems

\* The oldest signal of the ring is the oldest one that the log keeps.
LEMMA KeptIsOldest ==
    ASSUME TypeOK, Window
    PROVE  Log!Kept = Oldest /\ Len(log) = next_sig_id - 1
           /\ next_sig_id \in Nat /\ Oldest \in 1..next_sig_id
  <1>1. Len(log) = next_sig_id - 1
    BY DEF Window
  <1>2. next_sig_id \in Nat /\ Oldest \in 1..next_sig_id
    BY WindowBounds
  <1> QED BY <1>1, <1>2, NRange DEF Log!Kept, Oldest

\* A sequence with one more element.
LEMMA ConcatOne ==
    ASSUME NEW Item, NEW old \in Seq(Item), NEW one \in Seq(Item), Len(one) = 1
    PROVE  /\ old \o one \in Seq(Item)
           /\ Len(old \o one) = Len(old) + 1
           /\ \A k \in 1..Len(old) : (old \o one)[k] = old[k]
           /\ (old \o one)[Len(old) + 1] = one[1]
  <1>1. /\ old \o one \in Seq(Item)
        /\ Len(old \o one) = Len(old) + Len(one)
        /\ \A k \in 1..(Len(old) + Len(one)) :
             (old \o one)[k] = IF k <= Len(old) THEN old[k] ELSE one[k - Len(old)]
    BY ConcatProperties, Zenon
  <1>2. Len(old) \in Nat /\ Len(old) + 1 - Len(old) = 1
    OBVIOUS
  <1> QED BY <1>1, <1>2

LEMMA InitRefines == Init => Log!Init
  <1> SUFFICES ASSUME Init PROVE Log!Init
    OBVIOUS
  <1>1. Received = [s \in Subscribers |-> <<>>]
    <2>1. ASSUME NEW s \in Subscribers PROVE Received[s] = <<>>
      BY DEF Init, Received
    <2> QED BY <2>1 DEF Received
  <1> QED BY <1>1 DEF Init, Log!Init

\* What a callback processed is one more signal received from the log.
LEMMA DeliverRefines ==
    ASSUME IInv, NEW r \in Readers, Deliver(r)
    PROVE  Log!Receive(SubOf[r]) \/ UNCHANGED Log!vars
  <1> DEFINE s == SubOf[r]
             c == sig_id[s]
             signal == [id |-> c, payload |-> queue[Index(c)].payload,
                        lost |-> lost[r]]
  <1>1. TypeOK /\ Window /\ Cursors
    BY DEF IInv
  <1>2. /\ s \in Subscribers
        /\ c \in Oldest..(next_sig_id - 1)
        /\ \/ sig_id' = sig_id /\ delivered' = delivered
           \/ /\ sig_id' = [sig_id EXCEPT ![s] = @ + 1]
              /\ delivered' = [delivered EXCEPT ![s] = Append(@, signal)]
    BY <1>1, DeliverCursor
  <1>3. log' = log
    BY DEF Deliver, ringVars
  <1>4. CASE sig_id' = sig_id /\ delivered' = delivered
    BY <1>3, <1>4 DEF Log!vars, Received
  <1>5. CASE /\ sig_id' = [sig_id EXCEPT ![s] = @ + 1]
             /\ delivered' = [delivered EXCEPT ![s] = Append(@, signal)]
    <2>1. c \in Log!Kept..Len(log)
      BY <1>1, <1>2, KeptIsOldest
    <2>2. signal.id = c /\ signal.payload = log[c]
      <3>1. queue[Index(c)] = [sig_id |-> c, payload |-> log[c]]
        BY <1>1, <1>2, SlotOfRetained
      <3> QED BY <3>1
    <2>3. delivered \in [Subscribers -> Seq(Delivery)]
      BY <1>1 DEF TypeOK
    <2> HIDE DEF signal
    <2> DEFINE batch == [k \in 1..(c - c + 1) |-> <<c + k - 1, log[c + k - 1]>>]
    <2>4. Received' = [Received EXCEPT ![s] = @ \o batch]
      <3>1. ASSUME NEW t \in Subscribers, t # s
            PROVE  Received'[t] = Received[t]
        BY <1>5, <2>3, <3>1 DEF Received
      <3>2. delivered'[s] = Append(delivered[s], signal)
            /\ delivered[s] \in Seq(Delivery)
        BY <1>2, <1>5, <2>3
      <3>3. Len(delivered'[s]) = Len(delivered[s]) + 1
            /\ delivered'[s][Len(delivered[s]) + 1] = signal
            /\ \A k \in 1..Len(delivered[s]) :
                 delivered'[s][k] = delivered[s][k]
            /\ Len(delivered[s]) \in Nat
        BY <3>2
      <3>4. /\ Received[s] = [k \in 1..Len(delivered[s]) |->
                 <<delivered[s][k].id, delivered[s][k].payload>>]
            /\ Received'[s] = [k \in 1..Len(delivered'[s]) |->
                 <<delivered'[s][k].id, delivered'[s][k].payload>>]
        BY <1>2 DEF Received
      <3>5. Received'[s] = Received[s] \o batch
        <4> DEFINE Item == Nat \X (Payloads \cup {NoData})
                   n == Len(delivered[s])
                   item == <<c, log[c]>>
        <4>1. \A k \in 1..n : delivered[s][k] \in Delivery
          BY <3>2, ElementOfSeq
        <4>2. signal \in Delivery
          BY <1>1, <1>2, ConstAssumption, IndexRange
             DEF signal, Delivery, TypeOK, Slot
        <4>3. item \in Item
          BY <2>2, <4>2 DEF Delivery
        <4>4. Received[s] \in Seq(Item) /\ Len(Received[s]) = n
          BY <3>3, <3>4, <4>1 DEF Delivery
        <4>a. c \in Nat
          BY <1>1, <1>2 DEF TypeOK
        <4>b. batch \in Seq(Item) /\ Len(batch) = 1 /\ batch[1] = item
          <5>1. c - c + 1 = 1 /\ c + 1 - 1 = c
            BY <4>a
          <5>2. batch = [k \in 1..1 |-> item]
            BY <4>a, <5>1
          <5> HIDE DEF batch, item
          <5> QED BY <4>3, <5>2
        <4>5. /\ Received[s] \o batch \in Seq(Item)
              /\ Len(Received[s] \o batch) = n + 1
              /\ \A k \in 1..n : (Received[s] \o batch)[k] = Received[s][k]
              /\ (Received[s] \o batch)[n + 1] = item
          <5> HIDE DEF batch, item, Item
          <5>1. n \in Nat
            BY <3>3
          <5> HIDE DEF n
          <5> QED BY <4>4, <4>b, <5>1, ConcatOne
        <4>6. /\ \A k \in 1..n : Received'[s][k] = Received[s][k]
              /\ Received'[s][n + 1] = item
          <5>1. n \in Nat /\ n + 1 \in 1..Len(delivered'[s])
                /\ \A k \in 1..n : k \in 1..Len(delivered'[s])
            BY <3>3
          <5>2. ASSUME NEW k \in 1..n PROVE Received'[s][k] = Received[s][k]
            <6>1. Received[s][k] = <<delivered[s][k].id, delivered[s][k].payload>>
              BY <3>4
            <6>2. Received'[s][k] =
                    <<delivered'[s][k].id, delivered'[s][k].payload>>
              BY <3>4, <5>1
            <6>3. delivered'[s][k] = delivered[s][k]
              BY <3>3
            <6> QED BY <6>1, <6>2, <6>3
          <5>3. Received'[s][n + 1] = <<signal.id, signal.payload>>
            BY <3>3, <3>4, <5>1
          <5> QED BY <2>2, <5>2, <5>3
        <4>7. Received'[s] \in Seq(Item) /\ Len(Received'[s]) = n + 1
          <5>1. \A k \in 1..(n + 1) : delivered'[s][k] \in Delivery
            BY <3>3, <4>1, <4>2
          <5> QED BY <3>3, <3>4, <5>1 DEF Delivery
        <4>8. \A k \in 1..(n + 1) :
                Received'[s][k] = (Received[s] \o batch)[k]
          <5> HIDE DEF item, n, batch
          <5>1. n \in Nat
            BY <3>3 DEF n
          <5>2. \A k \in 1..(n + 1) : k \in 1..n \/ k = n + 1
            BY <5>1
          <5> QED BY <4>5, <4>6, <5>2
        <4> QED BY <4>5, <4>7, <4>8, SeqEqual
      <3> QED BY <1>2, <3>1, <3>5 DEF Received
    <2>5. c \in Nat /\ c # 0 /\ ~(c < Log!Kept) /\ c \in c..Len(log)
      BY <1>1, <1>2, <2>1, KeptIsOldest DEF TypeOK
    <2> HIDE DEF batch
    <2>6. \E last \in c..Len(log) :
            /\ Received' = [Received EXCEPT
                  ![s] = @ \o [k \in 1..(last - c + 1) |->
                                 <<c + k - 1, log[c + k - 1]>>]]
            /\ sig_id' = [sig_id EXCEPT ![s] = last + 1]
      BY <1>5, <2>4, <2>5 DEF batch
    <2> QED BY <1>3, <2>5, <2>6 DEF Log!Receive
  <1> QED BY <1>2, <1>4, <1>5

LEMMA StepRefines ==
    ASSUME IInv, [Next]_vars
    PROVE  [Log!Next]_Log!vars
  <1>1. TypeOK /\ Window /\ Cursors
    BY DEF IInv
  <1>2. ASSUME UNCHANGED <<log, sig_id, delivered>>
        PROVE  UNCHANGED Log!vars
    BY <1>2 DEF Log!vars, Received
  <1>3. ASSUME NEW s \in Subscribers, InitializeSubscriber(s)
        PROVE  Log!Open(s)
    <2>1. sig_id' = [sig_id EXCEPT ![s] = next_sig_id] /\ sig_id[s] = 0
          /\ log' = log /\ Received' = Received
      BY <1>3 DEF InitializeSubscriber, Opened, ringVars, Received
    <2>2. next_sig_id = Len(log) + 1
      BY <1>1, KeptIsOldest
    <2> QED BY <2>1, <2>2 DEF Log!Open
  <1>4. ASSUME NEW p \in Publishers, QueueSignal(p)
        PROVE  \E data \in Payloads : Log!Write(data)
    BY <1>4 DEF QueueSignal, subVars, Log!Write, Received
  <1>5. ASSUME NEW r \in Readers, StartDelivery(r), Opened(SubOf[r])
        PROVE  Log!Miss(SubOf[r]) \/ UNCHANGED Log!vars
    <2> DEFINE s == SubOf[r]
    <2>1. log' = log /\ Received' = Received /\ delivered' = delivered
      BY <1>5 DEF StartDelivery, ringVars, Received
    <2>2. \/ sig_id' = sig_id
          \/ /\ sig_id' = [sig_id EXCEPT ![s] = Oldest]
             /\ sig_id[s] < Oldest
      BY <1>1, <1>5, StartDeliveryCursor
    <2>3. sig_id[s] \in Nat /\ sig_id[s] # 0
      BY <1>1, <1>5, ConstAssumption DEF TypeOK, Opened
    <2>4. Log!Kept = Oldest /\ Oldest \in Nat
      BY <1>1, KeptIsOldest
    <2> QED BY <1>2, <2>1, <2>2, <2>3, <2>4 DEF Log!Miss
  <1>6. ASSUME NEW r \in Readers, CallDequeue(r) \/ ResumeDequeue(r)
        PROVE  Opened(SubOf[r])
    BY <1>1, <1>6 DEF CallDequeue, ResumeDequeue, Cursors, InCall
  <1>7. ASSUME NEW r \in Readers
        PROVE  SubOf[r] \in Subscribers
    BY ConstAssumption
  <1>8. \/ UNCHANGED <<log, sig_id, delivered>>
        \/ \E s \in Subscribers : InitializeSubscriber(s)
        \/ \E p \in Publishers : QueueSignal(p)
        \/ \E r \in Readers : \/ StartDelivery(r) /\ Opened(SubOf[r])
                              \/ Deliver(r)
    BY <1>6 DEF Next, InterruptDequeue, NotifyReaders, CallDequeue,
                ResumeDequeue, LockAndCheck, Sleep, GiveUp, SpuriousWakeup,
                vars, ringVars, subVars
  <1> QED BY <1>2, <1>3, <1>4, <1>5, <1>7, <1>8, DeliverRefines DEF Log!Next

\* Each subscriber receives the log in order from where it opened the file,
\* less the signals that N - 1 newer ones have overwritten.
THEOREM Refinement ==
    ASSUME IdsFit
    PROVE  Spec => ImplementsSignalLog
  <1>1. IInv /\ [Next]_vars => [Log!Next]_Log!vars
    BY StepRefines
  <1> QED BY <1>1, InitRefines, Invariance, PTL
          DEF Spec, ImplementsSignalLog, Log!Spec
=============================================================================
