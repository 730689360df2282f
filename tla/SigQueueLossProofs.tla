------------------------- MODULE SigQueueLossProofs -------------------------
(***************************************************************************)
(* Lost signals are reported where they are lost, for every value of the   *)
(* constants of SigQueue under IdsFit, as long as the callback accepts     *)
(* what it is given: a call that ends with not_processed drops the loss    *)
(* that it has found.                                                      *)
(***************************************************************************)
EXTENDS SigQueueSafetyProofs

Last(s) == delivered[s][Len(delivered[s])]

\* Between two calls the cursor follows the signal delivered last.  A call that
\* has delivered nothing yet has moved it by what the call will report; one that
\* has, repeats its report.
Report(s) ==
    delivered[s] # <<>> =>
      IF \E r \in Readers : reader[r] = "delivering" /\ SubOf[r] = s
      THEN \A r \in Readers : reader[r] = "delivering" /\ SubOf[r] = s =>
             \/ sig_id[s] = Last(s).id + 1 + lost[r]
             \/ sig_id[s] = Last(s).id + 1 /\ lost[r] = Last(s).lost
      ELSE sig_id[s] = Last(s).id + 1

Reports == \A s \in Subscribers : Report(s)

\* The part of LossReportedWithItsSignal that concerns one subscriber.
Reported(s) ==
    \A k \in 2..Len(delivered[s]) :
        \/ delivered[s][k].lost = Gap(s, k)
        \/ Gap(s, k) = 0 /\ delivered[s][k].lost = delivered[s][k - 1].lost

-----------------------------------------------------------------------------
\* Nobody is delivering, or only the reader that holds the mutex is.
LEMMA OneDelivers ==
    ASSUME Cursors, NEW r \in Readers, reader[r] = "delivering",
           NEW q \in Readers, reader[q] = "delivering"
    PROVE  q = r
  BY DEF Cursors

\* A subscriber that a step leaves alone keeps its reports.
LEMMA ReportStays ==
    ASSUME NEW s \in Subscribers, Report(s), Reported(s),
           sig_id'[s] = sig_id[s], delivered'[s] = delivered[s],
           \A r \in Readers : SubOf[r] = s =>
             /\ reader'[r] = "delivering" <=> reader[r] = "delivering"
             /\ reader[r] = "delivering" => lost'[r] = lost[r]
    PROVE  Report(s)' /\ Reported(s)'
  BY DEF Report, Reported, Gap, Last

\* What is delivered has an id.
LEMMA DeliveredIds ==
    ASSUME TypeOK, NEW s \in Subscribers, NEW k \in 1..Len(delivered[s])
    PROVE  delivered[s][k].id \in Nat
  <1>1. delivered[s] \in Seq(Delivery)
    BY DEF TypeOK
  <1>2. delivered[s][k] \in Delivery
    BY <1>1
  <1> QED BY <1>2 DEF Delivery

\* Before a descriptor is opened nothing is delivered.
LEMMA NothingDelivered ==
    ASSUME IInv, NEW s \in Subscribers, ~Opened(s)
    PROVE  delivered[s] = <<>>
  <1>1. delivered[s] \in Seq(Delivery) /\ sig_id[s] = 0
    BY DEF IInv, TypeOK, Opened
  <1>2. \A k \in 1..Len(delivered[s]) :
          delivered[s][k].id \in Nat /\ delivered[s][k].id < 0
    BY <1>1, DeliveredIds DEF IInv, History
  <1>3. 1 \notin 1..Len(delivered[s])
    BY <1>2
  <1> QED BY <1>1, <1>3

\* The start of a delivery counts what the cursor passes.
LEMMA StartReports ==
    ASSUME IInv, Reports, NEW r \in Readers, mutex = Free, StartDelivery(r),
           NEW s \in Subscribers, Reported(s)
    PROVE  Report(s)' /\ Reported(s)'
  <1>1. /\ TypeOK /\ Cursors /\ Window /\ Report(s)
        /\ \A q \in Readers : reader[q] # "delivering"
    BY NoneDeliversWhenFree DEF IInv, Reports
  <1>2. /\ delivered' = delivered
        /\ \A q \in Readers : reader'[q] = "delivering" <=> q = r
    BY <1>1 DEF StartDelivery, TypeOK
  <1>3. CASE SubOf[r] # s
    <2>1. sig_id'[s] = sig_id[s]
      BY <1>1, <1>3, ConstAssumption DEF StartDelivery, TypeOK
    <2> QED BY <1>1, <1>2, <1>3, <2>1, ReportStays
  <1>4. CASE SubOf[r] = s
    <2>1. sig_id'[s] = sig_id[s] + lost'[r] /\ lost'[r] \in Nat
      <3>1. TailSigId \in Nat /\ sig_id[s] \in Nat
        BY <1>1, ConstAssumption, NRange DEF TypeOK, TailSigId, Slot
      <3> QED BY <1>1, <1>4, <3>1 DEF StartDelivery, TypeOK
    <2>2. delivered[s] # <<>> => sig_id[s] = Last(s).id + 1
      BY <1>1 DEF Report
    <2>3. Last(s)' = Last(s)
      BY <1>2 DEF Last
    <2>4. ASSUME delivered[s] # <<>> PROVE Last(s).id \in Nat
      <3>1. delivered[s] \in Seq(Delivery)
        BY <1>1 DEF TypeOK
      <3>2. Len(delivered[s]) \in 1..Len(delivered[s])
        BY <2>4, <3>1
      <3> QED BY <1>1, <3>2, DeliveredIds DEF Last
    <2>5. Report(s)'
      BY <1>2, <1>4, <2>1, <2>2, <2>3, <2>4 DEF Report
    <2> QED BY <1>2, <2>5 DEF Reported, Gap
  <1> QED BY <1>3, <1>4

\* A delivery reports the loss found at the start of its call.
LEMMA DeliverReports ==
    ASSUME NotProcessed \notin Outcomes, IInv, Reports,
           NEW r \in Readers, Deliver(r), NEW s \in Subscribers, Reported(s)
    PROVE  Report(s)' /\ Reported(s)'
  <1> DEFINE signal == [id |-> sig_id[s],
                        payload |-> queue[Index(sig_id[s])].payload,
                        lost |-> lost[r]]
  <1>1. /\ TypeOK /\ Cursors /\ Report(s)
        /\ reader[r] = "delivering"
        /\ \A q \in Readers : reader[q] = "delivering" => q = r
    BY OneDelivers DEF IInv, Reports, Deliver
  <1>2. /\ lost' = lost
        /\ \A q \in Readers : q # r => reader'[q] = reader[q]
    BY <1>1 DEF Deliver, TypeOK
  <1>3. CASE SubOf[r] # s
    <2>1. sig_id'[s] = sig_id[s] /\ delivered'[s] = delivered[s]
      BY <1>1, <1>3, ConstAssumption DEF Deliver, TypeOK
    <2> QED BY <1>1, <1>2, <1>3, <2>1, ReportStays
  <1>4. CASE SubOf[r] = s
    <2>1. /\ sig_id'[s] = sig_id[s] + 1
          /\ delivered'[s] = Append(delivered[s], signal)
      BY <1>1, <1>4 DEF Deliver, TypeOK
    <2> DEFINE n == Len(delivered[s])
    <2>2. /\ delivered[s] \in Seq(Delivery) /\ sig_id[s] \in Nat
          /\ n \in Nat /\ lost[r] \in Nat
      BY <1>1 DEF TypeOK
    <2>3. signal.id = sig_id[s] /\ signal.lost = lost[r]
      OBVIOUS
    <2> HIDE DEF signal
    <2>4. /\ Len(delivered'[s]) = n + 1
          /\ delivered'[s][n + 1] = signal
          /\ \A k \in 1..n : delivered'[s][k] = delivered[s][k]
      BY <2>1, <2>2
    <2>5. Report(s)'
      <3>1. Last(s)' = signal
        BY <2>4 DEF Last
      <3> QED BY <1>1, <1>2, <2>1, <2>2, <2>3, <3>1 DEF Report
    <2>6. ASSUME n > 0
          PROVE  LET gap == sig_id[s] - delivered[s][n].id - 1
                 IN  \/ lost[r] = gap
                     \/ gap = 0 /\ lost[r] = delivered[s][n].lost
      <3>1. delivered[s] # <<>> /\ Last(s) = delivered[s][n]
        BY <2>2, <2>6 DEF Last
      <3>2. delivered[s][n].id \in Nat
        BY <1>1, <2>2, <2>6, DeliveredIds
      <3> QED BY <1>1, <1>4, <2>2, <3>1, <3>2 DEF Report
    <2>7. ASSUME NEW k \in 2..(n + 1)
          PROVE  \/ delivered'[s][k].lost = Gap(s, k)'
                 \/ /\ Gap(s, k)' = 0
                    /\ delivered'[s][k].lost = delivered'[s][k - 1].lost
      <3>1. CASE k = n + 1
        <4>1. n > 0 /\ k - 1 = n /\ n \in 1..n
          BY <2>2, <2>7, <3>1
        <4> QED BY <2>3, <2>4, <2>6, <3>1, <4>1 DEF Gap
      <3>2. CASE k # n + 1
        <4>1. k \in 2..n /\ k \in 1..n /\ k - 1 \in 1..n
          BY <2>2, <2>7, <3>2
        <4>2. Gap(s, k)' = Gap(s, k)
          BY <2>4, <4>1 DEF Gap
        <4> QED BY <2>4, <4>1, <4>2 DEF Reported
      <3> QED BY <3>1, <3>2
    <2> QED BY <2>4, <2>5, <2>7 DEF Reported
  <1> QED BY <1>3, <1>4

\* Every step keeps the reports.
LEMMA NextReports ==
    ASSUME NotProcessed \notin Outcomes, IInv, Reports, [Next]_vars,
           NEW s \in Subscribers, Reported(s)
    PROVE  Report(s)' /\ Reported(s)'
  <1>1. TypeOK /\ Report(s)
    BY DEF IInv, Reports
  <1>2. ASSUME UNCHANGED <<sig_id, delivered, lost>>,
               \A r \in Readers :
                 reader'[r] = "delivering" <=> reader[r] = "delivering"
        PROVE  Report(s)' /\ Reported(s)'
    BY <1>1, <1>2, ReportStays
  <1>3. ASSUME NEW t \in Subscribers, InitializeSubscriber(t)
        PROVE  Report(s)' /\ Reported(s)'
    <2>1. /\ UNCHANGED <<delivered, lost, reader>>
          /\ s # t => sig_id'[s] = sig_id[s]
      BY <1>1, <1>3 DEF InitializeSubscriber, TypeOK, subVars
    <2>2. CASE s = t
      <3>1. delivered[s] = <<>>
        BY <1>3, <2>2, NothingDelivered DEF InitializeSubscriber
      <3> QED BY <2>1, <3>1 DEF Report, Reported, Gap
    <2>3. CASE s # t
      BY <1>1, <2>1, <2>3, ReportStays
    <2> QED BY <2>2, <2>3
  <1>4. CASE \E t \in Subscribers : InterruptDequeue(t)
    BY <1>1, <1>2, <1>4 DEF InterruptDequeue, NotifyAll
  <1>5. CASE \E p \in Publishers : QueueSignal(p) \/ NotifyReaders(p)
    BY <1>1, <1>2, <1>5 DEF QueueSignal, NotifyReaders, NotifyAll, subVars
  <1>6. ASSUME NEW r \in Readers, \/ SpuriousWakeup(r)
                                  \/ /\ reader[r] \in {"idle", "woken"}
                                     /\ Sleep(r) \/ GiveUp(r)
        PROVE  Report(s)' /\ Reported(s)'
    BY <1>1, <1>2, <1>6 DEF TypeOK, SpuriousWakeup, Sleep, GiveUp, subVars
  <1>7. CASE UNCHANGED vars
    BY <1>2, <1>7 DEF vars, subVars
  <1> QED BY <1>3, <1>4, <1>5, <1>6, <1>7, StartReports, DeliverReports
          DEF Next, CallDequeue, ResumeDequeue, LockAndCheck

\* Signals that a subscriber has lost are reported with the next signal that it
\* is given, by the call that found the loss, unless a callback refuses one.
THEOREM LossesReported ==
    ASSUME IdsFit, NotProcessed \notin Outcomes
    PROVE  Spec => []LossReportedWithItsSignal
  <1> DEFINE Kept == Reports /\ \A s \in Subscribers : Reported(s)
  <1>1. Init => Kept
    BY DEF Init, Reports, Report, Reported
  <1>2. IInv /\ Kept /\ [Next]_vars => Kept'
    BY NextReports DEF Reports
  <1>3. Kept => LossReportedWithItsSignal
    BY DEF Reported, LossReportedWithItsSignal
  <1> HIDE DEF Kept
  <1> QED BY <1>1, <1>2, <1>3, Invariance, PTL DEF Spec
=============================================================================
