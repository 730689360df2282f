------------------------------ MODULE SigQueue ------------------------------
(***************************************************************************)
(* The signal queue of one sigfs file: class Queue (src/queue.hh,          *)
(* src/queue.cc, src/queue_impl.hh) and the part of class Subscriber       *)
(* (src/subscriber.hh) that it reads and writes.                           *)
(*                                                                         *)
(* Publishers (FUSE threads inside do_write) call queue_signal();  readers *)
(* (FUSE threads inside do_read) call dequeue_signal() for the subscriber  *)
(* of their file descriptor.  Several readers may share a subscriber, as   *)
(* several threads may read one descriptor.  All of them synchronise on    *)
(* read_ready_mutex_ and sleep on read_ready_cond_.                        *)
(*                                                                         *)
(* A critical section is one step, except that of dequeue_signal(), which  *)
(* takes one step for the wait's predicate and the catch-up with the tail  *)
(* and one step for every callback, with the mutex held in between.  The   *)
(* notify_all() of queue_signal() comes after the unlock: it is a step of  *)
(* its own.                                                                *)
(***************************************************************************)
EXTENDS Integers, Sequences

CONSTANTS
    N,           \* number of slots: queue_length of the constructor
    IdMod,       \* a stored id is an id_t: ids are kept modulo IdMod (2^32)
    Payloads,    \* what a signal may carry
    Publishers,  \* threads that call queue_signal
    Readers,     \* threads that call dequeue_signal
    Subscribers, \* the open file descriptors
    SubOf,       \* the subscriber each reader reads for
    Outcomes,    \* what the callback may return: a subset of cb_result_t
    MaxSig       \* bound of the model: ids above it are never assigned

CallAgain == "processed_call_again"
DontCallAgain == "processed_dont_call_again"
NotProcessed == "not_processed"

\* The constructor refuses (exit 255) a length below 4 or not a power of 2.
ASSUME NAssumption == /\ N \in Nat /\ N >= 4
                      /\ \E k \in 2..N : N = 2^k

ASSUME ConstAssumption ==
    /\ IdMod \in Nat \ {0}
    /\ MaxSig \in Nat
    /\ SubOf \in [Readers -> Subscribers]
    /\ Outcomes \subseteq {CallAgain, DontCallAgain, NotProcessed}

VARIABLES
    queue,       \* slots 0..N-1, each a stored id and a payload
    next_sig_id, \* id of the next signal
    head,        \* slot that the next signal fills
    tail,        \* slot of the oldest signal
    sig_id,      \* per subscriber: the id it reads next, 0 before it is opened
    interrupted, \* per subscriber: a dequeue_signal call is to be abandoned
    mutex,       \* holder of read_ready_mutex_ between two steps, or Free
    publisher,   \* per publisher: "idle", or "notify" before its notify_all
    reader,      \* per reader: "idle", "waiting", "woken" or "delivering"
    lost,        \* per reader: lost_signal_count of its dequeue_signal call
    log,         \* history: the payloads of all signals, in the order of ids
    delivered    \* history: what each subscriber's callback has processed

ringVars == <<queue, next_sig_id, head, tail, log>>
subVars == <<sig_id, interrupted, delivered>>
vars == <<ringVars, subVars, mutex, publisher, reader, lost>>

Free == "free"
NoData == "none"     \* a slot whose payload_ is null

ASSUME FreeAssumption == Free \notin Readers

Slot == [sig_id : 0..(IdMod - 1), payload : Payloads \cup {NoData}]
Delivery == [id : Nat, payload : Payloads \cup {NoData}, lost : Nat]

TypeOK ==
    /\ queue \in [0..(N - 1) -> Slot]
    /\ next_sig_id \in 1..(MaxSig + 1)
    /\ head \in 0..(N - 1)
    /\ tail \in 0..(N - 1)
    /\ sig_id \in [Subscribers -> Nat]
    /\ interrupted \in [Subscribers -> BOOLEAN]
    /\ mutex \in Readers \cup {Free}
    /\ publisher \in [Publishers -> {"idle", "notify"}]
    /\ reader \in [Readers -> {"idle", "waiting", "woken", "delivering"}]
    /\ lost \in [Readers -> Nat]
    /\ log \in Seq(Payloads)
    /\ delivered \in [Subscribers -> Seq(Delivery)]

-----------------------------------------------------------------------------
(***************************************************************************)
(* Helpers of the class, each evaluated with the mutex held.               *)
(***************************************************************************)
(* Mistakes that the properties have to notice are named ...Mutant here. *)
IndexMutant(id) == (id + 1) % N                 \* ids start at 1, slots at 0
UnmaskedNextMutant(i) == i + 1                  \* & queue_mask_ forgotten
ShortNextMutant(i) == (i + 1) % (N - 1)         \* queue_mask_ used as a modulus
Index(id) == id % N          \* id & queue_mask_, N being a power of 2
NextIndex(i) == (i + 1) % N
Stored(id) == id % IdMod     \* the conversion to id_t

Opened(s) == sig_id[s] # 0
TailMutant == queue[NextIndex(tail)].sig_id     \* the tail's successor
TailSigId == queue[tail].sig_id

SignalAvailable(s) == head # tail /\ Index(sig_id[s]) # head

\* The predicate of the conditional wait in dequeue_signal.
CheckMutant(s) ==                               \* the slot of just this id
    \/ interrupted[s]
    \/ head # tail /\ queue[Index(sig_id[s])].sig_id = sig_id[s]
Check(s) ==
    \/ interrupted[s]
    \/ head # tail /\ queue[Index(sig_id[s])].sig_id >= sig_id[s]

\* notify_one instead of notify_all.
NotifyMutant ==
    LET asleep == {r \in Readers : reader[r] = "waiting"}
    IN  IF asleep = {}
        THEN reader
        ELSE [reader EXCEPT ![CHOOSE r \in asleep : TRUE] = "woken"]

\* notify_all: every reader asleep on the condition must retake the mutex.
NotifyAll == [r \in Readers |-> IF reader[r] = "waiting" THEN "woken"
                                                         ELSE reader[r]]

-----------------------------------------------------------------------------
Init ==
    /\ queue = [i \in 0..(N - 1) |-> [sig_id |-> 0, payload |-> NoData]]
    /\ next_sig_id = 1
    /\ head = 1
    /\ tail = 1
    /\ sig_id = [s \in Subscribers |-> 0]
    /\ interrupted = [s \in Subscribers |-> FALSE]
    /\ mutex = Free
    /\ publisher = [p \in Publishers |-> "idle"]
    /\ reader = [r \in Readers |-> "idle"]
    /\ lost = [r \in Readers |-> 0]
    /\ log = <<>>
    /\ delivered = [s \in Subscribers |-> <<>>]

\* A new Subscriber starts at the next signal to be published.
InitializeSubscriber(s) ==
    /\ ~Opened(s)
    /\ mutex = Free
    /\ sig_id' = [sig_id EXCEPT ![s] = next_sig_id]
    /\ UNCHANGED <<ringVars, interrupted, delivered, mutex, publisher, reader,
                   lost>>

\* queue_signal: fill the head slot, advance the head, push the tail ahead of
\* it when the ring is full, and nil the id of the new head slot.
QueueSignal(p) ==
    /\ publisher[p] = "idle"
    /\ mutex = Free
    /\ next_sig_id <= MaxSig
    /\ \E data \in Payloads :
         /\ queue' = [queue EXCEPT
                        ![head] = [sig_id |-> Stored(next_sig_id),
                                   payload |-> data],
                        ![NextIndex(head)].sig_id = 0]
         /\ log' = Append(log, data)
    /\ next_sig_id' = next_sig_id + 1
    /\ head' = NextIndex(head)
    /\ tail' = IF NextIndex(head) = tail THEN NextIndex(tail) ELSE tail
    /\ publisher' = [publisher EXCEPT ![p] = "notify"]
    /\ UNCHANGED <<subVars, mutex, reader, lost>>

\* The end of queue_signal, outside of the mutex.
NotifyReaders(p) ==
    /\ publisher[p] = "notify"
    /\ publisher' = [publisher EXCEPT ![p] = "idle"]
    /\ reader' = NotifyAll
    /\ UNCHANGED <<ringVars, subVars, mutex, lost>>

InterruptDequeue(s) ==
    /\ Opened(s)
    /\ mutex = Free
    /\ interrupted' = [interrupted EXCEPT ![s] = TRUE]
    /\ reader' = NotifyAll
    /\ UNCHANGED <<ringVars, sig_id, delivered, mutex, publisher, lost>>

-----------------------------------------------------------------------------
(***************************************************************************)
(* dequeue_signal.  With the mutex held the reader evaluates the predicate *)
(* and sleeps, or gives up the call, or starts to deliver.                 *)
(***************************************************************************)
Sleep(r) ==
    /\ ~Check(SubOf[r])
    /\ reader' = [reader EXCEPT ![r] = "waiting"]
    /\ UNCHANGED <<ringVars, subVars, mutex, publisher, lost>>

\* The callback is given a null payload; that of do_read clears the flag.
GiveUp(r) ==
    /\ interrupted[SubOf[r]]
    /\ interrupted' = [interrupted EXCEPT ![SubOf[r]] = FALSE]
    /\ reader' = [reader EXCEPT ![r] = "idle"]
    /\ UNCHANGED <<ringVars, sig_id, delivered, mutex, publisher, lost>>

\* The cursor is set to the tail without a look at where it is.
RewindMutant(r) ==
    /\ Check(SubOf[r]) /\ ~interrupted[SubOf[r]]
    /\ lost' = [lost EXCEPT ![r] = 0]
    /\ sig_id' = [sig_id EXCEPT ![SubOf[r]] = TailSigId]
    /\ mutex' = r
    /\ reader' = [reader EXCEPT ![r] = "delivering"]
    /\ UNCHANGED <<ringVars, interrupted, delivered, publisher>>

\* The loss is counted after the cursor has moved.
UncountedMutant(r) ==
    LET s == SubOf[r]
        overtaken == TailSigId > sig_id[s]
    IN  /\ Check(s) /\ ~interrupted[s]
        /\ sig_id' = [sig_id EXCEPT ![s] = IF overtaken THEN TailSigId ELSE @]
        /\ lost' = [lost EXCEPT ![r] = 0]   \* TailSigId - sig_id'[s]
        /\ mutex' = r
        /\ reader' = [reader EXCEPT ![r] = "delivering"]
        /\ UNCHANGED <<ringVars, interrupted, delivered, publisher>>

\* A subscriber overtaken by the tail has lost what lies between.
StartDelivery(r) ==
    LET s == SubOf[r]
        overtaken == TailSigId > sig_id[s]
    IN  /\ Check(s)
        /\ ~interrupted[s]
        /\ lost' = [lost EXCEPT ![r] = IF overtaken THEN TailSigId - sig_id[s]
                                                    ELSE 0]
        /\ sig_id' = [sig_id EXCEPT ![s] = IF overtaken THEN TailSigId ELSE @]
        /\ mutex' = r
        /\ reader' = [reader EXCEPT ![r] = "delivering"]
        /\ UNCHANGED <<ringVars, interrupted, delivered, publisher>>

LockAndCheck(r) ==
    /\ mutex = Free
    /\ Sleep(r) \/ GiveUp(r) \/ StartDelivery(r)

CallDequeue(r) == reader[r] = "idle" /\ Opened(SubOf[r]) /\ LockAndCheck(r)
ResumeDequeue(r) == reader[r] = "woken" /\ LockAndCheck(r)

\* A condition variable may wake a thread without a notification.
SpuriousWakeup(r) ==
    /\ reader[r] = "waiting"
    /\ reader' = [reader EXCEPT ![r] = "woken"]
    /\ UNCHANGED <<ringVars, subVars, mutex, publisher, lost>>

\* One turn of the loop: the callback for the signal at the cursor, with the
\* loss found at the start of the call.
Deliver(r) ==
    LET s == SubOf[r]
        signal == [id |-> sig_id[s],
                   payload |-> queue[Index(sig_id[s])].payload,
                   lost |-> lost[r]]
    IN  /\ reader[r] = "delivering"
        /\ UNCHANGED <<ringVars, interrupted, publisher, lost>>
        /\ \E result \in Outcomes :
             /\ IF result = NotProcessed
                THEN UNCHANGED <<sig_id, delivered>>
                ELSE /\ sig_id' = [sig_id EXCEPT ![s] = @ + 1]
                     /\ delivered' = [delivered EXCEPT ![s] = Append(@, signal)]
             /\ IF result = CallAgain /\ SignalAvailable(s)'
                THEN UNCHANGED <<mutex, reader>>
                ELSE /\ mutex' = Free
                     /\ reader' = [reader EXCEPT ![r] = "idle"]

-----------------------------------------------------------------------------
Next ==
    \/ \E s \in Subscribers : InitializeSubscriber(s) \/ InterruptDequeue(s)
    \/ \E p \in Publishers : QueueSignal(p) \/ NotifyReaders(p)
    \/ \E r \in Readers : \/ CallDequeue(r)
                          \/ ResumeDequeue(r)
                          \/ SpuriousWakeup(r)
                          \/ Deliver(r)

Spec == Init /\ [][Next]_vars

\* A thread that has begun a call goes on with it.  Nobody has to publish, to
\* interrupt or to read.
Fairness ==
    /\ \A p \in Publishers : WF_vars(NotifyReaders(p))
    /\ \A r \in Readers : WF_vars(ResumeDequeue(r)) /\ WF_vars(Deliver(r))

FairSpec == Spec /\ Fairness
-----------------------------------------------------------------------------
(***************************************************************************)
(* Properties.                                                             *)
(***************************************************************************)
\* The ring keeps the last N - 1 signals: those from Oldest on.
Oldest == IF next_sig_id <= N THEN 1 ELSE next_sig_id - (N - 1)

\* Ids are stored as they are: true of the code up to id 2^32 - 1.
IdsFit == MaxSig < IdMod

\* Head and tail delimit the retained signals, each of which lies complete in
\* its own slot, whatever overwrote the slot before; the head slot is nil.
\* (queue_signal: the order of fill, advance, push the tail, nil.)
RingHoldsWindow ==
    /\ head = Index(next_sig_id)
    /\ tail = Index(Oldest)
    /\ queue[head].sig_id = 0
    /\ \A id \in Oldest..(next_sig_id - 1) :
          queue[Index(id)] = [sig_id |-> id, payload |-> log[id]]

\* A callback is never given, under an id, the payload of another signal, even
\* when its subscriber was lapped.  (dequeue_signal reads the slot again after
\* the catch-up with the tail.)
DeliveredAsPublished ==
    \A s \in Subscribers : \A k \in 1..Len(delivered[s]) :
        /\ delivered[s][k].id \in DOMAIN log
        /\ delivered[s][k].payload = log[delivered[s][k].id]

\* No subscriber processes a signal twice or out of order, also when several
\* threads read for it and calls end with not_processed.
DeliveredInOrder ==
    \A s \in Subscribers : \A j, k \in 1..Len(delivered[s]) :
        j < k => delivered[s][j].id < delivered[s][k].id

\* No wake-up is lost: a reader asleep although its predicate holds is about
\* to be woken by a publisher that left the mutex but has yet to notify.
NoLostWakeup ==
    \A r \in Readers :
        reader[r] = "waiting" /\ Check(SubOf[r])
            => \E p \in Publishers : publisher[p] = "notify"

\* The cursor of a subscriber passes a signal only because the callback has
\* just processed it or because the ring no longer holds it: a subscriber
\* less than N signals behind loses nothing.
PassesOnlyProcessedOrOverwritten ==
    [][\A s \in Subscribers : Opened(s) =>
         \A id \in sig_id[s]..(sig_id'[s] - 1) :
             \/ id < Oldest
             \/ /\ Len(delivered'[s]) = Len(delivered[s]) + 1
                /\ delivered'[s][Len(delivered'[s])].id = id]_vars

\* Signals lost between two that were processed one after the other.
Gap(s, k) == delivered[s][k].id - delivered[s][k - 1].id - 1

\* Whatever is lost right before a signal is reported with it.  A signal that
\* nothing was lost before reports no loss, or repeats the report of the signal
\* before it (dequeue_signal does not reset lost_signal_count in its loop).
LossReportedWithItsSignal ==
    \A s \in Subscribers : \A k \in 2..Len(delivered[s]) :
        \/ delivered[s][k].lost = Gap(s, k)
        \/ Gap(s, k) = 0 /\ delivered[s][k].lost = delivered[s][k - 1].lost

Behind(s) == sig_id[s] < next_sig_id

\* The subscriber is a whole number of laps behind: its slot is the head slot.
WholeLapsBehind(s) == Behind(s) /\ Index(sig_id[s]) = head

\* The predicate of the wait compares ids in slots, not cursors: still a reader
\* sleeps through signals in one case only, when the slot of its cursor happens
\* to be the head slot, which is nil.  (dequeue_signal: the wait's predicate.)
SleepsOnlyIfLapped ==
    \A r \in Readers :
        reader[r] = "waiting" /\ Behind(SubOf[r])
            => \/ WholeLapsBehind(SubOf[r])
               \/ \E p \in Publishers : publisher[p] = "notify"

InCall(r) == reader[r] # "idle"

\* A reader of a subscriber that has signals to read returns, unless another
\* thread reads them first.
SignalsAreServed ==
    \A r \in Readers :
        InCall(r) /\ Behind(SubOf[r]) ~> ~InCall(r) \/ ~Behind(SubOf[r])

\* The same for what the code does: a subscriber a whole number of laps behind
\* waits for the publication of one more signal.
SignalsAreServedUnlessLapped ==
    \A r \in Readers :
        InCall(r) /\ Behind(SubOf[r])
            ~> \/ ~InCall(r)
               \/ ~Behind(SubOf[r])
               \/ WholeLapsBehind(SubOf[r])
-----------------------------------------------------------------------------
(***************************************************************************)
(* The inductive invariant: the window the ring holds, where a cursor may  *)
(* stand and who holds the mutex, what was delivered, who is to notify.    *)
(***************************************************************************)
Window == Len(log) = next_sig_id - 1 /\ RingHoldsWindow

Cursors ==
    /\ \A s \in Subscribers : sig_id[s] <= next_sig_id
    /\ \A r \in Readers : InCall(r) => Opened(SubOf[r])
    /\ \A r \in Readers : reader[r] = "delivering" <=> mutex = r
    /\ \A r \in Readers : reader[r] = "delivering" =>
         sig_id[SubOf[r]] \in Oldest..(next_sig_id - 1)

History ==
    /\ DeliveredAsPublished
    /\ DeliveredInOrder
    /\ \A s \in Subscribers : \A k \in 1..Len(delivered[s]) :
         delivered[s][k].id < sig_id[s]

IInv == TypeOK /\ Window /\ Cursors /\ History /\ NoLostWakeup

-----------------------------------------------------------------------------
(***************************************************************************)
(* The queue implements the log of SignalLog with the capacity N - 1.      *)
(***************************************************************************)
Received == [s \in Subscribers |->
               [k \in 1..Len(delivered[s]) |->
                  <<delivered[s][k].id, delivered[s][k].payload>>]]

Log == INSTANCE SignalLog
         WITH Capacity <- N - 1, cursor <- sig_id, received <- Received

\* Each subscriber receives what was written, in order and from where it
\* opened the file, less what N - 1 newer signals have overwritten; every step
\* of the queue is a step of the log or leaves the log as it is.
ImplementsSignalLog == Log!Spec
=============================================================================
