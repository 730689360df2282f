------------------------------- MODULE FuseIO -------------------------------
(***************************************************************************)
(* read(2) and write(2) on signal files: do_read, read_interrupt, do_write *)
(* and the worker threads of the session (src/sigfs.cc), with the queue's  *)
(* mutex and libfuse's lock of a request.                                  *)
(*                                                                         *)
(* A read request sleeps in dequeue_signal until there is a signal or the  *)
(* request is interrupted, and occupies its worker meanwhile.  libfuse     *)
(* calls read_interrupt, on another worker, with the lock of the request   *)
(* held; that takes read_ready_mutex_ to set the flag of the subscriber.   *)
(* The reader that finds the flag calls libfuse, which takes the lock of   *)
(* the request, with read_ready_mutex_ held.                               *)
(*                                                                         *)
(* A write request holds several records.  Each becomes a signal in a      *)
(* critical section of its own; a malformed record ends the request.       *)
(*                                                                         *)
(* A read is answered after the mutex was released, from the payload       *)
(* buffers of the slots: do_read collects pointers to them, no copies.     *)
(*                                                                         *)
(* The ring is reduced to its ids (SigQueue has the rest): the payload of  *)
(* a signal is its id.  A sleeping reader is one whose predicate is false: *)
(* SigQueue shows that no wake-up is lost.  libfuse and the kernel are     *)
(* external: requests are queued in the order of arrival, interrupts       *)
(* before all others, and a reply longer than its buffer is an error.      *)
(***************************************************************************)
EXTENDS Integers, Sequences, FiniteSetsExt

CONSTANTS
    N,              \* slots of the ring
    MaxBatch,       \* signals of one reply: 20, given iov[40]
    Buffers,        \* what is written: sequences of the sizes of records
    Rooms,          \* sizes of the readers' buffers
    Workers,        \* threads of the session
    MaxSig,         \* bound of the model: ids above it are never assigned
    MaxInterrupts,  \* bound of the model: interrupts, per subscriber
    Publishers,     \* application threads that write
    Readers,        \* application threads that read
    Subscribers,    \* the open file descriptors
    SubOf           \* the subscriber of the descriptor each reader reads

\* A record that the end of the buffer cuts off, in its header or its payload.
Malformed == 0

ASSUME IOAssumption ==
    /\ N \in Nat /\ N >= 4
    /\ MaxBatch \in Nat \ {0} /\ MaxSig \in Nat /\ MaxInterrupts \in Nat
    /\ Workers \in Nat \ {0}
    /\ Buffers \subseteq Seq(Nat) /\ Rooms \subseteq Nat
    /\ SubOf \in [Readers -> Subscribers]
    /\ IsFiniteSet(Readers) /\ IsFiniteSet(Publishers)
    /\ Readers \cap Publishers = {}

VARIABLES
    size,          \* of the signals: what each takes in a reply, by id
    sig_id,        \* per subscriber: id to read next
    interrupted,   \* per subscriber: interrupted_
    mutex,         \* holder of read_ready_mutex_ between two steps, or Free
    pending,       \* requests that no worker has taken yet
    writer,        \* per publisher: "idle", "asked" or "writing"
    buffer,        \* per publisher: the records still to be queued
    reader,        \* per reader: where its request is
    room,          \* per reader: the size argument of its request
    func,          \* per reader: libfuse has read_interrupt for its request
    interrupter,   \* per reader: where the interrupt of its request is
    batch,         \* per reader: the signals collected for the reply
    received,      \* history, per subscriber: what the application was given
    dropped,       \* history, per subscriber: ids in replies that were too long
    dequeued,      \* history, per subscriber: ids in the order they were taken
    interrupts,    \* history, per subscriber: interrupted requests
    eintrs         \* history, per subscriber: requests answered with EINTR

queueVars == <<size, sig_id>>
writeVars == <<writer, buffer>>
requestVars == <<func, interrupter, room>>
replyVars == <<batch, received, dropped, dequeued>>
countVars == <<interrupts, eintrs>>
vars == <<queueVars, interrupted, mutex, pending, writeVars, reader,
          requestVars, replyVars, countVars>>

Free == "free"
Garbage == 0       \* bytes of a buffer that was freed
Ids == Nat \ {0}

ASSUME FreeAssumption == Free \notin Readers

Signals == [id : Ids, payload : Ids \cup {Garbage}]

TypeOK ==
    /\ size \in Seq(Nat)
    /\ sig_id \in [Subscribers -> Ids]
    /\ interrupted \in [Subscribers -> BOOLEAN]
    /\ mutex \in Readers \cup {Free}
    /\ pending \in Seq(Publishers \cup Readers)
    /\ writer \in [Publishers -> {"idle", "asked", "writing"}]
    /\ buffer \in [Publishers -> Seq(Nat)]
    /\ reader \in [Readers -> {"idle", "asked", "registering", "interrupting",
                               "dequeuing", "abandoning", "clearing",
                               "replying"}]
    /\ room \in [Readers -> Nat]
    /\ func \in [Readers -> BOOLEAN]
    /\ interrupter \in [Readers -> {"none", "sent", "calling", "done"}]
    /\ batch \in [Readers -> SUBSET Ids]
    /\ received \in [Subscribers -> SUBSET Signals]
    /\ dropped \in [Subscribers -> SUBSET Ids]
    /\ dequeued \in [Subscribers -> Seq(Ids)]
    /\ interrupts \in [Subscribers -> 0..MaxInterrupts]
    /\ eintrs \in [Subscribers -> Nat]

-----------------------------------------------------------------------------
next_sig_id == Len(size) + 1
Oldest == IF next_sig_id <= N THEN 1 ELSE next_sig_id - (N - 1)

\* The cursor is not in the head slot: dequeue_signal does not sleep.
SignalAvailable(s) == (next_sig_id - sig_id[s]) % N # 0

\* libfuse holds the lock of the request while it calls read_interrupt.
RequestLocked(r) == interrupter[r] = "calling"

InDoRead(r) == reader[r] \notin {"idle", "asked"}

WorkerFree ==
    Cardinality({r \in Readers : InDoRead(r)})
        + Cardinality({r \in Readers : interrupter[r] = "calling"})
        + Cardinality({w \in Publishers : writer[w] = "writing"}) < Workers

Init ==
    /\ size = <<>>
    /\ sig_id = [s \in Subscribers |-> 1]
    /\ interrupted = [s \in Subscribers |-> FALSE]
    /\ mutex = Free
    /\ pending = <<>>
    /\ writer = [w \in Publishers |-> "idle"]
    /\ buffer = [w \in Publishers |-> <<>>]
    /\ reader = [r \in Readers |-> "idle"]
    /\ room = [r \in Readers |-> 0]
    /\ func = [r \in Readers |-> FALSE]
    /\ interrupter = [r \in Readers |-> "none"]
    /\ batch = [r \in Readers |-> {}]
    /\ received = [s \in Subscribers |-> {}]
    /\ dropped = [s \in Subscribers |-> {}]
    /\ dequeued = [s \in Subscribers |-> <<>>]
    /\ interrupts = [s \in Subscribers |-> 0]
    /\ eintrs = [s \in Subscribers |-> 0]

-----------------------------------------------------------------------------
(***************************************************************************)
(* The applications, the kernel and the session loop.                      *)
(***************************************************************************)
Write(w) ==
    /\ writer[w] = "idle"
    /\ \E records \in Buffers :
         /\ Len(size) + Len(records)
              + MapThenSumSet(LAMBDA v : Len(buffer[v]), Publishers) <= MaxSig
         /\ buffer' = [buffer EXCEPT ![w] = records]
    /\ writer' = [writer EXCEPT ![w] = "asked"]
    /\ pending' = Append(pending, w)
    /\ UNCHANGED <<queueVars, interrupted, mutex, reader, requestVars,
                   replyVars, countVars>>

Read(r) ==
    /\ reader[r] = "idle"
    /\ \E bytes \in Rooms : room' = [room EXCEPT ![r] = bytes]
    /\ reader' = [reader EXCEPT ![r] = "asked"]
    /\ interrupter' = [interrupter EXCEPT ![r] = "none"]
    /\ pending' = Append(pending, r)
    /\ UNCHANGED <<queueVars, interrupted, mutex, writeVars, func, replyVars,
                   countVars>>

\* A Unix signal for a thread whose read is in the hands of do_read.
Interrupt(r) ==
    /\ InDoRead(r)
    /\ interrupter[r] = "none"
    /\ interrupts[SubOf[r]] < MaxInterrupts
    /\ interrupter' = [interrupter EXCEPT ![r] = "sent"]
    /\ interrupts' = [interrupts EXCEPT ![SubOf[r]] = @ + 1]
    /\ UNCHANGED <<queueVars, interrupted, mutex, pending, writeVars, reader,
                   func, room, replyVars, eintrs>>

\* A worker takes the oldest request.
TakeRequest ==
    /\ WorkerFree
    /\ \A r \in Readers : interrupter[r] # "sent"
    /\ pending # <<>>
    /\ LET who == Head(pending)
       IN  \/ /\ who \in Publishers
              /\ writer' = [writer EXCEPT ![who] = "writing"]
              /\ UNCHANGED reader
           \/ /\ who \in Readers
              /\ reader' = [reader EXCEPT ![who] = "registering"]
              /\ UNCHANGED writer
    /\ pending' = Tail(pending)
    /\ UNCHANGED <<queueVars, interrupted, mutex, buffer, requestVars,
                   replyVars, countVars>>

\* A worker takes an interrupt.  It has no effect on a request that is done.
TakeInterrupt(r) ==
    /\ WorkerFree
    /\ interrupter[r] = "sent"
    /\ interrupter' = [interrupter EXCEPT ![r] =
                         CASE InDoRead(r) /\ func[r] -> "calling"
                           [] InDoRead(r) /\ ~func[r] -> "done"
                           [] ~InDoRead(r) -> "none"]
    /\ UNCHANGED <<queueVars, interrupted, mutex, pending, writeVars, reader,
                   func, room, replyVars, countVars>>

\* Mistakes that the properties have to notice are named ...Mutant: here, the
\* flag is set without read_ready_mutex_.
UnlockedMutant(r) ==
    /\ interrupter[r] = "calling"
    /\ interrupted' = [interrupted EXCEPT ![SubOf[r]] = TRUE]
    /\ interrupter' = [interrupter EXCEPT ![r] = "done"]
    /\ UNCHANGED <<queueVars, mutex, pending, writeVars, reader, func, room,
                   replyVars, countVars>>

\* read_interrupt.
ReadInterrupt(r) ==
    /\ interrupter[r] = "calling"
    /\ mutex = Free
    /\ interrupted' = [interrupted EXCEPT ![SubOf[r]] = TRUE]
    /\ interrupter' = [interrupter EXCEPT ![r] = "done"]
    /\ UNCHANGED <<queueVars, mutex, pending, writeVars, reader, func, room,
                   replyVars, countVars>>

-----------------------------------------------------------------------------
(***************************************************************************)
(* do_write.                                                               *)
(***************************************************************************)

\* The writer waits until no read is under way.
QueueSignalMutant(w) ==
    /\ writer[w] = "writing"
    /\ buffer[w] # <<>> /\ Head(buffer[w]) # Malformed
    /\ mutex = Free
    /\ \A r \in Readers : ~InDoRead(r)
    /\ size' = Append(size, Head(buffer[w]))
    /\ buffer' = [buffer EXCEPT ![w] = Tail(@)]
    /\ UNCHANGED <<sig_id, interrupted, mutex, pending, writer, reader,
                   requestVars, replyVars, countVars>>

QueueSignal(w) ==
    /\ writer[w] = "writing"
    /\ buffer[w] # <<>> /\ Head(buffer[w]) # Malformed
    /\ mutex = Free
    /\ size' = Append(size, Head(buffer[w]))
    /\ buffer' = [buffer EXCEPT ![w] = Tail(@)]
    /\ UNCHANGED <<sig_id, interrupted, mutex, pending, writer, reader,
                   requestVars, replyVars, countVars>>

\* Without a record left the size of the buffer is the answer, with a malformed
\* one EINVAL; the records before it are published already.
AnswerWrite(w) ==
    /\ writer[w] = "writing"
    /\ buffer[w] # <<>> => Head(buffer[w]) = Malformed
    /\ writer' = [writer EXCEPT ![w] = "idle"]
    /\ buffer' = [buffer EXCEPT ![w] = <<>>]
    /\ UNCHANGED <<queueVars, interrupted, mutex, pending, reader, requestVars,
                   replyVars, countVars>>

-----------------------------------------------------------------------------
(***************************************************************************)
(* do_read.                                                                *)
(***************************************************************************)

\* An interrupt that came early is forgotten.
RegisterMutant(r) ==
    /\ reader[r] = "registering"
    /\ func' = [func EXCEPT ![r] = TRUE]
    /\ reader' = [reader EXCEPT ![r] = "dequeuing"]
    /\ UNCHANGED <<queueVars, interrupted, mutex, pending, writeVars,
                   interrupter, room, replyVars, countVars>>

\* fuse_req_interrupt_func calls read_interrupt for a request that was
\* interrupted before.
Register(r) ==
    /\ reader[r] = "registering"
    /\ func' = [func EXCEPT ![r] = TRUE]
    /\ reader' = [reader EXCEPT ![r] = IF interrupter[r] = "done"
                                       THEN "interrupting" ELSE "dequeuing"]
    /\ UNCHANGED <<queueVars, interrupted, mutex, pending, writeVars,
                   interrupter, room, replyVars, countVars>>

InterruptSelf(r) ==
    /\ reader[r] = "interrupting"
    /\ mutex = Free
    /\ interrupted' = [interrupted EXCEPT ![SubOf[r]] = TRUE]
    /\ reader' = [reader EXCEPT ![r] = "dequeuing"]
    /\ UNCHANGED <<queueVars, mutex, pending, writeVars, requestVars,
                   replyVars, countVars>>

\* dequeue_signal finds the flag set and begins the callback, mutex held.
FindInterrupted(r) ==
    /\ reader[r] = "dequeuing"
    /\ mutex = Free
    /\ interrupted[SubOf[r]]
    /\ mutex' = r
    /\ reader' = [reader EXCEPT ![r] = "abandoning"]
    /\ UNCHANGED <<queueVars, interrupted, pending, writeVars, requestVars,
                   replyVars, countVars>>

\* The request is answered; an interrupt under way finds it done.
EndRequest(r) ==
    /\ reader' = [reader EXCEPT ![r] = "idle"]
    /\ func' = [func EXCEPT ![r] = FALSE]
    /\ room' = [room EXCEPT ![r] = 0]
    /\ interrupter' = [interrupter EXCEPT ![r] =
                         IF @ = "done" THEN "none" ELSE @]

\* The flag is not cleared.
AbandonMutant(r) ==
    /\ reader[r] = "abandoning"
    /\ ~RequestLocked(r)
    /\ EndRequest(r)
    /\ mutex' = Free
    /\ eintrs' = [eintrs EXCEPT ![SubOf[r]] = @ + 1]
    /\ UNCHANGED <<queueVars, interrupted, pending, writeVars, replyVars,
                   interrupts>>

\* The callback nils the interrupt function, then clears the flag; the request
\* is answered with EINTR.
Abandon(r) ==
    /\ reader[r] = "abandoning"
    /\ ~RequestLocked(r)
    /\ EndRequest(r)
    /\ interrupted' = [interrupted EXCEPT ![SubOf[r]] = FALSE]
    /\ mutex' = Free
    /\ eintrs' = [eintrs EXCEPT ![SubOf[r]] = @ + 1]
    /\ UNCHANGED <<queueVars, pending, writeVars, replyVars, interrupts>>

\* The signals that one call of dequeue_signal hands to the callback, and that
\* it accepts.  Every signal is measured against the whole buffer: what the
\* others take of it is not counted (size_left is never decremented).
Fits(id, bytes) == size[id] <= bytes

TakenMutant(first, bytes) ==        \* from the signal before the cursor
    {id \in (first - 1)..(next_sig_id - 1) :
        id < first + MaxBatch /\ \A k \in first..id : Fits(k, bytes)}
Taken(first, bytes) ==
    {id \in first..(next_sig_id - 1) :
        id < first + MaxBatch /\ \A k \in first..id : Fits(k, bytes)}

\* A signal that does not fit is passed over.
CursorMutant(first, taken) ==
    first + Cardinality(taken) + (IF taken = {} THEN 1 ELSE 0)
Cursor(first, taken) == first + Cardinality(taken)

\* dequeue_signal with one callback for every signal it takes.
Dequeue(r) ==
    LET s == SubOf[r]
        first == IF sig_id[s] < Oldest THEN Oldest ELSE sig_id[s]
        taken == Taken(first, room[r])
    IN  /\ reader[r] = "dequeuing"
        /\ mutex = Free
        /\ ~interrupted[s]
        /\ SignalAvailable(s)
        /\ batch' = [batch EXCEPT ![r] = taken]
        /\ sig_id' = [sig_id EXCEPT ![s] = Cursor(first, taken)]
        /\ dequeued' = [dequeued EXCEPT
              ![s] = @ \o [k \in 1..Cardinality(taken) |-> first + k - 1]]
        /\ reader' = [reader EXCEPT ![r] = "clearing"]
        /\ UNCHANGED <<size, interrupted, mutex, pending, writeVars,
                       requestVars, received, dropped, countVars>>

ClearFunc(r) ==
    /\ reader[r] = "clearing"
    /\ ~RequestLocked(r)
    /\ func' = [func EXCEPT ![r] = FALSE]
    /\ reader' = [reader EXCEPT ![r] = "replying"]
    /\ UNCHANGED <<queueVars, interrupted, mutex, pending, writeVars,
                   interrupter, room, replyVars, countVars>>

\* The bytes behind the payload pointer of a signal.  queue_signal writes into
\* the buffer of the slot or frees it for a larger one.
Bytes(id) ==
    IF id + N < next_sig_id
    THEN {id, Garbage} \cup {k \in 1..Len(size) : k % N = id % N}
    ELSE {id}

Total(ids) == MapThenSumSet(LAMBDA id : size[id], ids)

\* The kernel refuses a reply that is longer than the buffer.
Reply(r) ==
    LET s == SubOf[r]
    IN  /\ reader[r] = "replying"
        /\ \/ /\ Total(batch[r]) <= room[r]
              /\ \E payload \in [batch[r] -> 0..Len(size)] :
                   /\ \A id \in batch[r] : payload[id] \in Bytes(id)
                   /\ received' = [received EXCEPT ![s] =
                        @ \cup {[id |-> id, payload |-> payload[id]] :
                                  id \in batch[r]}]
              /\ UNCHANGED dropped
           \/ /\ Total(batch[r]) > room[r]
              /\ dropped' = [dropped EXCEPT ![s] = @ \cup batch[r]]
              /\ UNCHANGED received
        /\ batch' = [batch EXCEPT ![r] = {}]
        /\ EndRequest(r)
        /\ UNCHANGED <<queueVars, interrupted, mutex, pending, writeVars,
                       dequeued, countVars>>

-----------------------------------------------------------------------------
DoWrite(w) == QueueSignal(w) \/ AnswerWrite(w)

DoRead(r) ==
    \/ Register(r) \/ InterruptSelf(r) \/ FindInterrupted(r) \/ Abandon(r)
    \/ Dequeue(r) \/ ClearFunc(r) \/ Reply(r)

Next ==
    \/ TakeRequest
    \/ \E w \in Publishers : Write(w) \/ DoWrite(w)
    \/ \E r \in Readers : \/ Read(r)
                          \/ DoRead(r)
                          \/ Interrupt(r)
                          \/ TakeInterrupt(r)
                          \/ ReadInterrupt(r)

Spec == Init /\ [][Next]_vars

\* A worker that is free takes a request, and goes on with it.  Nobody has to
\* read, to write or to interrupt.
Fairness ==
    /\ WF_vars(TakeRequest)
    /\ \A w \in Publishers : WF_vars(DoWrite(w))
    /\ \A r \in Readers : /\ WF_vars(DoRead(r))
                          /\ WF_vars(TakeInterrupt(r))
                          /\ WF_vars(ReadInterrupt(r))

FairSpec == Spec /\ Fairness

-----------------------------------------------------------------------------
(***************************************************************************)
(* Properties.                                                             *)
(***************************************************************************)

\* A reader in the callback waits for the lock of its request, the interrupter
\* that holds this lock waits for the mutex that the reader holds.
LockedOut == \E r \in Readers : reader[r] = "abandoning" /\ RequestLocked(r)

\* Every worker sleeps in a read: there is none for the write, or the interrupt,
\* that would end it.
Exhausted ==
    Cardinality({r \in Readers : /\ reader[r] = "dequeuing"
                                 /\ ~interrupted[SubOf[r]]
                                 /\ ~SignalAvailable(SubOf[r])}) = Workers

\* Such a deadlock takes two interrupts that ended no read yet: one whose flag
\* the reader found, and one more that came before its callback.
DeadlockTakesTwoInterrupts ==
    \A r \in Readers : reader[r] = "abandoning" /\ RequestLocked(r)
        => interrupts[SubOf[r]] >= eintrs[SubOf[r]] + 2

\* It is for good, and for everybody: no signal of the file is written or read
\* any more.
LockedOutForGood ==
    [][LockedOut => LockedOut' /\ UNCHANGED queueVars]_vars

\* One interrupt ends at most one read, although the flag belongs to the
\* subscriber and outlives the request that it was set for.
InterruptsEndOneRead ==
    \A s \in Subscribers : eintrs[s] <= interrupts[s]

\* A signal that the cursor has passed, and that the ring still holds, was given
\* to the application or is about to be: reads that are interrupted, or have too
\* small a buffer, lose none.  The exception are the signals of a reply that is
\* longer than its buffer.
NothingVanishes ==
    \A s \in Subscribers : \A id \in Oldest..(sig_id[s] - 1) :
        \/ \E sig \in received[s] : sig.id = id
        \/ \E r \in Readers : SubOf[r] = s /\ id \in batch[r]
        \/ id \in dropped[s]

\* An interrupted read returns, by a signal or with EINTR, wherever in do_read
\* the interrupt meets it, unless the threads block each other.
InterruptedReadEnds ==
    \A r \in Readers : interrupter[r] # "none" /\ InDoRead(r)
                         ~> reader[r] = "idle" \/ LockedOut \/ Exhausted

\* A write never blocks.  (README.md, "Writes never blocks".)
WritesComplete ==
    \A w \in Publishers : writer[w] = "asked" ~> writer[w] = "idle"

\* Only two things make a write block: the two locks taken in opposite orders,
\* and readers that occupy all workers.
WritesCompleteUnlessLockedOut ==
    \A w \in Publishers :
        writer[w] = "asked" ~> writer[w] = "idle" \/ LockedOut \/ Exhausted

\* A reply has the payload of a signal as it was published.
ReplyAsPublished ==
    \A s \in Subscribers : \A sig \in received[s] : sig.payload = sig.id

\* A reply fits into the buffer of the reader; what does not is read later.
\* (README.md, "Atomic read/writes".)
ReplyFits == \A r \in Readers : Total(batch[r]) <= room[r]

-----------------------------------------------------------------------------
(***************************************************************************)
(* Reads and writes implement the log of SignalLog with the capacity N - 1 *)
(* (the payload of a signal is its size here).                             *)
(***************************************************************************)
Sizes == UNION {{records[k] : k \in DOMAIN records} : records \in Buffers}

Dequeued == [s \in Subscribers |->
               [k \in 1..Len(dequeued[s]) |->
                  <<dequeued[s][k], size[dequeued[s][k]]>>]]

Log == INSTANCE SignalLog
         WITH Capacity <- N - 1, Payloads <- Sizes \ {Malformed},
              log <- size, cursor <- sig_id, received <- Dequeued

\* What dequeue_signal hands to reads are the signals of the log, each once and
\* in order, less what N - 1 newer ones have overwritten: wherever interrupts
\* meet a read, however small its buffer, and whoever shares its descriptor.
ImplementsSignalLog == Log!Spec
=============================================================================
