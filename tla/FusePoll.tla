------------------------------ MODULE FusePoll ------------------------------
(***************************************************************************)
(* poll(2) on signal files: do_poll, do_release and class PolledSubscriber *)
(* (src/sigfs.cc), with the part of Queue::queue_signal that calls the     *)
(* read notifiers (src/queue.cc).                                          *)
(*                                                                         *)
(* An application thread (a poller) that finds nothing to read leaves a    *)
(* poll handle with its descriptor's subscriber and sleeps in the kernel.  *)
(* A publisher wakes it through the handle, destroys the handle and        *)
(* forgets it.  do_poll looks for signals under read_ready_mutex_, but it  *)
(* stores the handle under no lock and subscribes under another one; each  *)
(* access to poll_handle_ is a step here, as the accesses are unordered.   *)
(*                                                                         *)
(* The ring is reduced to the ids that decide signal_available_; SigQueue  *)
(* has the rest.  FUSE and the kernel are external: a request is served by *)
(* one of the Workers threads of libfuse; a notification makes every       *)
(* sleeper on the descriptor, or about to sleep on it, poll again.         *)
(***************************************************************************)
EXTENDS Integers, FiniteSets

CONSTANTS
    N,           \* slots of the ring
    MaxSig,      \* bound of the model: ids above it are never assigned
    MaxHandles,  \* bound of the model: poll handles that exist at a time
    Workers,     \* threads of the FUSE session: max_threads, or 1 with -s
    Publishers,  \* threads whose write requests publish a signal
    Fds,         \* open file descriptors, each with its PolledSubscriber
    Pollers,     \* application threads that poll
    FdOf         \* the descriptor each of them polls

ASSUME PollAssumption ==
    /\ N \in Nat /\ N >= 4
    /\ MaxSig \in Nat /\ MaxHandles \in Nat /\ Workers \in Nat \ {0}
    /\ FdOf \in [Pollers -> Fds]
    /\ IsFiniteSet(Pollers) /\ IsFiniteSet(Publishers)

VARIABLES
    next_sig_id,
    sig_id,         \* per descriptor: id to read next, 0 while it is closed
    poll_handle,    \* per descriptor: poll_handle_, or None
    poll_events,    \* per descriptor: whether poll_events_ holds POLLIN
    read_notifiers, \* descriptors that subscribed to read notifications
    poller,         \* per poller: where its call to poll is
    wants_in,       \* per poller: its call to poll asks for POLLIN
    ph,             \* per poller: the handle that came with its request
    triggered,      \* per poller: notified since it last asked
    writer,         \* per publisher: where its queue_signal is
    todo,           \* per publisher: notifiers its loop has yet to call
    current,        \* per publisher: the notifier it is calling
    alive,          \* handles not yet destroyed, but for those that
                    \* do_release leaves behind for good
    misused         \* a destroyed handle was used or destroyed again

queueVars == <<next_sig_id, sig_id>>
subVars == <<poll_handle, poll_events, read_notifiers>>
pollerVars == <<poller, wants_in, ph, triggered>>
writerVars == <<writer, todo, current>>
handleVars == <<alive, misused>>
vars == <<queueVars, subVars, pollerVars, writerVars, handleVars>>

None == 0
Handles == 1..MaxHandles

TypeOK ==
    /\ next_sig_id \in 1..(MaxSig + 1)
    /\ sig_id \in [Fds -> 0..(MaxSig + 1)]
    /\ poll_handle \in [Fds -> Handles \cup {None}]
    /\ poll_events \in [Fds -> BOOLEAN]
    /\ read_notifiers \subseteq Fds
    /\ poller \in [Pollers -> {"idle", "asked", "dropping", "storing",
                               "subscribing", "peeking", "asleep", "awoken",
                               "ready"}]
    /\ wants_in \in [Pollers -> BOOLEAN]
    /\ ph \in [Pollers -> Handles \cup {None}]
    /\ triggered \in [Pollers -> BOOLEAN]
    /\ writer \in [Publishers -> {"idle", "looping", "notifying",
                                  "destroying", "clearing"}]
    /\ todo \in [Publishers -> SUBSET Fds]
    /\ current \in [Publishers -> Fds \cup {None}]
    /\ alive \subseteq Handles
    /\ misused \in BOOLEAN

-----------------------------------------------------------------------------
Opened(f) == sig_id[f] # 0
Oldest == IF next_sig_id <= N THEN 1 ELSE next_sig_id - (N - 1)

\* signal_available_: something was published, and the cursor's slot is not
\* the head slot.
SignalAvailable(f) ==
    next_sig_id # 1 /\ (next_sig_id - sig_id[f]) % N # 0

\* queue_signal holds read_ready_mutex_ and read_notifiers_mutex_ in its loop.
MutexFree == \A w \in Publishers : writer[w] = "idle"

InDoPoll(p) ==
    poller[p] \in {"dropping", "storing", "subscribing", "peeking"}

\* The kernel waits for a notification for this thread, which has a handle.
Waits(p) == poller[p] \in {"subscribing", "asleep", "awoken"} \/ ph[p] # None

WorkerFree ==
    Cardinality({p \in Pollers : InDoPoll(p)})
        + Cardinality({w \in Publishers : writer[w] # "idle"}) < Workers

\* fuse_pollhandle_destroy, and the use of a handle to notify.
Destroy(h) ==
    /\ alive' = alive \ {h}
    /\ misused' = (misused \/ h \notin alive \cup {None})

Use(h) ==
    /\ misused' = (misused \/ h \notin alive \cup {None})
    /\ UNCHANGED alive

\* A handle that is not allocated and that nobody refers to.
Unused == Handles \ (alive \cup {poll_handle[f] : f \in Fds}
                           \cup {ph[p] : p \in Pollers})

-----------------------------------------------------------------------------
Init ==
    /\ next_sig_id = 1
    /\ sig_id = [f \in Fds |-> 0]
    /\ poll_handle = [f \in Fds |-> None]
    /\ poll_events = [f \in Fds |-> FALSE]
    /\ read_notifiers = {}
    /\ poller = [p \in Pollers |-> "idle"]
    /\ wants_in = [p \in Pollers |-> FALSE]
    /\ ph = [p \in Pollers |-> None]
    /\ triggered = [p \in Pollers |-> FALSE]
    /\ writer = [w \in Publishers |-> "idle"]
    /\ todo = [w \in Publishers |-> {}]
    /\ current = [w \in Publishers |-> None]
    /\ alive = {}
    /\ misused = FALSE

\* do_open: a new PolledSubscriber, with neither handle nor events.
DoOpen(f) ==
    /\ ~Opened(f)
    /\ MutexFree
    /\ sig_id' = [sig_id EXCEPT ![f] = next_sig_id]
    /\ poll_handle' = [poll_handle EXCEPT ![f] = None]
    /\ poll_events' = [poll_events EXCEPT ![f] = FALSE]
    /\ UNCHANGED <<next_sig_id, read_notifiers, pollerVars, writerVars,
                   handleVars>>

\* do_release: the destructor unsubscribes; it deletes the subscriber with its
\* handle, which nobody can destroy any more.
DoRelease(f) ==
    /\ Opened(f)
    /\ MutexFree
    /\ \A p \in Pollers : FdOf[p] = f => poller[p] = "idle"
    /\ sig_id' = [sig_id EXCEPT ![f] = 0]
    /\ read_notifiers' = read_notifiers \ {f}
    /\ poll_handle' = [poll_handle EXCEPT ![f] = None]
    /\ alive' = alive \ {poll_handle[f]}
    /\ UNCHANGED <<next_sig_id, poll_events, pollerVars, writerVars, misused>>

-----------------------------------------------------------------------------
(***************************************************************************)
(* The application and the kernel.                                         *)
(***************************************************************************)

\* A poll request, with a new handle as a thread is going to wait.
Ask(p, events_in) ==
    /\ Opened(FdOf[p])
    /\ \E h \in Unused :
         /\ \A i \in Unused : h <= i
         /\ ph' = [ph EXCEPT ![p] = h]
         /\ alive' = alive \cup {h}
    /\ triggered' = [triggered EXCEPT ![p] = FALSE]
    /\ wants_in' = [wants_in EXCEPT ![p] = events_in]
    /\ poller' = [poller EXCEPT ![p] = "asked"]
    /\ UNCHANGED <<queueVars, subVars, writerVars, misused>>

CallPoll(p) ==
    /\ poller[p] = "idle"
    /\ \E events_in \in BOOLEAN : Ask(p, events_in)

\* A poll that does not wait, its timeout being zero, while no thread waits on
\* the descriptor: the request has no handle.
Peek(p) ==
    /\ poller[p] = "idle"
    /\ Opened(FdOf[p])
    /\ \A q \in Pollers : FdOf[q] = FdOf[p] => ~Waits(q)
    /\ \E events_in \in BOOLEAN :
         wants_in' = [wants_in EXCEPT ![p] = events_in]
    /\ triggered' = [triggered EXCEPT ![p] = FALSE]
    /\ poller' = [poller EXCEPT ![p] = "asked"]
    /\ UNCHANGED <<queueVars, subVars, ph, writerVars, handleVars>>

\* The kernel asks again for a sleeper that was notified.
PollAgain(p) ==
    /\ poller[p] = "awoken"
    /\ Ask(p, wants_in[p])

\* The call ends without an event, by its timeout or by a Unix signal.
PollEnds(p) ==
    /\ poller[p] = "asleep"
    /\ poller' = [poller EXCEPT ![p] = "idle"]
    /\ UNCHANGED <<queueVars, subVars, wants_in, ph, triggered, writerVars,
                   handleVars>>

\* Mistakes that the properties have to notice are named ...Mutant: here, the
\* cursor may pass the newest signal.
ReadMutant(p) ==
    /\ poller[p] = "ready"
    /\ MutexFree
    /\ SignalAvailable(FdOf[p])
    /\ sig_id' = [sig_id EXCEPT ![FdOf[p]] = next_sig_id + 1]
    /\ poller' = [poller EXCEPT ![p] = "idle"]
    /\ UNCHANGED <<next_sig_id, subVars, wants_in, ph, triggered, writerVars,
                   handleVars>>

\* The application reads some of what is there (do_read, in SigQueue).
Read(p) ==
    LET f == FdOf[p]
        first == IF sig_id[f] < Oldest THEN Oldest ELSE sig_id[f]
    IN  /\ poller[p] = "ready"
        /\ MutexFree
        /\ SignalAvailable(f)
        /\ \E id \in (first + 1)..next_sig_id :
             sig_id' = [sig_id EXCEPT ![f] = id]
        /\ poller' = [poller EXCEPT ![p] = "idle"]
        /\ UNCHANGED <<next_sig_id, subVars, wants_in, ph, triggered,
                       writerVars, handleVars>>

-----------------------------------------------------------------------------
(***************************************************************************)
(* do_poll.                                                                *)
(***************************************************************************)

\* With a signal available for POLLIN, reply at once and destroy the handle.
CheckAvailable(p) ==
    /\ poller[p] = "asked"
    /\ WorkerFree
    /\ MutexFree
    /\ \/ /\ wants_in[p] /\ SignalAvailable(FdOf[p])
          /\ poller' = [poller EXCEPT ![p] = "ready"]
          /\ ph' = [ph EXCEPT ![p] = None]
          /\ Destroy(ph[p])
       \/ /\ ~(wants_in[p] /\ SignalAvailable(FdOf[p]))
          /\ poller' = [poller EXCEPT ![p] = "dropping"]
          /\ UNCHANGED <<ph, handleVars>>
    /\ UNCHANGED <<queueVars, subVars, wants_in, triggered, writerVars>>

\* The old handle is overwritten without being destroyed.
DropMutant(p) ==
    /\ poller[p] = "dropping"
    /\ poller' = [poller EXCEPT ![p] = "storing"]
    /\ UNCHANGED <<queueVars, subVars, wants_in, ph, triggered, writerVars,
                   handleVars>>

\* poll_handle(ph): destroy the old handle,
DropOldHandle(p) ==
    /\ poller[p] = "dropping"
    /\ Destroy(poll_handle[FdOf[p]])
    /\ poller' = [poller EXCEPT ![p] = "storing"]
    /\ UNCHANGED <<queueVars, subVars, wants_in, ph, triggered, writerVars>>

\* then store the new one.
StoreHandle(p) ==
    /\ poller[p] = "storing"
    /\ poll_handle' = [poll_handle EXCEPT ![FdOf[p]] = ph[p]]
    /\ ph' = [ph EXCEPT ![p] = None]
    /\ poller' = [poller EXCEPT ![p] = IF ph[p] = None THEN "peeking"
                                                       ELSE "subscribing"]
    /\ UNCHANGED <<queueVars, poll_events, read_notifiers, wants_in,
                   triggered, writerVars, handleVars>>

\* poll_events(): (un)subscribe when POLLIN comes or goes; then reply that
\* there is no event, whereupon the kernel lets a thread that waits sleep.
Subscribe(p) ==
    LET f == FdOf[p]
    IN  /\ poller[p] \in {"subscribing", "peeking"}
        /\ wants_in[p] # poll_events[f] => MutexFree
        /\ read_notifiers' = IF wants_in[p] = poll_events[f]
                             THEN read_notifiers
                             ELSE IF wants_in[p] THEN read_notifiers \cup {f}
                                                ELSE read_notifiers \ {f}
        /\ poll_events' = [poll_events EXCEPT ![f] = wants_in[p]]
        /\ poller' = [poller EXCEPT ![p] =
                         CASE @ = "peeking" -> "idle"
                           [] @ # "peeking" /\ triggered[p] -> "awoken"
                           [] @ # "peeking" /\ ~triggered[p] -> "asleep"]
        /\ UNCHANGED <<queueVars, poll_handle, wants_in, ph, triggered,
                       writerVars, handleVars>>

-----------------------------------------------------------------------------
(***************************************************************************)
(* queue_signal and, for every notifier, queue_read_ready.                 *)
(***************************************************************************)
QueueSignal(w) ==
    /\ writer[w] = "idle"
    /\ WorkerFree
    /\ MutexFree
    /\ next_sig_id <= MaxSig
    /\ next_sig_id' = next_sig_id + 1
    /\ todo' = [todo EXCEPT ![w] = read_notifiers]
    /\ writer' = [writer EXCEPT ![w] = "looping"]
    /\ UNCHANGED <<sig_id, subVars, pollerVars, current, handleVars>>

\* Without a poll handle there is no action.
CallNotifier(w) ==
    /\ writer[w] = "looping"
    /\ \E f \in todo[w] :
         \/ /\ poll_handle[f] = None
            /\ todo' = [todo EXCEPT ![w] = @ \ {f}]
            /\ UNCHANGED <<writer, current>>
         \/ /\ poll_handle[f] # None
            /\ current' = [current EXCEPT ![w] = f]
            /\ writer' = [writer EXCEPT ![w] = "notifying"]
            /\ UNCHANGED todo
    /\ UNCHANGED <<queueVars, subVars, pollerVars, handleVars>>

NotifyPoll(w) ==
    LET f == current[w]
    IN  /\ writer[w] = "notifying"
        /\ Use(poll_handle[f])
        /\ poller' = [p \in Pollers |->
                        IF FdOf[p] = f /\ poller[p] = "asleep" THEN "awoken"
                                                               ELSE poller[p]]
        /\ triggered' = [p \in Pollers |->
                           triggered[p] \/ (FdOf[p] = f /\ poller[p] = "asked")
                                        \/ (FdOf[p] = f /\ InDoPoll(p))]
        /\ writer' = [writer EXCEPT ![w] = "destroying"]
        /\ UNCHANGED <<queueVars, subVars, wants_in, ph, todo, current>>

DestroyHandle(w) ==
    /\ writer[w] = "destroying"
    /\ Destroy(poll_handle[current[w]])
    /\ writer' = [writer EXCEPT ![w] = "clearing"]
    /\ UNCHANGED <<queueVars, subVars, pollerVars, todo, current>>

\* The subscriber keeps the destroyed handle.
KeepHandleMutant(w) ==
    /\ writer[w] = "clearing"
    /\ todo' = [todo EXCEPT ![w] = @ \ {current[w]}]
    /\ current' = [current EXCEPT ![w] = None]
    /\ writer' = [writer EXCEPT ![w] = "looping"]
    /\ UNCHANGED <<queueVars, subVars, pollerVars, handleVars>>

\* The loop ends with the first subscriber that it wakes.
FirstOnlyMutant(w) ==
    /\ writer[w] = "clearing"
    /\ poll_handle' = [poll_handle EXCEPT ![current[w]] = None]
    /\ todo' = [todo EXCEPT ![w] = {}]
    /\ current' = [current EXCEPT ![w] = None]
    /\ writer' = [writer EXCEPT ![w] = "looping"]
    /\ UNCHANGED <<queueVars, poll_events, read_notifiers, pollerVars,
                   handleVars>>

ClearHandle(w) ==
    /\ writer[w] = "clearing"
    /\ poll_handle' = [poll_handle EXCEPT ![current[w]] = None]
    /\ todo' = [todo EXCEPT ![w] = @ \ {current[w]}]
    /\ current' = [current EXCEPT ![w] = None]
    /\ writer' = [writer EXCEPT ![w] = "looping"]
    /\ UNCHANGED <<queueVars, poll_events, read_notifiers, pollerVars,
                   handleVars>>

\* The mutexes are released and the write is answered.
FinishWrite(w) ==
    /\ writer[w] = "looping"
    /\ todo[w] = {}
    /\ writer' = [writer EXCEPT ![w] = "idle"]
    /\ UNCHANGED <<queueVars, subVars, pollerVars, todo, current, handleVars>>

-----------------------------------------------------------------------------
DoPoll(p) ==
    CheckAvailable(p) \/ DropOldHandle(p) \/ StoreHandle(p) \/ Subscribe(p)

QueueReadReady(w) ==
    CallNotifier(w) \/ NotifyPoll(w) \/ DestroyHandle(w) \/ ClearHandle(w)

Next ==
    \/ \E f \in Fds : DoOpen(f) \/ DoRelease(f)
    \/ \E p \in Pollers :
         \/ CallPoll(p) \/ Peek(p) \/ PollAgain(p) \/ PollEnds(p) \/ Read(p)
         \/ DoPoll(p)
    \/ \E w \in Publishers :
         QueueSignal(w) \/ QueueReadReady(w) \/ FinishWrite(w)

Spec == Init /\ [][Next]_vars

\* A request that a worker took is carried out.  Workers take the requests in
\* the order of arrival, so none is passed over for ever: hence the strong
\* fairness.  The kernel polls again for a thread it woke.
Fairness ==
    /\ \A p \in Pollers :
         /\ WF_vars(PollAgain(p))
         /\ SF_vars(CheckAvailable(p))
         /\ WF_vars(DropOldHandle(p) \/ StoreHandle(p) \/ Subscribe(p))
    /\ \A w \in Publishers : WF_vars(QueueReadReady(w) \/ FinishWrite(w))

FairSpec == Spec /\ Fairness

-----------------------------------------------------------------------------
(***************************************************************************)
(* Properties.                                                             *)
(***************************************************************************)

\* The publisher has yet to notify the sleepers on f.
OwesWakeup(w, f) ==
    /\ f \in todo[w]
    /\ ~(current[w] = f /\ writer[w] \in {"destroying", "clearing"})

\* Nobody sleeps in poll on a descriptor that has a signal to read, unless a
\* publisher is on its way to wake it up.  (do_poll: the check for signals, the
\* handle and the subscription come one after the other, under other locks.)
NoSleepWithSignals ==
    \A p \in Pollers :
        poller[p] = "asleep" /\ wants_in[p] /\ SignalAvailable(FdOf[p])
            => \E w \in Publishers : OwesWakeup(w, FdOf[p])

\* A poll handle is neither used nor destroyed after it was destroyed, although
\* do_poll and queue_read_ready both destroy the handle they find.
HandlesUsedWhileAlive == ~misused

\* A handle stays reachable for the code that has to destroy it: it belongs to
\* a request or is stored with a subscriber, unless the subscriber is deleted.
NoHandleLeaked ==
    alive \subseteq {ph[p] : p \in Pollers} \cup {poll_handle[f] : f \in Fds}

\* A poll for a descriptor with a signal to read returns.
PollSeesSignals ==
    \A p \in Pollers :
        wants_in[p] /\ poller[p] # "idle" /\ SignalAvailable(FdOf[p])
            ~> \/ poller[p] \in {"ready", "idle"}
               \/ ~SignalAvailable(FdOf[p])
=============================================================================
