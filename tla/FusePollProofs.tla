--------------------------- MODULE FusePollProofs ---------------------------
(***************************************************************************)
(* Proofs about FusePoll, for every ring and any number of publishers,     *)
(* descriptors, pollers and handles.  With one worker (sigfs -s) handlers  *)
(* do not overlap: handles are used properly, and nobody sleeps through a  *)
(* signal on a descriptor of his own.                                      *)
(***************************************************************************)
EXTENDS FusePoll, FiniteSetTheorems, TLAPS

-----------------------------------------------------------------------------
(***************************************************************************)
(* Types.                                                                  *)
(***************************************************************************)
USE DEF queueVars, subVars, pollerVars, writerVars, handleVars

\* The initial states are well typed.
LEMMA InitType == Init => TypeOK
  <1> SUFFICES ASSUME Init PROVE TypeOK
    OBVIOUS
  <1>1. 1 \in 1..(MaxSig + 1) /\ 0 \in 0..(MaxSig + 1)
    BY PollAssumption
  <1>2. sig_id \in [Fds -> 0..(MaxSig + 1)]
    BY <1>1 DEF Init
  <1> QED BY <1>1, <1>2 DEF Init, TypeOK

\* So are the states after a descriptor was opened or released.
LEMMA OpenType ==
    ASSUME TypeOK, NEW f \in Fds, DoOpen(f) \/ DoRelease(f) PROVE TypeOK'
  <1> USE PollAssumption DEF TypeOK
  <1>1. CASE DoOpen(f)
    <2>1. sig_id' \in [Fds -> 0..(MaxSig + 1)]
      BY <1>1 DEF DoOpen
    <2> QED BY <1>1, <2>1 DEF DoOpen
  <1>2. CASE DoRelease(f)
    <2>1. sig_id' \in [Fds -> 0..(MaxSig + 1)]
      BY <1>2 DEF DoRelease
    <2> QED BY <1>2, <2>1 DEF DoRelease
  <1> QED BY <1>1, <1>2

\* After a poll request.
LEMMA AskType ==
    ASSUME TypeOK, NEW p \in Pollers, NEW events_in \in BOOLEAN, Ask(p, events_in)
    PROVE  TypeOK'
  <1>1. PICK h \in Handles : /\ ph' = [ph EXCEPT ![p] = h]
                             /\ alive' = alive \cup {h}
    BY DEF Ask, Unused
  <1> QED BY <1>1 DEF TypeOK, Ask

\* After a step of a poller.
LEMMA PollerType ==
    ASSUME TypeOK, NEW p \in Pollers,
           \/ CallPoll(p) \/ Peek(p) \/ PollAgain(p) \/ PollEnds(p)
           \/ Read(p) \/ DoPoll(p)
    PROVE  TypeOK'
  <1>1. CASE CallPoll(p)
    BY <1>1, AskType DEF CallPoll
  <1>2. CASE PollAgain(p)
    BY <1>2, AskType DEF TypeOK, PollAgain
  <1>3. CASE PollEnds(p)
    BY <1>3 DEF TypeOK, PollEnds
  <1>4. CASE Read(p)
    <2> DEFINE f == FdOf[p]
               first == IF sig_id[f] < Oldest THEN Oldest ELSE sig_id[f]
    <2>1. PICK id \in (first + 1)..next_sig_id :
            sig_id' = [sig_id EXCEPT ![f] = id]
      BY <1>4 DEF Read
    <2>2. first \in Nat
      BY PollAssumption DEF TypeOK, Oldest
    <2> HIDE DEF first
    <2>3. id \in 0..(MaxSig + 1)
      BY <2>2, PollAssumption DEF TypeOK
    <2>4. sig_id' \in [Fds -> 0..(MaxSig + 1)]
      BY <2>1, <2>3 DEF TypeOK
    <2> QED BY <1>4, <2>4 DEF TypeOK, Read
  <1>5. CASE CheckAvailable(p)
    BY <1>5 DEF TypeOK, CheckAvailable, Destroy
  <1>6. CASE DropOldHandle(p)
    BY <1>6 DEF TypeOK, DropOldHandle, Destroy
  <1>7. CASE StoreHandle(p)
    BY <1>7 DEF TypeOK, StoreHandle
  <1>8. CASE Subscribe(p)
    BY <1>8, PollAssumption DEF TypeOK, Subscribe
  <1>9. CASE Peek(p)
    BY <1>9 DEF TypeOK, Peek
  <1> QED BY <1>1, <1>2, <1>3, <1>4, <1>5, <1>6, <1>7, <1>8, <1>9 DEF DoPoll

\* After a step of a publisher.
LEMMA PublisherType ==
    ASSUME TypeOK, NEW w \in Publishers,
           QueueSignal(w) \/ QueueReadReady(w) \/ FinishWrite(w)
    PROVE  TypeOK'
  <1>1. CASE QueueSignal(w)
    <2>1. next_sig_id' \in 1..(MaxSig + 1)
      BY <1>1, PollAssumption DEF TypeOK, QueueSignal
    <2> QED BY <1>1, <2>1 DEF TypeOK, QueueSignal
  <1>2. CASE CallNotifier(w)
    BY <1>2 DEF TypeOK, CallNotifier
  <1>3. CASE NotifyPoll(w)
    BY <1>3 DEF TypeOK, NotifyPoll, Use
  <1>4. CASE DestroyHandle(w)
    BY <1>4 DEF TypeOK, DestroyHandle, Destroy
  <1>5. CASE ClearHandle(w)
    BY <1>5 DEF TypeOK, ClearHandle
  <1>6. CASE FinishWrite(w)
    BY <1>6 DEF TypeOK, FinishWrite
  <1> QED BY <1>1, <1>2, <1>3, <1>4, <1>5, <1>6 DEF QueueReadReady

\* Every step keeps the types.
LEMMA TypeInv == TypeOK /\ [Next]_vars => TypeOK'
  <1>1. CASE UNCHANGED vars
    BY <1>1 DEF TypeOK, vars
  <1> QED BY <1>1, OpenType, PollerType, PublisherType DEF Next

\* The type invariant.
THEOREM TypeCorrect == Spec => []TypeOK
  BY InitType, TypeInv, PTL DEF Spec

-----------------------------------------------------------------------------
(***************************************************************************)
(* One worker: handlers do not overlap.                                    *)
(***************************************************************************)

\* At most one handler is under way.
Solo ==
    /\ \A v, w \in Publishers : writer[v] # "idle" /\ writer[w] # "idle" => v = w
    /\ \A p, q \in Pollers : InDoPoll(p) /\ InDoPoll(q) => p = q
    /\ \A p \in Pollers, w \in Publishers : InDoPoll(p) => writer[w] = "idle"

\* A worker that is free is the only one.
LEMMA FreeWorker ==
    ASSUME Workers = 1, WorkerFree
    PROVE  /\ \A p \in Pollers : ~InDoPoll(p)
           /\ \A w \in Publishers : writer[w] = "idle"
  <1> DEFINE polls == {p \in Pollers : InDoPoll(p)}
             writes == {w \in Publishers : writer[w] # "idle"}
  <1>1. IsFiniteSet(polls) /\ IsFiniteSet(writes)
    BY PollAssumption, FS_Subset
  <1>2. Cardinality(polls) \in Nat /\ Cardinality(writes) \in Nat
    BY <1>1, FS_CardinalityType
  <1>3. Cardinality(polls) + Cardinality(writes) < 1
    BY DEF WorkerFree
  <1>4. Cardinality(polls) = 0 /\ Cardinality(writes) = 0
    BY <1>2, <1>3
  <1>5. polls = {} /\ writes = {}
    BY <1>1, <1>4, FS_EmptySet
  <1> QED BY <1>5

\* Handlers stay apart.
LEMMA SoloInv == Workers = 1 /\ TypeOK /\ Solo /\ [Next]_vars => Solo'
  <1> SUFFICES ASSUME Workers = 1, TypeOK, Solo, [Next]_vars PROVE Solo'
    OBVIOUS
  <1>1. ASSUME \A w \in Publishers : writer'[w] # "idle" => writer[w] # "idle",
               \A p \in Pollers : InDoPoll(p)' => InDoPoll(p)
        PROVE  Solo'
    BY <1>1 DEF Solo
  <1>2. ASSUME NEW f \in Fds, DoOpen(f) \/ DoRelease(f) PROVE Solo'
    BY <1>1, <1>2 DEF DoOpen, DoRelease, InDoPoll
  <1>3. ASSUME NEW p \in Pollers, CheckAvailable(p) PROVE Solo'
    <2>1. /\ \A q \in Pollers : ~InDoPoll(q)
          /\ \A w \in Publishers : writer[w] = "idle"
      BY <1>3, FreeWorker DEF CheckAvailable
    <2>2. \A q \in Pollers : q # p => poller'[q] = poller[q]
      BY <1>3 DEF TypeOK, CheckAvailable
    <2> QED BY <1>3, <2>1, <2>2 DEF Solo, CheckAvailable, InDoPoll
  <1>4. ASSUME NEW p \in Pollers, \/ CallPoll(p) \/ Peek(p) \/ PollAgain(p)
                                  \/ PollEnds(p) \/ Read(p)
        PROVE  Solo'
    BY <1>1, <1>4 DEF TypeOK, CallPoll, Peek, PollAgain, Ask, PollEnds, Read,
                      InDoPoll
  <1>5. ASSUME NEW p \in Pollers, \/ DropOldHandle(p) \/ StoreHandle(p)
                                  \/ Subscribe(p)
        PROVE  Solo'
    BY <1>1, <1>5 DEF TypeOK, DropOldHandle, StoreHandle, Subscribe, InDoPoll
  <1>6. ASSUME NEW w \in Publishers, QueueSignal(w) PROVE Solo'
    <2>1. /\ \A q \in Pollers : ~InDoPoll(q)
          /\ \A v \in Publishers : writer[v] = "idle"
      BY <1>6, FreeWorker DEF QueueSignal
    <2> QED BY <1>6, <2>1 DEF TypeOK, Solo, QueueSignal, InDoPoll
  <1>7. ASSUME NEW w \in Publishers, QueueReadReady(w) \/ FinishWrite(w)
        PROVE  Solo'
    BY <1>1, <1>7 DEF TypeOK, QueueReadReady, CallNotifier, NotifyPoll,
                      DestroyHandle, ClearHandle, FinishWrite, InDoPoll
  <1>8. CASE UNCHANGED vars
    BY <1>1, <1>8 DEF vars, InDoPoll
  <1> QED BY <1>2, <1>3, <1>4, <1>5, <1>6, <1>7, <1>8 DEF Next, DoPoll

-----------------------------------------------------------------------------
(***************************************************************************)
(* Who refers to a handle.                                                 *)
(***************************************************************************)

\* The handle stored with f was destroyed, and is about to be forgotten.
Stale(f) ==
    \/ \E p \in Pollers : FdOf[p] = f /\ poller[p] = "storing"
    \/ \E w \in Publishers : current[w] = f /\ writer[w] = "clearing"

Requests == {"asked", "dropping", "storing"}
Calls == {"notifying", "destroying", "clearing"}

\* Every handle has one owner, a request or a subscriber, that destroys it once.
Owned ==
    /\ ~misused
    /\ \A p \in Pollers : /\ ph[p] # None => poller[p] \in Requests
                          /\ ph[p] # None => ph[p] \in alive
                          /\ poller[p] # "idle" => Opened(FdOf[p])
    /\ \A f \in Fds : /\ poll_handle[f] # None =>
                           (poll_handle[f] \in alive <=> ~Stale(f))
                      /\ ~Opened(f) => poll_handle[f] = None
    /\ \A w \in Publishers : writer[w] \in Calls =>
         current[w] \in Fds /\ poll_handle[current[w]] # None
    /\ \A p, q \in Pollers : ph[p] = ph[q] /\ ph[p] # None => p = q
    /\ \A f, g \in Fds :
         poll_handle[f] = poll_handle[g] /\ poll_handle[f] # None => f = g
    /\ \A p \in Pollers, f \in Fds : ph[p] = poll_handle[f] => ph[p] = None
    /\ NoHandleLeaked

\* A new handle belongs to the request that it came with.
LEMMA AskOwned ==
    ASSUME TypeOK, Owned, NEW p \in Pollers, NEW events_in \in BOOLEAN,
           poller[p] \in {"idle", "awoken"}, Ask(p, events_in)
    PROVE  Owned'
  <1>1. PICK h \in Unused : /\ ph' = [ph EXCEPT ![p] = h]
                            /\ alive' = alive \cup {h}
    BY DEF Ask
  <1>2. /\ h # None /\ h \notin alive
        /\ \A f \in Fds : poll_handle[f] # h
        /\ \A q \in Pollers : ph[q] # h
    BY DEF Unused, Handles, None
  <1>3. /\ Opened(FdOf[p])
        /\ poller' = [poller EXCEPT ![p] = "asked"]
        /\ UNCHANGED <<sig_id, poll_handle, writer, current, misused>>
    BY DEF Ask
  <1>4. ph[p] = None
    BY DEF Owned, Requests
  <1>5. \A f \in Fds : Stale(f)' <=> Stale(f)
    BY <1>3 DEF TypeOK, Stale
  <1>6. \A f \in Fds : Opened(f)' <=> Opened(f)
    BY <1>3 DEF Opened
  <1>7. \A q \in Pollers : /\ ph'[q] = IF q = p THEN h ELSE ph[q]
                           /\ poller'[q] = IF q = p THEN "asked" ELSE poller[q]
    BY <1>1, <1>3 DEF TypeOK
  <1>8. \A q \in Pollers : /\ ph'[q] # None => poller'[q] \in Requests
                           /\ ph'[q] # None => ph'[q] \in alive'
                           /\ poller'[q] # "idle" => Opened(FdOf[q])'
    BY <1>1, <1>2, <1>3, <1>6, <1>7, PollAssumption DEF Owned, Requests
  <1>9. \A f \in Fds : poll_handle'[f] # None =>
                         (poll_handle'[f] \in alive' <=> ~Stale(f)')
    BY <1>1, <1>2, <1>3, <1>5 DEF Owned
  <1>10. NoHandleLeaked'
    <2>1. alive \subseteq {ph[q] : q \in Pollers} \cup {poll_handle[f] : f \in Fds}
      BY DEF Owned, NoHandleLeaked
    <2>2. None \notin alive
      BY DEF TypeOK, Handles, None
    <2> QED BY <1>1, <1>3, <1>4, <1>7, <2>1, <2>2 DEF NoHandleLeaked
  <1> QED BY <1>2, <1>3, <1>6, <1>7, <1>8, <1>9, <1>10 DEF Owned

\* Nothing is destroyed, stored or forgotten.
LEMMA OwnedStays ==
    ASSUME Owned,
           UNCHANGED <<poll_handle, ph, alive, misused, current>>,
           \A f \in Fds : Opened(f)' <=> Opened(f),
           \A p \in Pollers :
             /\ ph[p] # None /\ poller[p] \in Requests => poller'[p] \in Requests
             /\ poller'[p] = "storing" <=> poller[p] = "storing"
             /\ poller'[p] # "idle" => poller[p] # "idle" \/ Opened(FdOf[p]),
           \A w \in Publishers : /\ writer'[w] \in Calls => writer[w] \in Calls
                                 /\ writer'[w] = "clearing" <=> writer[w] = "clearing"
    PROVE  Owned'
  <1>1. \A f \in Fds : Stale(f)' <=> Stale(f)
    BY DEF Stale
  <1>2. NoHandleLeaked'
    BY DEF Owned, NoHandleLeaked
  <1> QED BY <1>1, <1>2, PollAssumption DEF Owned

\* The handle that came with a request, if any, is destroyed with the reply.
LEMMA DestroyedRequest ==
    ASSUME TypeOK, Owned, NEW p \in Pollers,
           alive' = alive \ {ph[p]}, ~misused',
           UNCHANGED <<poll_handle, writer, current>>,
           \A f \in Fds : (Opened(f)' <=> Opened(f)) /\ (Stale(f)' <=> Stale(f)),
           \A q \in Pollers : /\ poller'[q] = IF q = p THEN "ready" ELSE poller[q]
                              /\ ph'[q] = IF q = p THEN None ELSE ph[q],
           poller[p] # "idle"
    PROVE  Owned'
  <1>1. \A q \in Pollers : /\ ph'[q] # None => poller'[q] \in Requests
                           /\ ph'[q] # None => ph'[q] \in alive'
                           /\ poller'[q] # "idle" => Opened(FdOf[q])'
    BY PollAssumption DEF Owned, Requests
  <1>2. \A f \in Fds : /\ poll_handle'[f] # None =>
                            (poll_handle'[f] \in alive' <=> ~Stale(f)')
                       /\ ~Opened(f)' => poll_handle'[f] = None
    BY DEF Owned
  <1>3. NoHandleLeaked'
    BY DEF Owned, NoHandleLeaked
  <1>4. \A q, z \in Pollers : ph'[q] = ph'[z] /\ ph'[q] # None => q = z
    BY DEF Owned
  <1>5. \A q \in Pollers, f \in Fds : ph'[q] = poll_handle'[f] => ph'[q] = None
    BY DEF Owned
  <1> QED BY <1>1, <1>2, <1>3, <1>4, <1>5 DEF Owned

\* Reading closes no descriptor.
LEMMA ReadOpened ==
    ASSUME TypeOK, Owned, NEW p \in Pollers, Read(p)
    PROVE  \A f \in Fds : Opened(f)' <=> Opened(f)
  <1> DEFINE f == FdOf[p]
             first == IF sig_id[f] < Oldest THEN Oldest ELSE sig_id[f]
  <1>1. PICK id \in (first + 1)..next_sig_id : sig_id' = [sig_id EXCEPT ![f] = id]
    BY DEF Read
  <1>2. id # 0
    BY <1>1, PollAssumption DEF TypeOK, Oldest
  <1>3. Opened(f)
    BY DEF Owned, Read
  <1> QED BY <1>1, <1>2, <1>3, PollAssumption DEF TypeOK, Opened

\* Handles are destroyed once, and not forgotten before.
LEMMA OwnedInv == TypeOK /\ Solo /\ Owned /\ [Next]_vars => Owned'
  <1> SUFFICES ASSUME TypeOK, Solo, Owned, [Next]_vars PROVE Owned'
    OBVIOUS
  <1>1. None \notin alive
    BY DEF TypeOK, Handles, None
  <1>2. ASSUME NEW f \in Fds, DoOpen(f) PROVE Owned'
    BY <1>2, PollAssumption DEF TypeOK, Owned, DoOpen, Opened, Stale, NoHandleLeaked
  <1>3. ASSUME NEW f \in Fds, DoRelease(f) PROVE Owned'
    BY <1>3, PollAssumption
       DEF TypeOK, Owned, DoRelease, Opened, Stale, NoHandleLeaked, MutexFree, Calls
  <1>4. ASSUME NEW p \in Pollers, CallPoll(p) \/ PollAgain(p) PROVE Owned'
    BY <1>4, AskOwned DEF CallPoll, PollAgain, TypeOK
  <1>5. ASSUME NEW p \in Pollers, PollEnds(p) \/ Peek(p) PROVE Owned'
    <2>1. UNCHANGED <<sig_id, poll_handle, ph, alive, misused, writer, current>>
      BY <1>5 DEF PollEnds, Peek
    <2>2. /\ poller[p] \notin Requests
          /\ Opened(FdOf[p]) /\ poller'[p] \in {"idle", "asked"}
          /\ \A q \in Pollers : q # p => poller'[q] = poller[q]
      BY <1>5 DEF TypeOK, Owned, PollEnds, Peek, Requests
    <2> QED BY <2>1, <2>2, OwnedStays DEF Requests, Opened
  <1>6. ASSUME NEW p \in Pollers, Read(p) PROVE Owned'
    <2>3. /\ UNCHANGED <<poll_handle, ph, alive, misused, writer, current>>
          /\ poller[p] = "ready" /\ poller' = [poller EXCEPT ![p] = "idle"]
      BY <1>6 DEF Read
    <2>4. \A g \in Fds : Opened(g)' <=> Opened(g)
      BY <1>6, ReadOpened
    <2>5. \A q \in Pollers : poller'[q] = IF q = p THEN "idle" ELSE poller[q]
      BY <2>3 DEF TypeOK
    <2>6. \A q \in Pollers : /\ poller'[q] \in Requests <=> poller[q] \in Requests
                             /\ poller'[q] = "storing" <=> poller[q] = "storing"
                             /\ poller'[q] # "idle" => poller[q] # "idle"
      BY <2>3, <2>5 DEF Requests
    <2>7. UNCHANGED <<writer, poll_handle, ph, alive, misused, current>>
      BY <2>3
    <2> QED BY <2>4, <2>6, <2>7, OwnedStays
  <1>7. ASSUME NEW p \in Pollers, CheckAvailable(p) PROVE Owned'
    <2>1. poller[p] = "asked" /\ ph[p] \in alive \cup {None}
      BY <1>7 DEF Owned, CheckAvailable
    <2>2. /\ UNCHANGED <<sig_id, poll_handle, writer, current>>
          /\ \A f \in Fds : Opened(f)' <=> Opened(f)
      BY <1>7 DEF CheckAvailable, Opened
    <2>3. CASE /\ poller' = [poller EXCEPT ![p] = "ready"]
               /\ ph' = [ph EXCEPT ![p] = None]
               /\ Destroy(ph[p])
      <3>1. alive' = alive \ {ph[p]} /\ ~misused'
        BY <2>1, <2>3 DEF Owned, Destroy
      <3>2. \A q \in Pollers :
              /\ poller'[q] = IF q = p THEN "ready" ELSE poller[q]
              /\ ph'[q] = IF q = p THEN None ELSE ph[q]
        BY <2>3 DEF TypeOK
      <3>3. \A f \in Fds : Stale(f)' <=> Stale(f)
        BY <2>1, <2>2, <3>2 DEF Stale
      <3> QED BY <2>1, <2>2, <3>1, <3>2, <3>3, DestroyedRequest
    <2>4. CASE /\ poller' = [poller EXCEPT ![p] = "dropping"]
               /\ UNCHANGED <<ph, alive, misused>>
      <3>1. \A q \in Pollers :
              poller'[q] = IF q = p THEN "dropping" ELSE poller[q]
        BY <2>4 DEF TypeOK
      <3> QED BY <2>1, <2>2, <2>4, <3>1, OwnedStays DEF Requests
    <2> QED BY <1>7, <2>3, <2>4 DEF CheckAvailable
  <1>8. ASSUME NEW p \in Pollers, DropOldHandle(p) PROVE Owned'
    <2> DEFINE f == FdOf[p]
    <2>1. /\ poller[p] = "dropping" /\ f \in Fds
          /\ UNCHANGED <<sig_id, poll_handle, ph, writer, current>>
      BY <1>8, PollAssumption DEF DropOldHandle
    <2>2. \A q \in Pollers : poller'[q] = IF q = p THEN "storing" ELSE poller[q]
      BY <1>8 DEF TypeOK, DropOldHandle
    <2>3. ~Stale(f)
      BY <2>1 DEF Solo, Stale, InDoPoll
    <2>4. \A g \in Fds : Stale(g)' <=> (g = f \/ Stale(g))
      BY <2>1, <2>2 DEF Stale
    <2>5. alive' = alive \ {poll_handle[f]} /\ ~misused'
      BY <1>8, <2>1, <2>3 DEF Owned, DropOldHandle, Destroy
    <2>6. \A q \in Pollers : ph[q] # None => ph[q] # poll_handle[f]
      BY <2>1 DEF Owned
    <2>7. \A q \in Pollers : /\ ph'[q] # None => poller'[q] \in Requests
                             /\ ph'[q] # None => ph'[q] \in alive'
                             /\ poller'[q] # "idle" => Opened(FdOf[q])'
      BY <2>1, <2>2, <2>5, <2>6 DEF Owned, Requests, Opened
    <2>8. \A g \in Fds : /\ poll_handle'[g] # None =>
                              (poll_handle'[g] \in alive' <=> ~Stale(g)')
                         /\ ~Opened(g)' => poll_handle'[g] = None
      BY <2>1, <2>4, <2>5 DEF Owned, Opened
    <2>9. NoHandleLeaked'
      BY <2>1, <2>5 DEF Owned, NoHandleLeaked
    <2> QED BY <2>1, <2>5, <2>7, <2>8, <2>9 DEF Owned
  <1>9. ASSUME NEW p \in Pollers, StoreHandle(p) PROVE Owned'
    <2> DEFINE f == FdOf[p]
    <2>1. /\ poller[p] = "storing" /\ f \in Fds /\ Opened(f)
          /\ ph[p] \in alive \cup {None}
          /\ UNCHANGED <<sig_id, alive, misused, writer, current>>
      BY <1>9, PollAssumption DEF Owned, StoreHandle
    <2>2. /\ poller'[p] \in {"subscribing", "peeking"}
          /\ \A q \in Pollers : /\ q # p => poller'[q] = poller[q]
                               /\ ph'[q] = IF q = p THEN None ELSE ph[q]
      BY <1>9 DEF TypeOK, StoreHandle
    <2>3. \A g \in Fds : poll_handle'[g] = IF g = f THEN ph[p] ELSE poll_handle[g]
      BY <1>9 DEF TypeOK, StoreHandle
    <2>4. /\ \A w \in Publishers : writer[w] = "idle"
          /\ \A q \in Pollers : q # p => poller[q] # "storing"
      BY <2>1 DEF Solo, InDoPoll
    <2>5. \A g \in Fds : ~Stale(g)'
      BY <2>1, <2>2, <2>4 DEF Stale
    <2>6. Stale(f) /\ \A g \in Fds : g # f => ~Stale(g)
      BY <2>1, <2>4 DEF Stale
    <2>7. \A g \in Fds : ph[p] # None => poll_handle[g] # ph[p]
      BY <2>1 DEF Owned
    <2>8. \A q \in Pollers : /\ ph'[q] # None => poller'[q] \in Requests
                             /\ ph'[q] # None => ph'[q] \in alive'
                             /\ poller'[q] # "idle" => Opened(FdOf[q])'
      BY <2>1, <2>2 DEF Owned, Requests, Opened
    <2>9. \A g \in Fds : /\ poll_handle'[g] # None =>
                              (poll_handle'[g] \in alive' <=> ~Stale(g)')
                         /\ ~Opened(g)' => poll_handle'[g] = None
      BY <2>1, <2>3, <2>5, <2>6 DEF Owned, Opened
    <2>10. NoHandleLeaked'
      <3>1. poll_handle[f] \notin alive
        BY <1>1, <2>1, <2>6 DEF Owned
      <3>2. alive \subseteq {ph[q] : q \in Pollers} \cup {poll_handle[g] : g \in Fds}
        BY DEF Owned, NoHandleLeaked
      <3>3. ASSUME NEW h \in alive
            PROVE  \/ \E q \in Pollers : ph'[q] = h
                   \/ \E g \in Fds : poll_handle'[g] = h
        BY <2>1, <2>2, <2>3, <3>1, <3>2
      <3> QED BY <2>1, <3>3 DEF NoHandleLeaked
    <2>11. \A g, k \in Fds : poll_handle'[g] = poll_handle'[k]
                               /\ poll_handle'[g] # None => g = k
      BY <2>3, <2>7 DEF Owned
    <2>12. \A q, z \in Pollers : ph'[q] = ph'[z] /\ ph'[q] # None => q = z
      BY <2>2 DEF Owned
    <2>13. \A q \in Pollers, g \in Fds : ph'[q] = poll_handle'[g] => ph'[q] = None
      BY <2>1, <2>2, <2>3 DEF Owned
    <2> QED BY <2>1, <2>4, <2>8, <2>9, <2>10, <2>11, <2>12, <2>13 DEF Owned, Calls
  <1>10. ASSUME NEW p \in Pollers, Subscribe(p) PROVE Owned'
    BY <1>10, OwnedStays DEF TypeOK, Subscribe, Requests, Opened
  <1>11. ASSUME NEW w \in Publishers, QueueSignal(w) PROVE Owned'
    BY <1>11, OwnedStays DEF TypeOK, QueueSignal, Calls, Opened
  <1>12. ASSUME NEW w \in Publishers, CallNotifier(w) PROVE Owned'
    <2>1. /\ writer[w] = "looping"
          /\ \A v \in Publishers \ {w} : writer[v] = "idle"
          /\ UNCHANGED <<sig_id, poll_handle, ph, poller, alive, misused>>
      BY <1>12 DEF Solo, CallNotifier
    <2>2. \A v \in Publishers \ {w} : writer'[v] = "idle" /\ current'[v] = current[v]
      BY <1>12, <2>1 DEF TypeOK, CallNotifier
    <2>3. \/ writer'[w] = "looping"
          \/ /\ writer'[w] = "notifying" /\ current'[w] \in Fds
             /\ poll_handle[current'[w]] # None
      BY <1>12, <2>1 DEF TypeOK, CallNotifier
    <2>4. \A v \in Publishers : writer'[v] # "clearing" /\ writer[v] # "clearing"
      BY <2>1, <2>2, <2>3
    <2>5. \A f \in Fds : (Stale(f)' <=> Stale(f)) /\ (Opened(f)' <=> Opened(f))
      BY <2>1, <2>4 DEF Stale, Opened
    <2>6. \A v \in Publishers : writer'[v] \in Calls =>
            current'[v] \in Fds /\ poll_handle'[current'[v]] # None
      BY <2>1, <2>2, <2>3 DEF Calls
    <2>7. NoHandleLeaked'
      BY <2>1 DEF Owned, NoHandleLeaked
    <2> QED BY <2>1, <2>5, <2>6, <2>7 DEF Owned, Opened
  <1>13. ASSUME NEW w \in Publishers, NotifyPoll(w) PROVE Owned'
    <2>1. /\ writer[w] = "notifying" /\ current[w] \in Fds
          /\ poll_handle[current[w]] # None
          /\ \A q \in Pollers : ~InDoPoll(q)
          /\ \A v \in Publishers \ {w} : writer[v] = "idle"
          /\ UNCHANGED <<sig_id, poll_handle, ph, alive, current>>
      BY <1>13 DEF Solo, Owned, Calls, NotifyPoll, Use
    <2>2. \A v \in Publishers : writer'[v] = IF v = w THEN "destroying" ELSE writer[v]
      BY <1>13 DEF TypeOK, NotifyPoll
    <2>3. \A q \in Pollers : \/ poller'[q] = poller[q]
                             \/ poller[q] = "asleep" /\ poller'[q] = "awoken"
      BY <1>13 DEF NotifyPoll
    <2>4. ~Stale(current[w])
      BY <2>1 DEF Stale, InDoPoll
    <2>5. misused' = misused
      BY <1>13, <2>1, <2>4 DEF TypeOK, Owned, NotifyPoll, Use
    <2>6. \A f \in Fds : Opened(f)' <=> Opened(f)
      BY <2>1 DEF Opened
    <2>7. \A q \in Pollers : /\ poller'[q] \in Requests <=> poller[q] \in Requests
                             /\ poller'[q] = "storing" <=> poller[q] = "storing"
                             /\ poller'[q] # "idle" => poller[q] # "idle"
      BY <2>3 DEF Requests
    <2>8. \A v \in Publishers : /\ writer'[v] \in Calls => writer[v] \in Calls
                                /\ writer'[v] = "clearing" <=> writer[v] = "clearing"
      BY <2>1, <2>2 DEF Calls
    <2> QED BY <2>1, <2>5, <2>6, <2>7, <2>8, OwnedStays
  <1>14. ASSUME NEW w \in Publishers, DestroyHandle(w) PROVE Owned'
    <2> DEFINE f == current[w]
    <2>1. /\ writer[w] = "destroying" /\ f \in Fds /\ poll_handle[f] # None
          /\ \A q \in Pollers : ~InDoPoll(q)
          /\ \A v \in Publishers \ {w} : writer[v] = "idle"
          /\ UNCHANGED <<sig_id, poll_handle, ph, poller, current>>
      BY <1>14 DEF Solo, Owned, Calls, DestroyHandle
    <2>2. \A v \in Publishers : writer'[v] = IF v = w THEN "clearing" ELSE writer[v]
      BY <1>14 DEF TypeOK, DestroyHandle
    <2>3. \A g \in Fds : ~Stale(g) /\ (Stale(g)' <=> g = f)
      BY <2>1, <2>2 DEF Stale, InDoPoll
    <2>4. alive' = alive \ {poll_handle[f]} /\ ~misused'
      BY <1>14, <2>1, <2>3 DEF Owned, DestroyHandle, Destroy
    <2>5. \A q \in Pollers : ph[q] # None => ph[q] # poll_handle[f]
      BY <2>1 DEF Owned
    <2>6. \A q \in Pollers : /\ ph'[q] # None => poller'[q] \in Requests
                             /\ ph'[q] # None => ph'[q] \in alive'
                             /\ poller'[q] # "idle" => Opened(FdOf[q])'
      BY <2>1, <2>4, <2>5 DEF Owned, Opened
    <2>7. \A g \in Fds : /\ poll_handle'[g] # None =>
                              (poll_handle'[g] \in alive' <=> ~Stale(g)')
                         /\ ~Opened(g)' => poll_handle'[g] = None
      BY <2>1, <2>3, <2>4 DEF Owned, Opened
    <2>8. \A v \in Publishers : writer'[v] \in Calls =>
            current'[v] \in Fds /\ poll_handle'[current'[v]] # None
      BY <2>1, <2>2 DEF Calls
    <2>9. NoHandleLeaked'
      BY <2>1, <2>4 DEF Owned, NoHandleLeaked
    <2> QED BY <2>1, <2>4, <2>6, <2>7, <2>8, <2>9 DEF Owned
  <1>15. ASSUME NEW w \in Publishers, ClearHandle(w) PROVE Owned'
    <2> DEFINE f == current[w]
    <2>1. /\ writer[w] = "clearing" /\ f \in Fds /\ poll_handle[f] # None
          /\ \A q \in Pollers : ~InDoPoll(q)
          /\ \A v \in Publishers \ {w} : writer[v] = "idle"
          /\ UNCHANGED <<sig_id, ph, poller, alive, misused>>
      BY <1>15 DEF Solo, Owned, Calls, ClearHandle
    <2>2. \A v \in Publishers : writer'[v] = IF v = w THEN "looping" ELSE writer[v]
      BY <1>15 DEF TypeOK, ClearHandle
    <2>3. \A g \in Fds : poll_handle'[g] = IF g = f THEN None ELSE poll_handle[g]
      BY <1>15 DEF TypeOK, ClearHandle
    <2>4. \A g \in Fds : ~Stale(g)' /\ (Stale(g) <=> g = f)
      BY <2>1, <2>2 DEF Stale, InDoPoll
    <2>5. poll_handle[f] \notin alive
      BY <2>1, <2>4 DEF Owned
    <2>6. \A g \in Fds : /\ poll_handle'[g] # None =>
                              (poll_handle'[g] \in alive' <=> ~Stale(g)')
                         /\ ~Opened(g)' => poll_handle'[g] = None
      BY <2>1, <2>3, <2>4 DEF Owned, Opened
    <2>7. \A v \in Publishers : writer'[v] \notin Calls
      BY <2>1, <2>2 DEF Calls
    <2>8. NoHandleLeaked'
      BY <2>1, <2>3, <2>5 DEF Owned, NoHandleLeaked
    <2>9. \A g, k \in Fds : poll_handle'[g] = poll_handle'[k]
                              /\ poll_handle'[g] # None => g = k
      BY <2>3 DEF Owned
    <2>10. \A q \in Pollers, g \in Fds : ph'[q] = poll_handle'[g] => ph'[q] = None
      BY <2>1, <2>3 DEF Owned
    <2> QED BY <2>1, <2>6, <2>7, <2>8, <2>9, <2>10 DEF Owned, Opened
  <1>16. ASSUME NEW w \in Publishers, FinishWrite(w) PROVE Owned'
    BY <1>16, OwnedStays DEF TypeOK, FinishWrite, Calls, Opened
  <1>17. CASE UNCHANGED vars
    BY <1>17, OwnedStays DEF vars, Opened
  <1> QED BY <1>2, <1>3, <1>4, <1>5, <1>6, <1>7, <1>8, <1>9, <1>10, <1>11, <1>12,
             <1>13, <1>14, <1>15, <1>16, <1>17 DEF Next, DoPoll, QueueReadReady

-----------------------------------------------------------------------------
(***************************************************************************)
(* Who is woken.                                                           *)
(***************************************************************************)

\* No two pollers share a descriptor.
OwnDescriptors == \A p, q \in Pollers : FdOf[p] = FdOf[q] => p = q

\* What do_poll found is still true when it ends, and a sleeper has left a
\* handle and a subscription for the next publisher.
Sleeps(p) ==
    /\ InDoPoll(p) /\ wants_in[p] => ~SignalAvailable(FdOf[p])
    /\ poller[p] \in {"subscribing", "asleep"} => poll_handle[FdOf[p]] # None
    /\ poller[p] = "asleep" /\ wants_in[p] => FdOf[p] \in read_notifiers
    /\ poller[p] = "asleep" => \A w \in Publishers :
         current[w] = FdOf[p] => writer[w] \notin {"destroying", "clearing"}
    /\ poller[p] = "asleep" /\ wants_in[p] /\ SignalAvailable(FdOf[p])
         => \E w \in Publishers : OwesWakeup(w, FdOf[p])

\* A descriptor is subscribed while it is open and its events include POLLIN.
Subscribed ==
    \A f \in Fds : f \in read_notifiers <=> Opened(f) /\ poll_events[f]

\* Subscriptions follow the events.
LEMMA SubscribedInv ==
    TypeOK /\ Owned /\ Subscribed /\ [Next]_vars => Subscribed'
  <1> SUFFICES ASSUME TypeOK, Owned, Subscribed, [Next]_vars PROVE Subscribed'
    OBVIOUS
  <1>1. ASSUME UNCHANGED <<sig_id, read_notifiers, poll_events>> PROVE Subscribed'
    BY <1>1 DEF Subscribed, Opened
  <1>2. ASSUME NEW f \in Fds, DoOpen(f) PROVE Subscribed'
    BY <1>2, PollAssumption DEF TypeOK, Subscribed, Opened, DoOpen
  <1>3. ASSUME NEW f \in Fds, DoRelease(f) PROVE Subscribed'
    BY <1>3 DEF TypeOK, Subscribed, Opened, DoRelease
  <1>4. ASSUME NEW p \in Pollers, Read(p) PROVE Subscribed'
    <2>1. \A f \in Fds : Opened(f)' <=> Opened(f)
      BY <1>4, ReadOpened
    <2> QED BY <1>4, <2>1 DEF Subscribed, Read
  <1>5. ASSUME NEW p \in Pollers, Subscribe(p) PROVE Subscribed'
    <2>1. Opened(FdOf[p]) /\ FdOf[p] \in Fds /\ wants_in[p] \in BOOLEAN
      BY <1>5, PollAssumption DEF TypeOK, Owned, Subscribe
    <2>2. \A f \in Fds : Opened(f)' <=> Opened(f)
      BY <1>5 DEF Subscribe, Opened
    <2>3. \A f \in Fds : poll_events'[f] =
                           IF f = FdOf[p] THEN wants_in[p] ELSE poll_events[f]
      BY <1>5 DEF TypeOK, Subscribe
    <2>4. \A f \in Fds : f \in read_notifiers' <=>
                           IF f = FdOf[p] THEN wants_in[p] ELSE f \in read_notifiers
      BY <1>5, <2>1 DEF TypeOK, Subscribe, Subscribed
    <2> QED BY <2>1, <2>2, <2>3, <2>4 DEF Subscribed
  <1>6. ASSUME NEW p \in Pollers,
               \/ CallPoll(p) \/ Peek(p) \/ PollAgain(p) \/ PollEnds(p)
               \/ CheckAvailable(p) \/ DropOldHandle(p) \/ StoreHandle(p)
        PROVE  Subscribed'
    BY <1>1, <1>6 DEF CallPoll, Peek, PollAgain, Ask, PollEnds, CheckAvailable,
                      DropOldHandle, StoreHandle
  <1>7. ASSUME NEW w \in Publishers,
               QueueSignal(w) \/ QueueReadReady(w) \/ FinishWrite(w)
        PROVE  Subscribed'
    BY <1>1, <1>7 DEF QueueSignal, QueueReadReady, CallNotifier, NotifyPoll,
                      DestroyHandle, ClearHandle, FinishWrite
  <1>8. CASE UNCHANGED vars
    BY <1>1, <1>8 DEF vars
  <1> QED BY <1>2, <1>3, <1>4, <1>5, <1>6, <1>7, <1>8 DEF Next, DoPoll

\* A poller that nothing changes for.
LEMMA SleepsStays ==
    ASSUME NEW p \in Pollers, Sleeps(p),
           UNCHANGED <<next_sig_id, sig_id[FdOf[p]], wants_in[p]>>,
           UNCHANGED <<todo, current, writer>>,
           FdOf[p] \in read_notifiers => FdOf[p] \in read_notifiers',
           poll_handle[FdOf[p]] # None => poll_handle'[FdOf[p]] # None,
           InDoPoll(p)' => InDoPoll(p),
           poller'[p] = "asleep" => poller[p] = "asleep",
           poller'[p] = "subscribing" => poller[p] = "subscribing"
    PROVE  Sleeps(p)'
  <1>1. /\ SignalAvailable(FdOf[p])' <=> SignalAvailable(FdOf[p])
        /\ \A w \in Publishers : OwesWakeup(w, FdOf[p])' <=> OwesWakeup(w, FdOf[p])
    BY DEF SignalAvailable, OwesWakeup
  <1> QED BY <1>1 DEF Sleeps

\* Nobody falls asleep over a signal, and every sleeper is owed a wake-up for a
\* signal that came later.
LEMMA SleepsInv ==
    ASSUME Workers = 1, OwnDescriptors, TypeOK, Solo, Owned, Subscribed,
           \A p \in Pollers : Sleeps(p), [Next]_vars, NEW q \in Pollers
    PROVE  Sleeps(q)'
  <1> DEFINE g == FdOf[q]
  <1>1. /\ Sleeps(q) /\ g \in Fds
        /\ \A p \in Pollers : p # q => FdOf[p] # g
    BY PollAssumption DEF OwnDescriptors
  <1> HIDE DEF g
  <1>2. ASSUME NEW f \in Fds, DoOpen(f) \/ DoRelease(f) PROVE Sleeps(q)'
    <2>1. CASE f = g
      <3>1. poller[q] = "idle" /\ poller' = poller
        BY <1>2, <2>1 DEF Owned, DoOpen, DoRelease, g
      <3> QED BY <3>1 DEF Sleeps, InDoPoll
    <2>2. CASE f # g
      <3>1. /\ poller' = poller /\ wants_in' = wants_in
            /\ UNCHANGED <<next_sig_id, todo, current, writer>>
            /\ sig_id'[g] = sig_id[g] /\ poll_handle'[g] = poll_handle[g]
            /\ g \in read_notifiers => g \in read_notifiers'
        BY <1>1, <1>2, <2>2 DEF TypeOK, DoOpen, DoRelease
      <3> QED BY <1>1, <3>1, SleepsStays DEF InDoPoll, g
    <2> QED BY <2>1, <2>2
  <1>3. ASSUME NEW p \in Pollers,
               \/ CallPoll(p) \/ Peek(p) \/ PollAgain(p) \/ PollEnds(p)
               \/ Read(p) \/ DoPoll(p),
               p # q
        PROVE  Sleeps(q)'
    <2>1. /\ poller'[q] = poller[q] /\ wants_in'[q] = wants_in[q]
          /\ sig_id'[g] = sig_id[g] /\ poll_handle'[g] = poll_handle[g]
          /\ g \in read_notifiers => g \in read_notifiers'
          /\ UNCHANGED <<next_sig_id, todo, current, writer>>
      BY <1>1, <1>3 DEF TypeOK, CallPoll, Peek, PollAgain, Ask, PollEnds, Read,
                        DoPoll, CheckAvailable, DropOldHandle, StoreHandle,
                        Subscribe
    <2> QED BY <1>1, <2>1, SleepsStays DEF InDoPoll, g
  <1>4. ASSUME \/ CallPoll(q) \/ Peek(q) \/ PollAgain(q) \/ PollEnds(q)
               \/ Read(q)
        PROVE  Sleeps(q)'
    <2>1. poller'[q] \in {"asked", "idle"}
      BY <1>4 DEF TypeOK, CallPoll, Peek, PollAgain, Ask, PollEnds, Read
    <2> QED BY <2>1 DEF Sleeps, InDoPoll
  <1>5. ASSUME CheckAvailable(q) PROVE Sleeps(q)'
    <2>1. \/ poller'[q] = "ready"
          \/ poller'[q] = "dropping" /\ ~(wants_in[q] /\ SignalAvailable(g))
      BY <1>5 DEF TypeOK, CheckAvailable, g
    <2>2. /\ wants_in'[q] = wants_in[q]
          /\ SignalAvailable(g)' <=> SignalAvailable(g)
      BY <1>5 DEF CheckAvailable, SignalAvailable
    <2> QED BY <2>1, <2>2 DEF Sleeps, InDoPoll, g
  <1>6. ASSUME DropOldHandle(q) \/ StoreHandle(q) PROVE Sleeps(q)'
    <2>1. /\ InDoPoll(q) /\ poller'[q] \in {"storing", "subscribing", "peeking"}
          /\ poller'[q] = "subscribing" => poll_handle'[g] # None
          /\ UNCHANGED <<wants_in, next_sig_id, sig_id>>
      BY <1>1, <1>6 DEF TypeOK, Owned, Requests, InDoPoll, DropOldHandle,
                        StoreHandle, g
    <2>2. SignalAvailable(g)' <=> SignalAvailable(g)
      BY <2>1 DEF SignalAvailable
    <2> QED BY <1>1, <2>1, <2>2 DEF Sleeps, InDoPoll, g
  <1>7. ASSUME Subscribe(q) PROVE Sleeps(q)'
    <2>1. /\ InDoPoll(q) /\ poller[q] # "idle"
          /\ \/ poller[q] = "subscribing" /\ poller'[q] \in {"asleep", "awoken"}
             \/ poller'[q] = "idle"
          /\ UNCHANGED <<wants_in, next_sig_id, sig_id, poll_handle, current, writer>>
      BY <1>7 DEF TypeOK, Subscribe, InDoPoll
    <2>2. \A w \in Publishers : writer[w] = "idle"
      BY <2>1 DEF Solo, InDoPoll
    <2>3. wants_in[q] => g \in read_notifiers'
      <3>1. CASE wants_in[q] = poll_events[g]
        <4>1. Opened(g)
          BY <2>1 DEF Owned, g
        <4> QED BY <1>1, <1>7, <3>1, <4>1 DEF Subscribed, Subscribe, g
      <3>2. CASE wants_in[q] # poll_events[g]
        BY <1>1, <1>7, <3>2 DEF Subscribe, g
      <3> QED BY <3>1, <3>2
    <2>4. wants_in[q] => ~SignalAvailable(g)'
      <3>1. SignalAvailable(g)' <=> SignalAvailable(g)
        BY <2>1 DEF SignalAvailable
      <3> QED BY <1>1, <2>1, <3>1 DEF Sleeps, InDoPoll, g
    <2> QED BY <1>1, <2>1, <2>2, <2>3, <2>4 DEF Sleeps, InDoPoll, g
  <1>8. ASSUME NEW w \in Publishers, QueueSignal(w) PROVE Sleeps(q)'
    <2>1. /\ \A p \in Pollers : ~InDoPoll(p)
          /\ \A v \in Publishers : writer[v] = "idle"
      BY <1>8, FreeWorker DEF QueueSignal
    <2>2. /\ poller' = poller /\ UNCHANGED <<wants_in, poll_handle, read_notifiers>>
          /\ writer'[w] = "looping" /\ todo'[w] = read_notifiers
          /\ \A v \in Publishers : v # w => writer'[v] = "idle"
      BY <1>8, <2>1 DEF TypeOK, QueueSignal
    <2>3. g \in read_notifiers => OwesWakeup(w, g)'
      BY <2>2 DEF OwesWakeup
    <2> QED BY <1>1, <2>1, <2>2, <2>3 DEF Sleeps, InDoPoll, g
  <1>9. ASSUME NEW w \in Publishers, CallNotifier(w) PROVE Sleeps(q)'
    <2>1. /\ writer[w] = "looping" /\ \A p \in Pollers : ~InDoPoll(p)
          /\ \A v \in Publishers : v # w => writer[v] = "idle"
          /\ poller' = poller
          /\ UNCHANGED <<wants_in, poll_handle, read_notifiers, next_sig_id, sig_id>>
      BY <1>9 DEF Solo, CallNotifier
    <2>2. /\ \A v \in Publishers : v # w => /\ writer'[v] = writer[v]
                                            /\ todo'[v] = todo[v]
                                            /\ current'[v] = current[v]
          /\ writer'[w] \in {"looping", "notifying"}
          /\ poll_handle[g] # None /\ g \in todo[w] => g \in todo'[w]
      BY <1>9 DEF TypeOK, CallNotifier
    <2>3. \A v \in Publishers :
            poll_handle[g] # None /\ OwesWakeup(v, g) => OwesWakeup(v, g)'
      BY <2>1, <2>2 DEF OwesWakeup
    <2>4. SignalAvailable(g)' <=> SignalAvailable(g)
      BY <2>1 DEF SignalAvailable
    <2> QED BY <1>1, <2>1, <2>2, <2>3, <2>4 DEF Sleeps, InDoPoll, g
  <1>10. ASSUME NEW w \in Publishers, NotifyPoll(w) PROVE Sleeps(q)'
    <2>1. /\ \A p \in Pollers : ~InDoPoll(p)
          /\ writer[w] = "notifying" /\ writer' = [writer EXCEPT ![w] = "destroying"]
          /\ UNCHANGED <<wants_in, poll_handle, read_notifiers, next_sig_id, sig_id>>
          /\ UNCHANGED <<todo, current>>
      BY <1>10 DEF Solo, NotifyPoll
    <2>2. poller'[q] = IF g = current[w] /\ poller[q] = "asleep" THEN "awoken"
                                                                 ELSE poller[q]
      BY <1>10 DEF NotifyPoll, g
    <2>3. \A v \in Publishers : v # w => writer'[v] = writer[v]
      BY <2>1 DEF TypeOK
    <2>4. g # current[w] =>
            \A v \in Publishers : OwesWakeup(v, g) => OwesWakeup(v, g)'
      BY <2>1, <2>3 DEF OwesWakeup
    <2>5. SignalAvailable(g)' <=> SignalAvailable(g)
      BY <2>1 DEF SignalAvailable
    <2> QED BY <1>1, <2>1, <2>2, <2>3, <2>4, <2>5 DEF Sleeps, InDoPoll, g
  <1>11. ASSUME NEW w \in Publishers, DestroyHandle(w) PROVE Sleeps(q)'
    <2>1. /\ \A p \in Pollers : ~InDoPoll(p)
          /\ writer[w] = "destroying" /\ writer' = [writer EXCEPT ![w] = "clearing"]
          /\ UNCHANGED <<poller, wants_in, poll_handle, read_notifiers, next_sig_id>>
          /\ UNCHANGED <<sig_id, todo, current>>
      BY <1>11 DEF Solo, DestroyHandle
    <2>2. \A v \in Publishers : v # w => writer'[v] = writer[v]
      BY <2>1 DEF TypeOK
    <2>3. g # current[w] =>
            \A v \in Publishers : OwesWakeup(v, g) => OwesWakeup(v, g)'
      BY <2>1, <2>2 DEF OwesWakeup
    <2>4. SignalAvailable(g)' <=> SignalAvailable(g)
      BY <2>1 DEF SignalAvailable
    <2>5. g = current[w] => poller[q] # "asleep"
      BY <1>1, <2>1 DEF Sleeps, g
    <2> QED BY <1>1, <2>1, <2>2, <2>3, <2>4, <2>5 DEF Sleeps, InDoPoll, g
  <1>12. ASSUME NEW w \in Publishers, ClearHandle(w) PROVE Sleeps(q)'
    <2>1. /\ \A p \in Pollers : ~InDoPoll(p)
          /\ writer[w] = "clearing"
          /\ UNCHANGED <<poller, wants_in, read_notifiers, next_sig_id, sig_id>>
      BY <1>12 DEF Solo, ClearHandle
    <2>2. g = current[w] => poller[q] # "asleep"
      BY <1>1, <2>1 DEF Sleeps, g
    <2>3. /\ \A v \in Publishers : v # w => /\ writer'[v] = writer[v]
                                            /\ todo'[v] = todo[v]
                                            /\ current'[v] = current[v]
          /\ writer'[w] = "looping" /\ todo'[w] = todo[w] \ {current[w]}
          /\ g # current[w] => poll_handle'[g] = poll_handle[g]
      BY <1>1, <1>12 DEF TypeOK, ClearHandle
    <2>4. g # current[w] =>
            \A v \in Publishers : OwesWakeup(v, g) => OwesWakeup(v, g)'
      BY <2>3 DEF OwesWakeup
    <2>5. SignalAvailable(g)' <=> SignalAvailable(g)
      BY <2>1 DEF SignalAvailable
    <2> QED BY <1>1, <2>1, <2>2, <2>3, <2>4, <2>5 DEF Sleeps, InDoPoll, g
  <1>13. ASSUME NEW w \in Publishers, FinishWrite(w) PROVE Sleeps(q)'
    <2>1. /\ \A p \in Pollers : ~InDoPoll(p)
          /\ writer[w] = "looping" /\ writer' = [writer EXCEPT ![w] = "idle"]
          /\ UNCHANGED <<poller, wants_in, poll_handle, read_notifiers, next_sig_id>>
          /\ UNCHANGED <<sig_id, todo, current>>
      BY <1>13 DEF Solo, FinishWrite
    <2>2. \A v \in Publishers : v # w => writer'[v] = writer[v]
      BY <2>1 DEF TypeOK
    <2>3. \A v \in Publishers : OwesWakeup(v, g) => OwesWakeup(v, g)'
      BY <1>13, <2>1, <2>2 DEF OwesWakeup, FinishWrite
    <2>4. SignalAvailable(g)' <=> SignalAvailable(g)
      BY <2>1 DEF SignalAvailable
    <2> QED BY <1>1, <2>1, <2>2, <2>3, <2>4 DEF TypeOK, Sleeps, InDoPoll, g
  <1>14. CASE UNCHANGED vars
    BY <1>1, <1>14, SleepsStays DEF vars, InDoPoll
  <1> QED BY <1>2, <1>3, <1>4, <1>5, <1>6, <1>7, <1>8, <1>9, <1>10, <1>11, <1>12,
             <1>13, <1>14 DEF Next, DoPoll, QueueReadReady

-----------------------------------------------------------------------------
(***************************************************************************)
(* The theorems.                                                           *)
(***************************************************************************)

\* The handlers of a single worker do not overlap, and own the handles.
THEOREM OneWorker ==
    ASSUME Workers = 1
    PROVE  Spec => [](TypeOK /\ Solo /\ Owned)
  <1>1. Init => TypeOK /\ Solo /\ Owned
    <2> SUFFICES ASSUME Init PROVE TypeOK /\ Solo /\ Owned
      OBVIOUS
    <2>1. Solo
      BY DEF Init, Solo, InDoPoll
    <2>2. NoHandleLeaked
      BY DEF Init, NoHandleLeaked
    <2>3. Owned
      BY <2>2 DEF Init, Owned, Requests, Calls
    <2> QED BY <2>1, <2>3, InitType
  <1>2. TypeOK /\ Solo /\ Owned /\ [Next]_vars => (TypeOK /\ Solo /\ Owned)'
    BY TypeInv, SoloInv, OwnedInv
  <1> QED BY <1>1, <1>2, PTL DEF Spec

\* With one worker a poll handle is neither used nor destroyed after it was
\* destroyed, also when pollers share a descriptor.
THEOREM HandlesSafe ==
    ASSUME Workers = 1
    PROVE  Spec => []HandlesUsedWhileAlive
  <1>1. Owned => HandlesUsedWhileAlive
    BY DEF Owned, HandlesUsedWhileAlive
  <1> QED BY <1>1, OneWorker, PTL

\* With one worker no handle is forgotten but by do_release.
THEOREM HandlesKept ==
    ASSUME Workers = 1
    PROVE  Spec => []NoHandleLeaked
  <1>1. Owned => NoHandleLeaked
    BY DEF Owned
  <1> QED BY <1>1, OneWorker, PTL

\* With one worker, and a descriptor for every poller, nobody sleeps in poll
\* while there is a signal to read, but for the time that a publisher takes to
\* wake him.
THEOREM PollersWoken ==
    ASSUME Workers = 1, OwnDescriptors
    PROVE  Spec => []NoSleepWithSignals
  <1> DEFINE Awake == Subscribed /\ \A p \in Pollers : Sleeps(p)
             Sound == TypeOK /\ Solo /\ Owned
  <1>1. Init => Awake
    BY PollAssumption DEF Init, Subscribed, Opened, Sleeps, InDoPoll
  <1>2. Sound /\ Awake /\ [Next]_vars => Awake'
    BY SubscribedInv, SleepsInv
  <1>3. Awake => NoSleepWithSignals
    BY DEF Sleeps, NoSleepWithSignals
  <1>4. Spec => []Sound
    BY OneWorker
  <1> QED BY <1>1, <1>2, <1>3, <1>4, PTL DEF Spec
=============================================================================
