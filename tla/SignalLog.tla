----------------------------- MODULE SignalLog ------------------------------
(***************************************************************************)
(* What a signal file promises to the programs that use it (README.md,     *)
(* "Guaranteed delivery", "Detection of lost signals"): the signals written *)
(* form one log, the same for all subscribers.  A subscriber receives the  *)
(* log in order, from the point where it opened the file, and each signal  *)
(* once; it misses a signal only if Capacity newer ones were written       *)
(* before it read it.                                                      *)
(*                                                                         *)
(* There are no slots, ids of bounded width, locks or threads here.        *)
(***************************************************************************)
EXTENDS Integers, Sequences

CONSTANTS
    Capacity,    \* signals that a file keeps
    Payloads,
    Subscribers

VARIABLES
    log,         \* all signals ever written
    cursor,      \* per subscriber: position of its next signal, 0 if not open
    received     \* per subscriber: the positions and payloads it was given

vars == <<log, cursor, received>>

\* The oldest position that is still kept.
Kept == IF Len(log) <= Capacity THEN 1 ELSE Len(log) - Capacity + 1

Init ==
    /\ log = <<>>
    /\ cursor \in [Subscribers -> {0, 1}]
    /\ received = [s \in Subscribers |-> <<>>]

Write(data) ==
    /\ log' = Append(log, data)
    /\ UNCHANGED <<cursor, received>>

Open(s) ==
    /\ cursor[s] = 0
    /\ cursor' = [cursor EXCEPT ![s] = Len(log) + 1]
    /\ UNCHANGED <<log, received>>

\* A subscriber that fell behind goes on with the oldest signal kept.
Miss(s) ==
    /\ cursor[s] \in 1..(Kept - 1)
    /\ cursor' = [cursor EXCEPT ![s] = Kept]
    /\ UNCHANGED <<log, received>>

\* One read gives a subscriber some of the signals that are kept, in order.
Receive(s) ==
    LET first == IF cursor[s] < Kept THEN Kept ELSE cursor[s]
    IN  /\ cursor[s] # 0
        /\ \E last \in first..Len(log) :
             /\ received' = [received EXCEPT
                   ![s] = @ \o [k \in 1..(last - first + 1) |->
                                  <<first + k - 1, log[first + k - 1]>>]]
             /\ cursor' = [cursor EXCEPT ![s] = last + 1]
        /\ UNCHANGED log

Next ==
    \/ \E data \in Payloads : Write(data)
    \/ \E s \in Subscribers : Open(s) \/ Miss(s) \/ Receive(s)

Spec == Init /\ [][Next]_vars
=============================================================================
