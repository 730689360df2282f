\* Two readers of a file that may be interrupted, a writer, and two workers.
SPECIFICATION FairSpec
CONSTANTS
    N = 4
    MaxBatch = 2
    Rooms = {0, 1}
    Workers = 2
    MaxSig = 2
    MaxInterrupts = 2
    r1 = r1
    r2 = r2
    s1 = s1
    s2 = s2
    w1 = w1
    Publishers = {w1}
    Readers = {r1, r2}
    Subscribers = {s1, s2}
    SubOf <- OwnSubOf
    Buffers <- MCBuffers
INVARIANTS
    TypeOK
    InterruptsEndOneRead
    NothingVanishes
    DeadlockTakesTwoInterrupts
PROPERTIES
    
    ImplementsSignalLog
    InterruptedReadEnds
    WritesCompleteUnlessLockedOut
\* The threads really may end in a deadlock.
CHECK_DEADLOCK FALSE
