\* sigfs -s: one thread serves all requests.
SPECIFICATION FairSpec
CONSTANTS
    N = 4
    MaxSig = 3
    MaxHandles = 4
    Workers = 1
    a1 = a1
    a2 = a2
    fa = fa
    fb = fb
    w1 = w1
    w2 = w2
    Publishers = {w1}
    Fds = {fa, fb}
    Pollers = {a1, a2}
    FdOf <- OwnFdOf
INVARIANTS
    TypeOK
    NoSleepWithSignals
    HandlesUsedWhileAlive
    NoHandleLeaked

    
