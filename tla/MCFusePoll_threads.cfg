\* Two threads serve the requests.
SPECIFICATION Spec
CONSTANTS
    N = 4
    MaxSig = 1
    MaxHandles = 4
    Workers = 2
    a1 = a1
    a2 = a2
    fa = fa
    fb = fb
    w1 = w1
    w2 = w2
    Publishers = {w1}
    Fds = {fa}
    Pollers = {a1}
    FdOf <- OneFdOf
INVARIANTS
    NoSleepWithSignals
