\* Signals of two sizes, and a reader whose buffer holds the larger one.
SPECIFICATION Spec
CONSTANTS
    N = 4
    MaxBatch = 2
    Rooms = {2}
    Workers = 2
    MaxSig = 4
    MaxInterrupts = 0
    r1 = r1
    r2 = r2
    s1 = s1
    s2 = s2
    w1 = w1
    Publishers = {w1}
    Readers = {r1}
    Subscribers = {s1}
    SubOf <- OneSubOf
    Buffers <- TwoSizes
INVARIANTS
    ReplyFits
