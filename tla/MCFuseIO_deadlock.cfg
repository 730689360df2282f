\* One reader that is interrupted twice, a writer, and threads for both.
SPECIFICATION FairSpec
CONSTANTS
    N = 4
    MaxBatch = 2
    Rooms = {1}
    Workers = 3
    MaxSig = 2
    MaxInterrupts = 2
    r1 = r1
    r2 = r2
    s1 = s1
    s2 = s2
    w1 = w1
    Publishers = {w1}
    Readers = {r1}
    Subscribers = {s1}
    SubOf <- OneSubOf
    Buffers <- OneRecord
PROPERTIES
    WritesComplete
CHECK_DEADLOCK FALSE
