\* A writer laps a reader that is about to reply.
SPECIFICATION Spec
CONSTANTS
    N = 4
    MaxBatch = 2
    Rooms = {2}
    Workers = 2
    MaxSig = 6
    MaxInterrupts = 0
    r1 = r1
    r2 = r2
    s1 = s1
    s2 = s2
    w1 = w1
    Publishers = {w1}
    Readers = {r1}
    Subscribers = {s1}
    SubOf <- OneSubOf
    Buffers <- OneRecord
INVARIANTS
    ReplyAsPublished
