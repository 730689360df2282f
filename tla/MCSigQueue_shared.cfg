\* Two threads read one descriptor, every outcome of the callback.
SPECIFICATION Spec
CONSTANTS
    N = 4
    IdMod = 100
    MaxSig = 7
    p1 = p1
    p2 = p2
    r1 = r1
    r2 = r2
    s1 = s1
    s2 = s2
    d1 = d1
    d2 = d2
    Publishers = {p1, p2}
    Readers = {r1, r2}
    Subscribers = {s1}
    SubOf <- SharedSubOf
    Payloads = {d1, d2}
    Outcomes = {"processed_call_again", "processed_dont_call_again", "not_processed"}
SYMMETRY MCSymmetry
INVARIANTS
    TypeOK
    RingHoldsWindow
    DeliveredAsPublished
    DeliveredInOrder
    NoLostWakeup
    SleepsOnlyIfLapped
PROPERTIES
    PassesOnlyProcessedOrOverwritten
