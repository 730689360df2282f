\* Two threads read a descriptor each.
SPECIFICATION FairSpec
CONSTANTS
    N = 4
    IdMod = 100
    MaxSig = 6
    p1 = p1
    p2 = p2
    r1 = r1
    r2 = r2
    s1 = s1
    s2 = s2
    d1 = d1
    d2 = d2
    Publishers = {p1}
    Readers = {r1, r2}
    Subscribers = {s1, s2}
    SubOf <- OwnSubOf
    Payloads = {d1}
    Outcomes = {"processed_call_again", "processed_dont_call_again"}

 
PROPERTIES
    SignalsAreServedUnlessLapped
    ImplementsSignalLog
