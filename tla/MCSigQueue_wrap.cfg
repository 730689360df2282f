\* Stored ids wrap around after 7, as those of the code do after 2^32 - 1.
SPECIFICATION FairSpec
CONSTANTS
    N = 4
    IdMod = 8
    MaxSig = 10
    p1 = p1
    p2 = p2
    r1 = r1
    r2 = r2
    s1 = s1
    s2 = s2
    d1 = d1
    d2 = d2
    Publishers = {p1}
    Readers = {r1}
    Subscribers = {s1}
    SubOf <- SingleSubOf
    Payloads = {d1}
    Outcomes = {"processed_call_again", "processed_dont_call_again"}
PROPERTY SignalsAreServedUnlessLapped
