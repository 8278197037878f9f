SPECIFICATION Spec
CONSTANTS
    Request = {r1, r2, r3}
    NoRequest = NoRequest
    Payload = {p1, p2}
    NoPayload = NoPayload
    NoRow = NoRow
    TTL = 2
    Skew = 0
    LeasesHold = FALSE
    MaxClock = 5
    MaxFaults = 0
SYMMETRY Interchangeable
PROPERTY CompletedIsFinal
