SPECIFICATION Spec
CONSTANTS
    Request = {r1, r2, r3}
    NoRequest = NoRequest
    Payload = {p1, p2}
    NoPayload = NoPayload
    NoRow = NoRow
    TTL = 2
    Skew = 1
    LeasesHold = TRUE
    MaxClock = 4
    MaxFaults = 1
SYMMETRY Interchangeable
INVARIANTS
    HolderOwnsRow
    OneHolder
    ReplayMatchesPayload
PROPERTIES
    CompletedIsFinal
    RerunOnlyAfterWindow
    OneSlot
