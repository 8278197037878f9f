SPECIFICATION Spec
CONSTANTS
    c1 = c1
    c2 = c2
    Client = {c1}
    Request = {r1, r2, r3, r4}
    clientIP <- FromOne
    NoBucket = NoBucket
    NoClient = NoClient
    Burst = 1
    Cost = 2
    CleanupTL = 4
    Late = 1
    Horizon = 7
SYMMETRY Interchangeable
INVARIANTS
    WithinRate
    OneMoreBurst
    TokensKept
CHECK_DEADLOCK FALSE
