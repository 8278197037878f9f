SPECIFICATION PresentingSpec
CONSTANTS
    Call = {c1, c2, c3, c4}
    NoCall = NoCall
    Password = {p, q}
    NoPassword = NoPassword
    NoSession = NoSession
    TTL = 1
    Second = 2
    MaxClock = 2
    MaxFaults = 1
    MaxEdits = 1
SYMMETRY Interchangeable
INVARIANTS
    OneOwner
    BarredStaysOut
    LiveIsAccepted
