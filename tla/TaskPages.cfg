SPECIFICATION Spec
CONSTANTS
    MaxId = 4
    Time <- Instants
    FirstPage <- FromOne
    DefaultListLimit = 2
    MaxListLimit = 3
    MaxListOffset = 2
    MaxInt32 = 7
    MaxInt64 = 15
    Missing = Missing
    Malformed = Malformed
    TieBroken = TRUE
CHECK_DEADLOCK FALSE
INVARIANTS
    NothingMissed
    NothingTwice
