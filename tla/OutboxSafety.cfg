SPECIFICATION Spec
CONSTANTS
    Event = {1, 2, 3}
    Relay = {a, b}
    BatchSize = 2
    MaxAttempts = 2
    LeasesHold = TRUE
    MaxFaults = 1
SYMMETRY Replicas
INVARIANTS
    OneClaim
PROPERTIES
    SettledIsFinal
    NoDeliveryAfterSettled
    FirstInFirstTried
    DeliveredAsPromised
