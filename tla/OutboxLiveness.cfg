SPECIFICATION FairSpec
CONSTANTS
    Event = {1, 2}
    Relay = {a, b}
    BatchSize = 1
    MaxAttempts = 2
    LeasesHold = TRUE
    MaxFaults = 2
INVARIANTS
    DeliveryAccounted
    AttemptsAccounted
    DeadMeansExhausted
PROPERTY EventuallySettled
