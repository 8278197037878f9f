SPECIFICATION EndingSpec
CONSTANTS
    Call = {1, 2, 3}
    NoCall = 0
    Task = {1, 2}
    User = {1, 2}
    Nobody = Nobody
    Absent = Absent
    Serialized = FALSE
INVARIANTS
    AuditRooted
    TrailLinked
    TrailCurrent
    LogCurrent
    DeletedForGood
PROPERTIES
    CallsAtomic
    CallsEnd
