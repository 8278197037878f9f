SPECIFICATION Spec
CONSTANTS
    Call = {c1, c2}
    NoCall = NoCall
    Task = {k1, k2}
    User = {u}
    Nobody = Nobody
    Absent = Absent
    Serialized = FALSE
SYMMETRY Interchangeable
INVARIANT AuditLinked
