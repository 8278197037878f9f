SPECIFICATION Spec
CONSTANTS
    Call = {c1, c2, c3}
    NoCall = NoCall
    Task = {k1, k2}
    User = {u, v}
    Nobody = Nobody
    Absent = Absent
    Serialized = TRUE
SYMMETRY Interchangeable
INVARIANTS
    AuditInOrder
    TrailConsecutive
PROPERTIES
    CallsAtomic
