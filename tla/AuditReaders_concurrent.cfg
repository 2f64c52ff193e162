\* Three calls of two writers, a verifier and a pager between their steps.
SPECIFICATION ReadersSpec
CONSTANTS
    Writers = {w1, w2}
    Calls = {c1, c2, c3}
    NoCall = NoCall
    AppendRetries = 2
    HasStore = TRUE
    AuditKey = "audit_key"
    PageLimits = {1, 2}
SYMMETRY Symmetry
INVARIANTS
    TypeOK
    ChainIntact
    RecordContinuesTail
    ExactlyOnce
    CheckpointCommitted
    NoFalseAlarm
    PageConsistent
CHECK_DEADLOCK FALSE
