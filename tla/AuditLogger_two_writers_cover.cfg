\* Two writers: the order of the saves need not be the order of the commits.
SPECIFICATION Spec
CONSTANTS
    Writers = {w1, w2}
    Calls = {c1, c2}
    NoCall = NoCall
    AppendRetries = 2
    HasStore = TRUE
    AuditKey = "audit_key"
INVARIANTS
    AckedCovered
CHECK_DEADLOCK FALSE
