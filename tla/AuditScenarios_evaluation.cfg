\* Every scenario on logs of up to five records, three records after it.
SPECIFICATION Spec
CONSTANTS
    AuditKey = "audit_key"
    OtherKey = "other_key"
    MaxRecords = 5
    MaxLater = 3
INVARIANTS
    TamperingLocated
    TruncationsVerifyInternally
    CheckpointDecides
CHECK_DEADLOCK FALSE
