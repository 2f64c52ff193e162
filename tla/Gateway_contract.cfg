\* Every failure, with the scan and with stored content; liveness.
SPECIFICATION FairSpec
CONSTANTS
    Policy <- MCPolicy
    Body <- MCBody
    Requests = {"bob", "carol"}
    RehydrateFor = {"bob"}
    Namespaces = {"N1", "N2"}
    Invented <- MCInventedAny
    Unencodable <- MCUnencodable
    ReplyLength = 2
    EnvelopeMayFail = TRUE
    AppendResults = {"ok", "write_error", "late_error", "raised"}
    ScanEnabled = TRUE
    StoreRedacted = TRUE
    MayCrash = TRUE
INVARIANTS
    FailClosed
    AuditTrail
    ContextsCleared
PROPERTIES
    ImplementsContract
CHECK_DEADLOCK FALSE
