\* A reply that UTF-8 cannot encode.
SPECIFICATION Spec
CONSTANTS
    Policy <- MCPolicy
    Body <- MCBody
    Requests = {"dave"}
    RehydrateFor = {"dave"}
    Namespaces = {"N1", "N2"}
    Invented <- MCInventedAny
    Unencodable <- MCUnencodable
    ReplyLength = 1
    EnvelopeMayFail = FALSE
    AppendResults = {"ok"}
    ScanEnabled = TRUE
    StoreRedacted = FALSE
    MayCrash = FALSE
INVARIANTS
    OneRecordPerOutcome
CHECK_DEADLOCK FALSE
