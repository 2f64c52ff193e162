\* Two requests in flight at one provider; the tokens of both can be repeated to either.
SPECIFICATION Spec
CONSTANTS
    Policy <- MCPolicy
    Body <- MCBody
    Requests = {"alice", "bob"}
    RehydrateFor = {"alice", "bob"}
    Namespaces = {"N1", "N2"}
    Invented <- MCInvented
    Unencodable <- MCUnencodable
    ReplyLength = 2
    EnvelopeMayFail = FALSE
    AppendResults = {"ok"}
    ScanEnabled = TRUE
    StoreRedacted = FALSE
    MayCrash = FALSE
INVARIANTS
    TypeOK
    TokensResolvable
    OwnTokensRestored
    OnlyOwnValuesReturn
    OneRecordPerOutcome
CHECK_DEADLOCK FALSE
