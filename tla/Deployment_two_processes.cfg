\* Two processes and two requests; processes may die, also holding the lock.
SPECIFICATION FairDeployment
CONSTANTS
    Writers = {w1, w2}
    Calls = {c1, c2}
    NoCall = NoCall
    AppendRetries = 2
    HasStore = TRUE
    AuditKey = "audit_key"
    MayDie = TRUE
INVARIANTS
    LoopTypeOK
    EntryIdNamesRecord
    RealTimeOrder
    StampsFollowIds
PROPERTIES
    AllAnswered
    ImplementsLedger
CHECK_DEADLOCK FALSE
