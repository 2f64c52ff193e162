\* Three changes to a table of up to three rows.
SPECIFICATION Spec
CONSTANTS
    Contents = {p1, p2}
    AuditKey = "audit_key"
    OtherKey = "other_key"
    MaxRows = 3
    MaxChanges = 3
SYMMETRY Symmetry
INVARIANTS
    TypeOK
    PassedRowsAreGenuine
    CheckpointAnchors
CHECK_DEADLOCK FALSE
