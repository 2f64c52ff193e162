\* Two databases, two strong keys and one checkpoint path; four records.
SPECIFICATION Spec
CONSTANTS
    AuditKey = "unused"
    Databases = {d1, d2}
    StrongKeys = {k1, k2}
    ShortKey = "short"
    Environments <- MCEnvironments
    MaxRecords = 4
SYMMETRY Symmetry
INVARIANTS
    VerdictExplained
    ProductionVouchesForStrongKeys
PROPERTIES
    VerdictsAreStable
