\* Three saves and a reader; processes die, calls fail, the machine may stop
\* and come back while saves are still to begin.
SPECIFICATION Spec
CONSTANTS
    Saves = {s1, s2, s3}
    Readers = {r1}
    FoundFiles = {"absent", "not_json", "not_object"}
    MayLosePower = TRUE
SYMMETRY Symmetry
INVARIANTS
    TypeOK
    LoadedIsSaved
PROPERTIES
    NoLitter
    ImplementsRegister
CHECK_DEADLOCK FALSE
