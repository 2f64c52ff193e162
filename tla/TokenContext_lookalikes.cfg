\* A first message of up to one symbol, a second one of up to four, so that it
\* can hold a whole token, and two namespaces.
SPECIFICATION Spec
CONSTANTS
    Namespaces = {n1, n2}
    EntityTypes = {"PERSON"}
    Written <- MCWritten
    MaxLength <- MCMaxLength
    MaxAttempts = 2
SYMMETRY Symmetry
INVARIANTS
    RepliesAreReadAsWritten
    StableReferents
CHECK_DEADLOCK FALSE
