SPECIFICATION Spec
CONSTANTS
    Clients = {c1, c2}
    Keys = {k1, k2}
    Values = {1, 2}
    MaxAttempts = 2
    MaxCalls = 3
SYMMETRY Symmetry
CHECK_DEADLOCK FALSE
INVARIANTS
    StoreTypeOK
    ResultsHold
PROPERTIES
    OnlyOwnBookmark
    ImplementsStore
