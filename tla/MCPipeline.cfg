SPECIFICATION LiveSpec
CONSTANTS
    Readers = {r1}
    Processors = {p1, p2}
    MaxEntries = 3
    InCap = 1
    OutCap = 1
    MaxStarts = 2
CHECK_DEADLOCK FALSE
INVARIANTS
    TypeOK
    OnlyScrubbed
    InOrder
    DrainedWhenClosed
PROPERTIES
    CloseReachesRoutes
    SlowRouteHoldsNobody
