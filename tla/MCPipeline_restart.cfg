SPECIFICATION Spec
CONSTANTS
    Readers = {r1, r2}
    Processors = {p1, p2}
    MaxEntries = 1
    InCap = 1
    OutCap = 1
    MaxStarts = 2
CHECK_DEADLOCK FALSE
INVARIANTS
    RunOnce
