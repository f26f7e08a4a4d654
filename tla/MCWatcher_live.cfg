SPECIFICATION LiveSpec
CONSTANTS
    Objs = {a, b}
    MaxVersion = 3
    MaxRestored = 2
    MaxRollbacks = 1
    Readers = {r1}
    Bookmarking = TRUE
    HasStore = TRUE
    Faults <- LiveFaults
INVARIANTS
    RecoveryComplete
PROPERTIES
    CaughtUp
    NoSilentStream
