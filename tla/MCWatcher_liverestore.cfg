SPECIFICATION LiveSpec
CONSTANTS
    Objs = {a, b}
    MaxVersion = 3
    MaxRestored = 3
    MaxRollbacks = 1
    Readers = {r1}
    Bookmarking = TRUE
    HasStore = TRUE
    Faults <- LiveRestoreFaults
PROPERTIES
    NoSilentStream
