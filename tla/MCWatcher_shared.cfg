SPECIFICATION Spec
CONSTANTS
    Objs = {a, b}
    MaxVersion = 3
    MaxRestored = 1
    MaxRollbacks = 0
    Readers = {r1, r2}
    Bookmarking = TRUE
    HasStore = TRUE
    Faults <- SharedFaults
SYMMETRY Symmetry
INVARIANTS
    Coverage
    NoChangeSkipped
PROPERTIES
    OnlyUnusableCleared
    ImplementsFeed
