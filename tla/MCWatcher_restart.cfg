SPECIFICATION Spec
CONSTANTS
    Objs = {a, b}
    MaxVersion = 4
    MaxRestored = 2
    MaxRollbacks = 1
    Readers = {r1}
    Bookmarking = TRUE
    HasStore = TRUE
    Faults <- UsualFaults
SYMMETRY Symmetry
INVARIANTS
    TypeOK
    StoredCovered
    Coverage
    NoChangeSkipped
