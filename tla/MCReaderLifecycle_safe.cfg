SPECIFICATION Spec
CONSTANTS
    NumTypes = 2
    MaxRuns = 2
    Faults <- RefusalFaults
CHECK_DEADLOCK FALSE
INVARIANTS
    TypeOK
    NoPanic
    OneGeneration
    ClosedIsClean
