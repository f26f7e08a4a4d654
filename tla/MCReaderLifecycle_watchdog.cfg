SPECIFICATION Spec
CONSTANTS
    NumTypes = 2
    MaxRuns = 1
    Faults <- RefusalFaults
INVARIANTS
    NoLateWatchdog
