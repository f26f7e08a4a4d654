SPECIFICATION LiveSpec
CONSTANTS
    NumTypes = 2
    MaxRuns = 2
    Faults <- ImpatientFaults
CHECK_DEADLOCK FALSE
PROPERTIES
    RunReturns
    CloseEndsAll
    EveryWatcherServed
