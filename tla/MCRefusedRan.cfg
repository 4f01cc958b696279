SPECIFICATION Spec
CONSTANTS
    Jobs = {j1}
    NoJob = NoJob
    Chunks = 1
    MaxCollects = 0
    MaxFaults = 1
INVARIANTS RefusedNeverRan
CHECK_DEADLOCK FALSE
