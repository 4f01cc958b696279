SPECIFICATION Spec
CONSTANTS
    RetryMax = 0
    Dialects = {"slurm"}
    FetchLimit = 2
    LateWrapper = FALSE
    MaxFaults = 2
INVARIANT CompletedRan
CHECK_DEADLOCK FALSE
