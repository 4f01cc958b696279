SPECIFICATION FairSpec
CONSTANTS
    RetryMax = 1
    Dialects = {"torque", "slurm"}
    FetchLimit = 2
    LateWrapper = FALSE
    MaxFaults = 2
INVARIANTS
    LabelIsTrue
PROPERTIES
    RetriedOnlyAfterEnd KilledStops NothingForgotten
CHECK_DEADLOCK FALSE
