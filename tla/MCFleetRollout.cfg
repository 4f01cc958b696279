SPECIFICATION FairSpec
CONSTANTS
    MaxReports = 2
    MaxAttempts = 3
    MaxFaults = 2
INVARIANTS LaunchedOnce GroupIsHeld
PROPERTIES OpenedAfterProof CompleteIsTrue Converges
CHECK_DEADLOCK FALSE
