SPECIFICATION Spec
CONSTANTS
    Jobs = {a}
    Submitted = {a}
    Recover = {}
    RetryMax = 0
    MaxJobs = 1
    MaxLaunches = 1
    MaxOutages = 1
INVARIANTS
    CleanedAfterExit
PROPERTIES
    GoneOrphanIsCleaned
