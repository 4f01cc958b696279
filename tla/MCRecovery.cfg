SPECIFICATION Spec
CONSTANTS
    Jobs = {a, b}
    Submitted = {a}
    Recover = {a}
    RetryMax = 0
    MaxJobs = 1
    MaxLaunches = 1
    MaxOutages = 1
INVARIANTS
    OnlyAbortedResumes
    MarkerIsOwn
