SPECIFICATION FairSpec
CONSTANTS
    Jobs = {a}
    Submitted = {a}
    Recover = {}
    RetryMax = 1
    MaxJobs = 1
    MaxLaunches = 2
    MaxOutages = 0
PROPERTIES
    IntentFinishes
