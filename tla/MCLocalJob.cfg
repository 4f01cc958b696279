SPECIFICATION FairSpec
CONSTANTS
    Jobs = {a}
    Submitted = {a}
    Recover = {a}
    RetryMax = 1
    MaxJobs = 1
    MaxLaunches = 2
    MaxOutages = 2
INVARIANTS
    OneAttempt
    NoFrozenCommand
    OutcomeIsTrue
PROPERTIES
    TerminalIsFinal
    NothingLingers
