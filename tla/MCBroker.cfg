SPECIFICATION FairSpec
CONSTANTS
    Jobs = {1, 2}
    Killed = {1}
    Roots = {r1}
    NoRoot = NoRoot
    Slots = 1
    MaxAttempts = 2
    MaxFaults = 1
INVARIANTS RecordTellsWhere StoppedStaysStopped NoOverCommit
PROPERTIES NothingStranded
