SPECIFICATION DrainSpec
CONSTANTS
    Hosts = {"cluster"}
    Updated = "cluster"
    Local = "driver"
    Jobs <- Two
    Target <- Where
    Operators = {"ann"}
    MultiUser = FALSE
    MaxCommands = 2
    MaxFaults = 1
CHECK_DEADLOCK FALSE
PROPERTY SnapshotIsCoherent
INVARIANT NothingRunsMeanwhile
