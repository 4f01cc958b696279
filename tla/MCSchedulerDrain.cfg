SPECIFICATION DrainSpec
CONSTANTS
    Hosts = {"cluster"}
    Updated = "cluster"
    Local = "driver"
    Jobs <- Two
    Target <- Where
    Operators = {"ann"}
    MultiUser = FALSE
    MaxCommands = 2
    MaxFaults = 1
INVARIANTS NoLaneLeaks
PROPERTIES HeldGetsNothing
CHECK_DEADLOCK FALSE
