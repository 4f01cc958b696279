SPECIFICATION Spec
CONSTANTS
    RetryMax = 1
    Dialects = {"torque"}
    FetchLimit = 2
    LateWrapper = FALSE
    MaxFaults = 2
INVARIANT CodeIsOwn
CHECK_DEADLOCK FALSE
