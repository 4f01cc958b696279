SPECIFICATION PressureSpec
CONSTANTS
    Tracked = {a}
    MaxCrashes = 1
PROPERTIES
    OperatorPauseStays
