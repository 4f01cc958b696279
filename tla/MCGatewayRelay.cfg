SPECIFICATION FairSpec
CONSTANTS
    Jobs = {j1}
    NoJob = NoJob
    Chunks = 2
    MaxCollects = 2
    MaxFaults = 2
INVARIANTS AnswersAreTrue ResultsAreWhole
PROPERTIES EverythingSettles
CHECK_DEADLOCK FALSE
