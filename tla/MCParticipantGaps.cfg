SPECIFICATION MCSpec
CONSTANTS
  Shas = {a, b}
  Jobs = {j1}
  NoSha = none
  Firsts = {a, none}
  Target = b
  MaxTx = 1
  MaxInos = 2
  MaxPlans = 1
  Keep = 0
  N = 1
  MaxCommands = 4
INVARIANTS RolledBackIsOld LeaseIsKept
CHECK_DEADLOCK FALSE
