SPECIFICATION MCSpec
CONSTANTS
  Shas = {a, b}
  Jobs = {j1}
  NoSha = none
  Firsts = {a, none}
  Target = b
  MaxTx = 2
  MaxInos = 6
  MaxPlans = 1
  Keep = 0
  N = 1
  MaxCommands = 1
INVARIANT LiveJobKeepsRuntime
CHECK_DEADLOCK FALSE
