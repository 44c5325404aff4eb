CONSTANTS
  Queries = {q}
  Controls = {c}
  Status = status
  NSections = 2
  NAddrs = 2
  MaxCommands = 1
  Configs <- MCConfigs
SPECIFICATION FairSpec
CHECK_DEADLOCK FALSE
INVARIANTS UsersUndisturbed NothingForgotten
PROPERTIES DueIsTested
