CONSTANTS
  Queries = {q}
  Controls = {c}
  Status = status
  NSections = 2
  NAddrs = 1
  MaxCommands = 1
  Configs <- MCConfigs
SPECIFICATION FairSpec
CHECK_DEADLOCK FALSE
PROPERTIES CommandedAddressesStay
