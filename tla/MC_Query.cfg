SPECIFICATION Spec
CONSTANTS
  Replies <- World
  DelegOnly <- MCDelegOnly
  Configurations <- MCConfigurations
  Questions <- MCQuestions
  Caches <- MCCaches
  NegDomainPol = "auth"
  NegRrsPol = "default"
  NegTtl = 15
  MAXNAMESERVIPS = 3
  Faults = {"refused", "poll", "purge", "junk", "memory", "slow", "at once"}
  Ports = 2
  ParQueries = 2
  MaxHops = 3
  Paranoid = TRUE
  LndownKluge = FALSE
  LocalAddrs = {}
  Repetitions = 2
  MaxCalls = 1
CHECK_DEADLOCK FALSE
INVARIANTS
  NothingLeaks
  NotCircular
PROPERTIES
  NothingForeign
  Terminates
