SPECIFICATION Spec
CONSTANTS
  Queriers = {"timer", "main"}
  MaxBytes = 2
  MaxResets = 1
  MaxRestarts = 1
  Helpers = {1, 2}
  MaxScreens = 4
  Sessions = {1, 2, 3}
  MaxConnects = 3
CHECK_DEADLOCK FALSE
INVARIANTS
  NothingMissed
  CallbacksExact
  SessionsApart
PROPERTIES
  RateSettles
