CONSTANTS
  Profiles = {"-1"}
  UdpDns = {FALSE}
  Auth = {FALSE}
  Proxies = {"numeric", "name", "empty"}
  MaxStarts = 2
  MaxRevokes = 1
  MaxPosts = 2
  Overlap = FALSE
  MaxDialogs = 1
  MaxStops = 1
  MaxTimers = 1
  Destroyers = {main, binder}
  MaxSpawns = 3
SPECIFICATION MCSpec
CHECK_DEADLOCK FALSE
INVARIANTS FragmentAgrees StartsOnce NoOrphan ThrowsOnlyChildless
PROPERTIES ButtonReturns Implements CallersReturn
