SPECIFICATION FairSpec
CONSTANTS
  Watchers <- MCWatchers
  Kind <- MCKind
  Priority <- MCPriority
  AfterOf <- MCAfterOf
  Repeat <- MCRepeat
  Offset <- MCOffset
  Rescheduled = {"e"}
  FdOf <- MCFdOf
  EventsOf <- MCEventsOf
  SignalOf <- MCSignalOf
  PidOf <- MCPidOf
  PartnerOf <- MCPartnerOf
  Observed = {"t1", "t4", "r3", "r4", "u", "c0", "c1", "a", "d", "e", "k", "oi", "ot"}
  Programs <- MCPrograms
  Fds = {3, 4}
  Signals = {"CHLD", "USR"}
  Asyncs = {"a"}
  Pids = {1, 2}
  NUMPRI = 2
  anfdmax = 5
  MAX_BLOCKTIME = 3
CHECK_DEADLOCK FALSE
INVARIANTS
  HeapsExact
  KernelCovers
  NoLostWakeup
PROPERTIES
  NoGhost
  Served
