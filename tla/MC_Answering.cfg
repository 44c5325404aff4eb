SPECIFICATION Spec
CONSTANTS
  Workers = {w1, w2}
  proc_limit = 1
  procq_limit = 1
  MaxQueries = 3
  UDP_BUFSIZE = 85
  udpbufsize = 100
  FarthestPointer = 120
  MAX_HOPS = 2
  Requests <- MCRequests
  Outcomes <- MCOutcomes
  CacheEntries <- MCCacheEntries
  Faults = {"memory", "client"}
CHECK_DEADLOCK FALSE
INVARIANTS
  CountersExact
  LastServerExits
  MessageSound
  AuthoritativeIsLocal
PROPERTIES
  QueueDrains
