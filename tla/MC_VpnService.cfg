CONSTANTS
  Profiles = {"home", "work"}
  UdpDns = {TRUE, FALSE}
  Auth = {TRUE, FALSE}
  MaxStarts = 2
  MaxRevokes = 1
  MaxPosts = 1
  Overlap = TRUE
SPECIFICATION FairSpec
CHECK_DEADLOCK FALSE
INVARIANTS SessionsWhole ContextResetAlone
PROPERTIES Settles
