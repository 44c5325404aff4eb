CONSTANTS
  Names = {n1, n2}
  Queries = {q1, q2}
  MU = {1, 2}
  EXT = {3}
  Excludes <- MCExcludes
  Answers <- MCAnswers
  Extras <- MCExtras
  Locals <- MCLocals
  PermCache = 4
  MCSZ = 4
  CACHE_LAT = 1
  MinTtl = 0
  NegTtl = 1
  MaxTtl = 2
  Start = 4
  MaxTime = 6
  MaxAnswers = 3
  MaxCommands = 1
SYMMETRY Symmetry
SPECIFICATION Spec
CHECK_DEADLOCK FALSE
PROPERTIES LocalNegationStays
