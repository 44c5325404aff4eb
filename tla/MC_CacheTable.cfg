SPECIFICATION MCSpec
CONSTANTS
  Readers = {r1, r2}
  Writers = {w1, w2, w3, w4}
  Emptiers = {e}
  Exiters = {x}
  Names <- MCNames
  NULL = NULL
  HASH_NUM_BUCKETS = 2
  Idx <- MCIdx
  RHash <- MCRHash
  Lists <- MCLists
  Covers <- MCCovers
INVARIANTS
  Exclusive
  SomeoneAwake
  LookupsRight
PROPERTIES
  WriterGetsChance
  EmptiesSelected
  WalksOverAll
