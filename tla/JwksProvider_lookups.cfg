\* Three lookups of two keys, promptly woken, with fairness and without symmetry.
SPECIFICATION FairSpec
CONSTANTS
  l1 = l1
  l2 = l2
  l3 = l3
  l4 = l4
  k1 = k1
  k2 = k2
  None = None
  Lookups = {l1, l2, l3}
  Kids = {k1, k2}
  Ttl = 2
  NegativeTtl = 1
  Prompt = TRUE
  MaxTime = 2
INVARIANTS
  TypeOK
  NegativeEntriesAreCurrent
PROPERTIES
  ServedKeysWereCurrent
  RefreshIsShared
  RefusalsAreRecent
  EveryLookupEnds
CHECK_DEADLOCK FALSE
