\* Three lookups of one key whose fetch fails.
SPECIFICATION FairSpec
CONSTANTS
  l1 = l1
  l2 = l2
  l3 = l3
  l4 = l4
  k1 = k1
  k2 = k2
  None = None
  Lookups = {l1, l2, l3}
  Kids = {k1}
  Ttl = 2
  NegativeTtl = 1
  Prompt = TRUE
  MaxTime = 1
PROPERTIES
  OneFetchPerKid
CHECK_DEADLOCK FALSE
