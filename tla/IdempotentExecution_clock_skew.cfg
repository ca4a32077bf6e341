SPECIFICATION Spec
CONSTANTS
  c1 = c1
  c2 = c2
  s1 = s1
  f1 = f1
  f2 = f2
  f3 = f3
  None = None
  Calls = {c1, c2}
  Faulty = {c1}
  Scopes = {s1}
  Fingerprints = {f1}
  FingerprintVersion <- MCOneVersion
  Skews = {0, 2}
  Lease = 1
  ReplayTtl = 1
  FailureTtl = 1
  PruneMargin = 1
  MaxTime = 3
PROPERTIES
  InstanceClocksDoNotDecide
CHECK_DEADLOCK FALSE
