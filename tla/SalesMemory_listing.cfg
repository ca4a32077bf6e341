SPECIFICATION Spec
CONSTANTS
  c1 = c1
  c2 = c2
  n1 = n1
  n2 = n2
  None = None
  Customers = {c1, c2}
  Names = {n1, n2}
  Ids = {1, 2, 3}
  Dates = {1, 2}
  IndexLimit = 2
  MaxOperations = 4
SYMMETRY Symmetry
INVARIANTS UnreadableFilesAreSkipped
CHECK_DEADLOCK FALSE
