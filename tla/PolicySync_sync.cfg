SPECIFICATION Spec
CONSTANTS
  None = None
  Docs = {1, 2, 3}
  Providers = {1, 2}
  DocOf <- MCDocOf
  Rows = {1, 2, 3, 4}
  Syncs = {s1, s2}
  Projectors = {p1, p2}
  MaxFaults = 1
CHECK_DEADLOCK FALSE
SYMMETRY Symmetry
INVARIANTS
  StoresAgree
  NobodyWaitsForTheDead
