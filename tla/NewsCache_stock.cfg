CONSTANTS
  r1 = r1
  r2 = r2
  all = all
  None = None
  Requests <- MCRequests
  Keys <- MCOneKey
  Topical = FALSE
  RaisesWhenEmpty = FALSE
  Worker = TRUE
  Window = 0
  LegacyWindow = 0
  RedisReliable = FALSE
  MaxClock = 2
  MaxBatches = 3
  MaxFaults = 1
SPECIFICATION Spec
INVARIANTS
  OnlyCompletedShown
  VersionIsCommitted
PROPERTIES
  VersionNeverRegresses
