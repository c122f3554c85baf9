CONSTANTS
  r1 = r1
  r2 = r2
  r3 = r3
  short = short
  long = long
  adj = adj
  cal = cal
  None = None
  Requests <- MCRequests3
  Keys <- MCAllKeys
  KindOf <- MCKindOf
  SeriesOf <- MCSeriesOf
  Need <- MCNeed
  MaxRows = 2
  PoolSize = 2
  MaxFaults = 1
SPECIFICATION Spec
INVARIANTS
  OneFetchAtATime
  CacheIsBacked
  AnswerKeepsStored
  KlineFetchedOnce
  RequestsGoOn
SYMMETRY MCSymmetry
