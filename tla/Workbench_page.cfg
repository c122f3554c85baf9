CONSTANTS
  a = a
  b = b
  None = None
  Stocks = {a, b}
  WebStocks = {a}
  Old <- MCOld
  Bare = {1}
  Patience = 1
  MaxActs = 2
  MaxFailures = 2
  MaxSessions = 1
SPECIFICATION PageSpec
CHECK_DEADLOCK FALSE
INVARIANTS
  SettledIsOfRoute
  EvidenceMatchesReport
PROPERTIES
  ChoiceStays
  StreamingEnds
