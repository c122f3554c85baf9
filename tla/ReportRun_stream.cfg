CONSTANTS
  Viewers = {v1}
  Feeds <- MCFeeds
  Stock = 1
  PoolLimit = 3
  Quota <- MCQuota
  Limit = 2
  Roles = 1
  MaxChunks = 2
  MaxFaults = 2
SPECIFICATION Spec
CHECK_DEADLOCK FALSE
INVARIANTS
  SelectionIsSound
  ReadyIsWhole
  NoStrayThread
  ToldIsTrue
PROPERTIES
  ViewersEnd
  ImplementsContract
