CONSTANTS
  c1 = c1
  c2 = c2
  c3 = c3
  k1 = k1
  k2 = k2
  o1 = o1
  o2 = o2
  o3 = o3
  None = None
  Clients <- MCClients
  Keys <- MCKeys
  Locks <- MCLocks
SPECIFICATION FairSpec
INVARIANTS
  NoIdleLock
PROPERTIES
  ImplementsQueue
  EveryoneEnters
