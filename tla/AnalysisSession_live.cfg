SPECIFICATION FairSpec
CONSTANTS
  c1 = c1
  c2 = c2
  d1 = d1
  w1 = w1
  w2 = w2
  None = None
  Callers = {c1, c2, d1}
  Inline = {d1}
  Workers = {w1}
  Procs <- MCProcs
  ProcOf <- MCProcOf
  Keys <- MCKeys
  KeyOf <- MCKeyOf
  CooldownOf <- MCCooldownOf
  DailyKeys <- MCDailyKeys
  SessionIds = {1, 2, 3}
  ReportIds = {r1}
  PoolSize = 1
  MaxFaults = 0
  HeartbeatsKeepUp = TRUE
  QueueServedInTtl = TRUE
PROPERTY EveryCallReturns
