SPECIFICATION FairSpec
CONSTANTS
  c1 = c1
  c2 = c2
  d1 = d1
  w1 = w1
  w2 = w2
  None = None
  Callers = {d1}
  Inline = {d1}
  Workers = {w1}
  Procs <- MCProcs
  ProcOf <- MCProcOf
  Keys <- MCKeys
  KeyOf <- MCKeyOf
  CooldownOf <- MCCooldownOf
  DailyKeys <- MCDailyKeys
  SessionIds = {1}
  ReportIds = {r1, r2, r3}
  PoolSize = 2
  MaxFaults = 2
  HeartbeatsKeepUp = FALSE
  QueueServedInTtl = FALSE
INVARIANT CompletedHasReport
INVARIANT StampedHasReport
PROPERTY EverySessionEnds
