SPECIFICATION Spec
CONSTANTS
  c1 = c1
  c2 = c2
  d1 = d1
  w1 = w1
  w2 = w2
  None = None
  Callers = {c1, c2}
  Inline = {}
  Workers = {w1, w2}
  Procs <- MCProcs
  ProcOf <- MCProcOf
  Keys <- MCKeys
  KeyOf <- MCKeyOf
  CooldownOf <- MCCooldownOf
  DailyKeys <- MCDailyKeys
  SessionIds = {1, 2}
  ReportIds = {r1, r2}
  PoolSize = 2
  MaxFaults = 2
  HeartbeatsKeepUp = TRUE
  QueueServedInTtl = FALSE
INVARIANT OneRunnerPerSession
INVARIANT JobFollowsSession
INVARIANT NoDuplicateQueued
PROPERTY ImplementsContract
