CONSTANTS
  t1 = t1
  t2 = t2
  a1 = a1
  g1 = g1
  Tasks = {t1, t2}
  Actors = {a1}
  Agents = {a1}
  Workers = {w1}
  Tags = {g1}
  Sessions = {}
  Statuses = {"NOT_STARTED", "DONE"}
  EndReports <- QuotaReports
  None = None
  StaleAfter = 1
  DelayCap = 1
  MaxClaims = 1
  MaxToolCalls = 0
  EventSlots = {e1}
  Sweeps = {sweep}
  AgentConfigs <- OneIfTagged
  DependsOn <- SecondNeedsFirst
  MaxRequests = 0
  CancelDelay = 1
  QuotaDelay = 1
  MaxQuotaDelay = 1
  MaxAborts = 0
SPECIFICATION BoundedSpec
INVARIANTS QuietSweepExact
PROPERTIES QuietCallExact
