CONSTANTS
  Tasks = {t1}
  Actors = {a1}
  Agents = {a1}
  Workers = {w1, w2}
  Tags = {}
  Sessions = {s1}
  Statuses = {"NOT_STARTED", "DONE"}
  EndReports <- MCEndReports
  None = None
  StaleAfter = 1
  DelayCap = 0
  MaxClaims = 2
  MaxToolCalls = 1
SPECIFICATION FairSpec
INVARIANTS TypeOK StatsFollowRun OneRunPerTask EndsOnce
PROPERTIES HistoryIsAuditTrail ImplementsLedger StaleGetsFixed TelemetryKept
