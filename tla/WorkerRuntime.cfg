CONSTANTS
  Tasks = {t1}
  Actors = {a1}
  Agents = {a1}
  Workers = {w1}
  Tags = {}
  Sessions = {}
  Statuses = {"NOT_STARTED"}
  EndReports <- MCEndReports
  TaskEdits <- MCTaskEdits
  AgentReports <- MCAgentReports
  None = None
  StaleAfter = 1
  DelayCap = 0
  MaxClaims = 2
  MaxToolCalls = 0
  Slots = {p1, p2}
SPECIFICATION FairSpec
INVARIANTS RuntimeTypeOK HealthyRunKeepsItsRow OneHealthyRunPerTask
PROPERTIES RowsDoNotOutliveRuns
