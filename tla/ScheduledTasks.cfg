CONSTANTS
  s1 = s1
  b1 = b1
  Schedules = {s1}
  Blueprints = {b1}
  BlueprintOf <- OneBlueprint
  Crons <- EveryMinute
  NextRun <- MCNextRun
  Horizon = 4
  Scans = {j1, j2}
  None = None
  MaxTime = 2
  MaxUpdates = 1
  MaxFailures = 1
  MaxCrashes = 1
SPECIFICATION FairSpec
INVARIANTS ClaimExclusive NoUnexplainedDuplicate
PROPERTIES RollbackUndoesOwnClaim DueScheduleRuns
CHECK_DEADLOCK FALSE
