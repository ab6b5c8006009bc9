CONSTANTS
  Keys = {k1, k2}
  MaxItems = 3
SPECIFICATION FairSpec
INVARIANTS EachItemOnce NothingStranded
PROPERTIES EveryItemHandled ImplementsLog
CHECK_DEADLOCK FALSE
