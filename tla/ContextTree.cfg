\* Two requests on three blocks: two moves that pass each other cross, and a
\* third block is moved below the cycle they leave.
CONSTANTS
  Blocks = {b1, b2, b3}
  ThreadBlocks = {b3}
  Requests = {q1, q2}
  Root = Root
  Unborn = Unborn
  Gone = Gone
SPECIFICATION WalksSpec
INVARIANTS
  TreeTypeOK
  ForestUnlessOvertaken
  EveryBlockIsShown
  ReferencesHold
  WalksAreShort
PROPERTIES
  WalksEnd
CHECK_DEADLOCK FALSE
