\* Two agents and a user race for the thread of one task while one request
\* saves it.
CONSTANTS
  AgentCalls = {c1, c2}
  UserCalls = {u1}
  Others = {}
  Parent = Parent
  ByHand = {Parent}
  Saved = {c1, c2, u1}
  Requests = {r1}
  None = None
SPECIFICATION ThreadsSpec

PROPERTIES
  RecoversByAttaching
CHECK_DEADLOCK FALSE
