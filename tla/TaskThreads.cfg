\* Two agents and a user race for the thread of one task, while a request saves
\* it and the task is attached by hand; it is in a thread of another task too.
CONSTANTS
  AgentCalls = {c1, c2}
  UserCalls = {u1}
  Others = {o1}
  Parent = Parent
  ByHand = {Parent}
  Saved = {c1, c2, u1}
  Requests = {r1}
  None = None
SPECIFICATION ThreadsSpec
SYMMETRY Symmetric
INVARIANTS
  ThreadsTypeOK
  BlockIffThread
  TasksStayInThread
  OneThreadPerParent
CHECK_DEADLOCK FALSE
