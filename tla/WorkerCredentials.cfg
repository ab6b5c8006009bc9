\* Two workers of one server share the file.
CONSTANTS
  p1 = p1
  p2 = p2
  s1 = s1
  s2 = s2
  Processes = {p1, p2}
  Servers = {s1}
  ServerOf <- SameServer
  Faults = TRUE
  MaxTokens = 2
SPECIFICATION FairCredentialsSpec
INVARIANTS
  NobodyWaitsInVain
  StoredTokenLive
PROPERTIES
  MemoryHeals
  CallsEnd
CHECK_DEADLOCK FALSE
