\* Two workers of different servers share the file; nothing fails.
CONSTANTS
  p1 = p1
  p2 = p2
  s1 = s1
  s2 = s2
  Processes = {p1, p2}
  Servers = {s1, s2}
  ServerOf <- ServerEach
  Faults = FALSE
  MaxTokens = 4
SPECIFICATION CredentialsSpec
INVARIANTS
  OthersPreserved
CHECK_DEADLOCK FALSE
