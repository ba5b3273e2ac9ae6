SPECIFICATION MCSpec
CONSTANTS
  c1 = c1
  c2 = c2
  r1 = r1
  s1 = s1
  s2 = s2
  o1 = o1
  o2 = o2
  None = None
  Processes <- OneProcess
  Callers = {c1}
  MaxTokens = 2
  MaxPackets = 2
  MaxFaults = 3
  MaxOpens = 3
  Expiring = {}
  Foreign = {}
  AuthTokenRetry = 3
INVARIANTS  LockHolds  
CHECK_DEADLOCK FALSE
