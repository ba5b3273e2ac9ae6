SPECIFICATION MCSpec
CONSTANTS
  p1 = p1
  p2 = p2
  Procs = {p1}
  Me = me
  Contacts = {me, alice}
  Keyserver = keyserver
  Commands <- AllCommands
  MaxLen = 4
  MaxRewrites = 0
  MaxFaults = 1
  NoId = noid
  MaxKeys = 3
INVARIANTS LocalCopySound Lockstep NymUsable
PROPERTIES LatestFound 
CHECK_DEADLOCK FALSE
