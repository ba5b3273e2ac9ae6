SPECIFICATION CommandsSpec
CONSTANTS
  Lengths <- MCLengths
  Cap = 2
  BufSize = 2
  Senders = {a}
  Foreign = foreign
  Unreadable = unreadable
  MaxMsgs = 2
  Ids = {a}
  NoId = noid
  MaxKeys = 2
  MaxFaults = 2
INVARIANTS WholeMessages
PROPERTIES PipeReturns  UIDReturns
CHECK_DEADLOCK FALSE
