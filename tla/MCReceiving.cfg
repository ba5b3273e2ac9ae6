SPECIFICATION ReceivingSpec
CONSTANTS
  Senders = {a}
  Foreign = foreign
  Unreadable = unreadable
  MaxMsgs = 3
  MaxFaults = 1
INVARIANTS FetchedOnce 
PROPERTIES BlockedOnly
CHECK_DEADLOCK FALSE
