SPECIFICATION MCSpec
CONSTANTS
  Nil = Nil
  NumOfKeys = 50
  MaxNumOfKeys = 301
  MaxCount = 999
  s1 = s1
  s2 = s2
INVARIANTS  TablesAgree SameSize
CHECK_DEADLOCK FALSE
