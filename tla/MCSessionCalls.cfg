CONSTANTS
  A = A
  B = B
  Nil = Nil
  NumOfKeys = 4
  MaxNumOfKeys = 8
  MaxMessages <- ThreeTwo
  Cuts = 1
SPECIFICATION CallSpec
CHECK_DEADLOCK FALSE
INVARIANTS MessageKeysUsedOnce
PROPERTIES CallsImplementSession OnlyStatelessRejected
