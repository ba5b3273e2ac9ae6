CONSTANTS
  Nil = Nil
  NumOfKeys = 50
  MaxNumOfKeys = 301
  MaxCount = 999
SPECIFICATION WindowSpec
INVARIANT MessagesInOrderOpen
