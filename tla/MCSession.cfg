CONSTANTS
  A = A
  B = B
  Nil = Nil
  NumOfKeys = 1
  MaxNumOfKeys = 1
  MaxMessages <- ThreeThree
SPECIFICATION Spec
CHECK_DEADLOCK FALSE
INVARIANTS GenuineMessagesOpen NoReplay QuiescentAgreement ConversationInv
PROPERTIES RefreshDeletesOldKey
