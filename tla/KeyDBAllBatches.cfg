CONSTANTS
  Nil = Nil
  SessionKeys = {s1, s2}
  NumOfKeys = 1
  MaxNumOfKeys = 6
  MaxBatches = 2
  MaxInserts = 2
SPECIFICATION Spec
INVARIANT AllBatchesFound
