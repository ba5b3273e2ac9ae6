SPECIFICATION ProcessSpec
CONSTANTS
  Nobody = Nobody
  r1 = r1
  c1 = c1
  None = None
  Starts = {r1, r2}
  Users = {u1}
  LowWaterMark = 1
  HighWaterMark = 1
  MaxSpends = 1
  MaxSignals = 2
INVARIANTS RunnerInv
PROPERTIES   ProcessEnds
CHECK_DEADLOCK FALSE
