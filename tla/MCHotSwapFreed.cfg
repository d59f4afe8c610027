CONSTANTS
  ZooNodes = 1
  Dir = {d1}
  Calibrating = FALSE
  MaxZoos = 2
  MaxRewards = 1
SPECIFICATION SwapSpec
CHECK_DEADLOCK FALSE
INVARIANTS SoleReader
