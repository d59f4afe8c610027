SPECIFICATION FlattenSpec
CONSTANTS
  NumNodes = 1
  SlowPath = {p1, p2}
  Start = 1
  Lazy = TRUE
  Threshold = 1
  Delay = 1
  QueueSize = 1
  MaxTime = 3
PROPERTY DeadStreamFlattens
