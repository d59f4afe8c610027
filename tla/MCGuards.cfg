SPECIFICATION GuardsSpec
CONSTANTS
  NumNodes = 1
  SlowPath = {p1, p2}
  Source = {s1}
  Start = 8
  Lazy = TRUE
  Live = FALSE
  Alloc = 4
  MaxDrawdown = 20
  MinKillLoss = 2
  MinBalance = 0
  Results <- MCResults
  Marks <- MCMarks
  PnlRange <- MCPnl
  Threshold = 1
  Delay = 1
  QueueSize = 1
  MaxTime = 3
  EventsPerDrain = 1
  TailPasses = 1
  MaxEvents = 3
CHECK_DEADLOCK FALSE
INVARIANTS KillHolds LatchOverKill LatchOwned SourcesFlushed NothingStranded
PROPERTIES KillArrives WindowEnds FlattenReaches ShutdownEnds
