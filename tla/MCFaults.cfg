SPECIFICATION FaultsSpec
CONSTANTS
  NumNodes = 1
  Start = 8
  Lazy = FALSE
  RingSize = 1
  Lot = 2
  Results <- MCResults
  LegRefused = TRUE
  MaxTrades = 2
  ZooNodes = 2
  Dir = {d1, d2}
  Calibrating = TRUE
  MaxZoos = 3
  MaxRewards = 1
CHECK_DEADLOCK FALSE
INVARIANTS NotionalTelescopes BooksBalance EmitLockstep PaperPairsAgree OneWriterPerDir NothingForgotten
PROPERTIES ImplementsAccount CarriesOver
