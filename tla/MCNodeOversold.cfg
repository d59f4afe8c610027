CONSTANTS
  EntryFires <- Either
  ExitFires <- Either
  Nodes = {0}
  Modes = {"ws"}
  QueueCap = 2
  ResultCap = 3
  WsCap = 4
  AnswersLost = FALSE
  StreamDrops = FALSE
  MayShutDown = FALSE
  MaxShort = 0
  Slots = {0}
  OrderSlots = {0, 1}
  PartialOn = FALSE
  SubmitCap = 2
  BucketCap = 8
  MaxQty = 1
  MaxRequests = 2
  Legs = {0}
  RingCap = 2
  ManualCloses = TRUE
  SlowExits = FALSE
SPECIFICATION TSpec
INVARIANTS
  NeverOversold
