CONSTANTS
  EntryFires <- Either
  ExitFires <- Either
  Nodes = {0}
  Modes = {"paper"}
  QueueCap = 2
  ResultCap = 4
  WsCap = 4
  AnswersLost = FALSE
  StreamDrops = FALSE
  MayShutDown = FALSE
  MaxShort = 0
  Slots = {0, 1}
  OrderSlots = {0, 1, 2, 3}
  PartialOn = TRUE
  SubmitCap = 2
  BucketCap = 8
  MaxQty = 1
  MaxRequests = 3
  Legs = {0, 1}
  RingCap = 3
  ManualCloses = FALSE
  SlowExits = FALSE
  Opening = 1000
  GatePrice = 20
  Prices = {20, 40}
  FeeShare = 20
  Discount = 1
  Tolerance = 0
  AlertCap = 1
  MaxUnits = 2
  MaxUnderWay = 1
  MaxPlaced = 2
  MaxCuts = 1
SPECIFICATION NodeSpec
INVARIANTS
  PaperFillNeverDropped
  HeldStaysWatched
  NothingInvented
  CashAccounted
  AuditExact
