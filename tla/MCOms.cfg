CONSTANTS
  Nodes = {0}
  Modes = {"paper", "rest", "ws"}
  QueueCap = 2
  ResultCap = 4
  WsCap = 6
  AnswersLost = FALSE
  StreamDrops = FALSE
  MayShutDown = FALSE
  MaxShort = 1
  Slots = {0}
  OrderSlots = {0, 1}
  PartialOn = FALSE
  SubmitCap = 2
  BucketCap = 8
  MaxQty = 1
  MaxRequests = 3
SPECIFICATION FairSpec
INVARIANTS
  TableConsistent
  NoLegLost
  InventoryTracked
  BoundToOwnNode
PROPERTIES
  RemainderResubmitted
  OrdersSettle
