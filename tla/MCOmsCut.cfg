CONSTANTS
  Nodes = {0}
  Modes = {"ws"}
  QueueCap = 2
  ResultCap = 3
  WsCap = 4
  AnswersLost = FALSE
  StreamDrops = TRUE
  MayShutDown = FALSE
  MaxShort = 1
  Slots = {0}
  OrderSlots = {0, 1}
  PartialOn = FALSE
  SubmitCap = 2
  BucketCap = 8
  MaxQty = 2
  MaxRequests = 2
SPECIFICATION Spec
PROPERTIES
  ToldWithoutStream
