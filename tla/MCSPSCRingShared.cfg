CONSTANTS
  a = a
  b = b
  drainer = drainer
  slowPath = slowPath
  NoItem = NoItem
  N = 2
  Items <- MCItems
  Producers <- TwoOwners
  MaxPushes = 2
SPECIFICATION RingFairSpec
PROPERTIES
  ImplementsFifo
