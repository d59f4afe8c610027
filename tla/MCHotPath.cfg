SPECIFICATION HotPathSpec
CONSTANTS
  gate = gate
  sizing = sizing
  Words <- MCWords
  MaxWrites = 4
  a = a
  b = b
  hot = hot
  NoItem = NoItem
  N = 2
  Items <- MCItems
  Producers <- OneOwner
  MaxPushes = 5
  Legs = {0, 1}
  RingCap = 3
  EntryFires <- Either
  ExitFires <- Either
  Half = 16
  Bits = 10
  Pow2 <- MCPow2
  Scale = 6
  Magic = 342
  Drop = 2
  Binaries <- MCBinaries
INVARIANTS CacheNotAhead NoSlotRace FlagFollowsEvents MoneyExact BinaryExact SeamRoundTrips
PROPERTIES ReadReturns ImplementsCell EverythingPopped ImplementsFifo EventsAlternate ExitRetried
