CONSTANTS
  Clients <- mcClients
  CLOCK_MAX_DELAY = 3
  MaxTicks = 2
  MaxPast = 1
  MaxRequests = 1
  ApuClients <- mcApuClients
  Cores <- mcCores
  MaxBatches = 3
  RxFifo = 3
  EventSlots = 3
  QUEUELENGTH = 3
  ReadBy <- mcBoth
  MaxChars = 4
  MaxUnread = 3
  MaxPolls = 1
SPECIFICATION ServersSpec
INVARIANTS
  DeltasAddUp
  RanOnceWhenAnswered
  EachCharInOnePlace
  InOrderUpToBurst
PROPERTIES
  NoEarlyWake
  DelayReturns
  SlotIsFreeWhenFilled
  BatchEnds
  EveryKeyIsRead
CHECK_DEADLOCK FALSE
