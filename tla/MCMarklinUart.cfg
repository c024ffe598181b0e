CONSTANTS
  NS_MAX_NAMES = 3
  Clients <- mcClients
  MaxCalls = 4
  MaxRx = 2
SPECIFICATION MFairSpec
INVARIANTS
  BytesInOrder
  CtsWaiterIsWoken
PROPERTIES
  NoOverrun
  PutcFinishes
CHECK_DEADLOCK FALSE
