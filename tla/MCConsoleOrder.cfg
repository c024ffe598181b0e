CONSTANTS
  RxFifo = 3
  EventSlots = 3
  QUEUELENGTH = 3
  ReadBy <- mcGetc
  MaxChars = 4
  MaxUnread = 3
  MaxPolls = 2
SPECIFICATION CSpec
INVARIANT KeysInOrder
CHECK_DEADLOCK FALSE
