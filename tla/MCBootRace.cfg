CONSTANTS
  NS_MAX_NAMES = 32
  MaxInterrupts = 4
SPECIFICATION BootSpec
INVARIANT NotifierIsKnown
CHECK_DEADLOCK FALSE
