CONSTANTS
  NUMPROCS = 3
  QUEUESIZE = 2
  Priorities <- mcPriorities
  Boot <- mcBoot
  Idle = 2
  ClockEvents <- mcClock
  UartEvents <- mcUart
  ApuEvents <- mcNone
  OffEvents <- mcOff
  MaxBurst = 1
  MaxPending = 2
SPECIFICATION Spec
INVARIANTS
  TypeOK
  SlotPartition
  BlockedForOneReason
  NoSleepOnQueuedEvent
PROPERTY ImplementsLifecycle
