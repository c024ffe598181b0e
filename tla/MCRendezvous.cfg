CONSTANTS
  NUMPROCS = 4
  QUEUESIZE = 5
  Priorities <- mcPriorities
  Boot <- mcBoot
  Idle = 3
  Servers <- mcServers
  ClockEvents <- mcNone
  UartEvents <- mcNone
  ApuEvents <- mcApu
  OffEvents <- mcNone
  MaxBurst = 0
  MaxPending = 1
SPECIFICATION FairRSpec
INVARIANTS
  MessagesConserved
PROPERTIES
  NoOvertaking
  SendIsAnswered
