CONSTANTS
  Clients <- mcClients
  CLOCK_MAX_DELAY = 3
  MaxTicks = 2
  MaxPast = 1
  MaxRequests = 1
SPECIFICATION ClockSpec
PROPERTY WakesOnTime
