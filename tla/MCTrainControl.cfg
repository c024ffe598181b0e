CONSTANTS
  track <- mcTrack
  MODULES = 2
  SENS_PER_M = 2
  Speeds <- mcSpeeds
  DEFAULT_SPEED = 8
  MaxCommands = 2
  MaxPerPoll = 1
  MaxCoast = 1
SPECIFICATION CFairSpec
INVARIANTS
  SpeedIsKnown
  SwitchesLeadToDest
PROPERTIES
  GotoIsShortest
  SensorIsNoticed
  RoutedTrainStops
