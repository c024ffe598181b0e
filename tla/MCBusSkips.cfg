CONSTANTS
  TopicNames <- mcTopics
  Observers <- mcObservers
  EVENTBUS_MAX_OBS = 1
  EVENTBUS_MAX_TOPICS = 2
  SUBJECT_MAX_OBS = 2
  MaxBusCalls = 3
SPECIFICATION BusSpec
PROPERTY EveryObserverIsInvoked
CHECK_DEADLOCK FALSE
