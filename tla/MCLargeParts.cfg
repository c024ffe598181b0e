CONSTANTS
  TopicNames <- mcTopics
  Observers <- mcObservers
  EVENTBUS_MAX_TOPICS = 2
  EVENTBUS_MAX_OBS = 2
  SUBJECT_MAX_OBS = 3
  MaxBusCalls = 3
  NS_MAX_NAMES = 32
  MaxInterrupts = 4
SPECIFICATION LargeSpec
INVARIANT BetterAreRegistered
PROPERTIES
  ObserversAreServed
  TourIsPredicted
CHECK_DEADLOCK FALSE
