CONSTANTS
  Clients <- mcClients
  LINK_REPLY_MAX = 2
  LINK_TIMEOUT_TICKS = 1
  LINK_CMD_MAX = 18
  DISKFS_CHUNK = 2
  PathLen = 2
  Calls <- mcCalls
  Text <- mcText
  BufMax = 4
  FirstDisk <- mcFirstDisk
  MaxCalls = 2
  DiskMayFail = TRUE
SPECIFICATION DSpec
INVARIANTS
  CallsTellTheTruth
PROPERTIES
  LinkSendReturns
  AnswerIsOwn
CHECK_DEADLOCK FALSE
