CONSTANTS
  p1 = p1
  p2 = p2
  p3 = p3
  p4 = p4
  Pids <- mcPids
  Priorities <- mcPriorities
  LoRange = 8
  MaxNow = 3
  Players <- mcPlayers
  RPS_MAX_PLAYERS = 3
  MaxCalls = 6
  PMM_POOL_PAGES = 6
  BRK_REGION_PAGES = 2
  PAGE_SIZE = 2
  Lengths <- mcLengths
  MaxMappings = 3
  RAMFS_MAX_ENTRIES = 3
  RAMFS_FILE_CAP = 4
  Paths <- mcPaths
  Stored <- mcStored
  ParentDir <- mcParentDir
  FileBytes <- mcFileBytes
  FileTexts <- mcFileTexts
  ConsoleTasks <- mcPids
  NotifierTid = 1
  MAX_CONSOLE_OBSERVERS = 2
  CONSOLE_LOG_SIZE = 2
  MaxConsoleChars = 3
  MaxObserverCalls = 3
  Rows = 3
  Cols = 3
  BodyTop = 1
  BodyBottom = 2
  Glyphs <- mcGlyphs
  Texts <- mcWrites
  Trees <- mcTrees
  THIST_LINES = 2
  SBUF_DIFF_QCAP = 3
  MaxDisplayCalls = 5
SPECIFICATION PartsSpec
INVARIANTS
  NobodyIsForgotten
  FramesAreAccountedFor
  ReadsAsItWasLeft
  ObserversHearAll
  TerminalShowsCells
PROPERTIES
  BestThenOldestFirst
  RoundsAreFair
SYMMETRY mcSymmetry
CHECK_DEADLOCK FALSE
