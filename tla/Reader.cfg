SPECIFICATION FairReaderSpec
CONSTANTS
  TicksPerSecond = 2
  INT_MAX = 15
  MinGap = 1
  Keep = 3
  Age = 1
  MaxTime = 7
INVARIANTS
  NothingSkipped
PROPERTIES
  ReaderFinishes
  FeedImplemented
CHECK_DEADLOCK FALSE
