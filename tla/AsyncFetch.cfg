SPECIFICATION FairAsyncSpec
CONSTANTS
  GpuIndexes = {0}
  cache_ttl = 3
  MaxReadTicks = 2
  MaxTasks = 3
  MaxClock = 8
PROPERTIES
  AnswerIsRecent
  ReadingsSpaced
  TaskServed
  DestructorReturns
CHECK_DEADLOCK FALSE
