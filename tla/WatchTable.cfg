SPECIFICATION ReadySpec
CONSTANTS
  GPUs = {0}
  Fields = {"xgmi"}
  NotifFields = {}
  Bdf <- MCBdf
  StopMayFail = FALSE
  JobFields = {"xgmi"}
  FieldSets = {}
  RDC_MAX_NUM_GROUPS = 2
  RDC_MAX_NUM_FIELD_GROUPS = 2
  RDC_GROUP_MAX_ENTITIES = 1
  MaxGroupId = 2
  MaxFieldGroupId = 0
  TicksPerSecond = 2
  INT_MAX = 7
  Supported = {"xgmi"}
  CounterFields = {"xgmi"}
  WatchRequests <- MCRequests
  UsecPerTick = 1000
  StartTime = 4
  MaxClock = 8
  MaxLag = 1
  MaxFetch = 1
  MaxSamples = 2
  ChangeWatchedGroups = TRUE
INVARIANTS
  NoOrphanSamples
  HandlesWatched
  WatchHonoured
PROPERTIES
  RetentionHonoured
CHECK_DEADLOCK FALSE
