SPECIFICATION Spec
CONSTANTS
  GPUs = {0}
  Fields = {"clk", "vmfault", "reset"}
  NotifFields = {"vmfault", "reset"}
  Bdf <- MCBdf
  StopMayFail = FALSE
  JobFields = {"clk"}
  FieldSets <- MCFieldSets
  RDC_MAX_NUM_GROUPS = 1
  RDC_MAX_NUM_FIELD_GROUPS = 3
  RDC_GROUP_MAX_ENTITIES = 1
  MaxGroupId = 1
  MaxFieldGroupId = 2
  TicksPerSecond = 2
  INT_MAX = 7
  Supported = {"clk"}
  CounterFields = {}
  WatchRequests <- MCRequests
  UsecPerTick = 1000
  StartTime = 4
  MaxClock = 4
  MaxLag = 0
  MaxFetch = 0
  MaxSamples = 1
  ChangeWatchedGroups = FALSE
INVARIANTS
  FieldsDeducible
  NoStrayListening
PROPERTIES
  NewGroupUnwatched
CHECK_DEADLOCK FALSE
