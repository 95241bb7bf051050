SPECIFICATION ReadySpec
CONSTANTS
  GPUs = {0, 1}
  Fields = {"power"}
  NotifFields = {}
  Bdf <- MCBdf
  StopMayFail = FALSE
  JobFields = {"power"}
  FieldSets = {}
  RDC_MAX_NUM_GROUPS = 2
  RDC_MAX_NUM_FIELD_GROUPS = 1
  RDC_GROUP_MAX_ENTITIES = 1
  MaxGroupId = 2
  MaxFieldGroupId = 0
  TicksPerSecond = 2
  INT_MAX = 7
  Supported = {"power"}
  CounterFields = {}
  WatchRequests = {}
  UsecPerTick = 1000
  StartTime = 4
  MaxClock = 4
  MaxLag = 0
  MaxFetch = 0
  MaxSamples = 1
  ChangeWatchedGroups = TRUE
  Clients = {1, 2}
  Jobs = {1, 2}
  JobsOf <- OwnJobs
  GroupsOf <- OwnGroups
  JobFreq = 500
  RemoveAll = {2}
INVARIANTS
  RunningJobHasStats
  RunningJobWatched
  RemovedJobHasNoStats
PROPERTIES
  EveryRunningJobSampled
CHECK_DEADLOCK FALSE
