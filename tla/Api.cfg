SPECIFICATION ApiSpec
CONSTANTS
  Junk = Junk
  GPUs = {0, 1}
  Fields = {"clk"}
  NotifFields = {}
  Bdf <- MCBdf
  JobFields = {"clk"}
  FieldSets = {}
  RDC_MAX_NUM_GROUPS = 2
  RDC_MAX_NUM_FIELD_GROUPS = 2
  RDC_GROUP_MAX_ENTITIES = 2
  MaxGroupId = 4
  MaxFieldGroupId = 4
  SmiMayFail = FALSE
  RDC_MAX_FIELD_IDS_PER_FIELD_GROUP = 1
  Values <- MCValues
  Usage <- MCUsage
  Diagnoses <- MCDiagnoses
  Clients = {1, 2}
  Calls <- MCCalls
  RDC_MAX_NUM_DEVICES = 2
  MAX_TEST_CASES = 2
  MaxCalls <- MCMaxCalls
  MaxRestarts = 1
  MaxUpdates = 3
INVARIANTS
  RemoteAnswer
  GroupsAccountedFor
PROPERTIES
  CallReturns
CHECK_DEADLOCK FALSE
