SPECIFICATION RdciSpec
CONSTANTS
  GPUs = {0, 1}
  Fields = {1, 7}
  NotifFields = {7}
  Bdf <- MCBdf
  JobFields = {1}
  FieldSets = {}
  RDC_MAX_NUM_GROUPS = 2
  RDC_MAX_NUM_FIELD_GROUPS = 3
  RDC_GROUP_MAX_ENTITIES = 2
  MaxGroupId = 4
  MaxFieldGroupId = 4
  Users = {1, 2}
  Commands <- MCCommands
  MaxCommands <- MCMaxCommands
INVARIANTS
  DmonLeavesNothing
  NothingStaysWatched
  OptionsConsistent
PROPERTIES
  InterruptEndsRegular
CHECK_DEADLOCK FALSE
