SPECIFICATION DiagSpec
CONSTANTS
  Callers = {"c1", "c2"}
  RDC_MAX_NUM_DEVICES = 2
  Gpus <- MCGpus
  Machines <- MCMachines
  Requests <- MCRequests
INVARIANTS
  TestsRight
  ResponseTruthful
  AnswersSet
PROPERTY DiagEnds
CHECK_DEADLOCK FALSE
