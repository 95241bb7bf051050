SPECIFICATION DaemonSpec
CONSTANTS
  Daemons = {1, 2}
  CmdLines <- MCCmdLines
  MaxInFlight = 2
INVARIANTS
  OneDaemon
  InUseIsThere
  NoMoreThanAllowed
PROPERTIES
  SignalEnds
CHECK_DEADLOCK FALSE
