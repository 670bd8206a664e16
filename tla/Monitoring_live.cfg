SPECIFICATION MonSpec
CONSTANTS
  None = None
  Pids <- MCPids
  WrapperPids <- MCNoWrapper
  Checks <- MCChecks
  CheckInterval = 1
  Horizon = 1
  MaxStarts = 1
  MaxCrashes = 1
  MaxStateAge = 0
  Skew = 0
PROPERTIES
  UpIsRecent
  DeadAgentIsNoticed
  DeadServiceIsNoticed
