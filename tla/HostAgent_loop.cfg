SPECIFICATION Spec
CONSTANTS
  None = None
  Pids <- MCPids
  WrapperPids <- MCWrapper
  Checks <- MCChecks
  CheckInterval = 1
  Horizon = 2
  MaxStarts = 3
  MaxCrashes = 1
INVARIANTS
  SnapshotIsEvidence
  RestartsAreReal
  ReplacementIsCounted
