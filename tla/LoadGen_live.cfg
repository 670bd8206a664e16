CONSTANTS
  Workers = {w1}
  None = None
  NumSteps = 2
  BatchSize = 1
  MaxInflight = 1
  AbortLimit = 2
  Codes <- MCCodes
  AcceptedRatioBelow = 50
  ErrorRateAbove = 100
  LatencyRule = TRUE
  RefuseCodes <- MCRefuseCodes
  MaxRows = 3
SPECIFICATION Spec
PROPERTIES
  RunEnds
