CONSTANTS
  Workers = {w1, w2}
  None = None
  NumSteps = 1
  BatchSize = 2
  MaxInflight = 2
  AbortLimit = 2
  Codes <- MCCodes
  AcceptedRatioBelow = 50
  ErrorRateAbove = 100
  LatencyRule = FALSE
  RefuseCodes <- MCRefuseCodes
  MaxRows = 2
SPECIFICATION Spec
SYMMETRY WorkerSymmetry
INVARIANT
  DrainedStepIsReal
