CONSTANTS
  Workers = {w1, w2}
  None = None
  NumSteps = 2
  BatchSize = 2
  MaxInflight = 2
  AbortLimit = 2
  Codes <- MCCodes
  AcceptedRatioBelow = 50
  ErrorRateAbove = 100
  LatencyRule = FALSE
  RefuseCodes <- MCRefuseCodes
  MaxRows = 6
SPECIFICATION Spec
SYMMETRY WorkerSymmetry
INVARIANTS
  TypeOK
  EachRowOnce
  NoHoles
  ManifestExactOnceJoined
  RangeCoversOffers
  StepsWithinTotals
  BooksBalance
  AbortJustified
  NoSentinelLost
PROPERTIES
  FinishedStepIsFinal
  KeepsLedger
