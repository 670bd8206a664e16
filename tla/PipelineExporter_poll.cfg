SPECIFICATION Spec
CONSTANTS
  None = None
  Modes <- MCModes
  Split = TRUE
  MaxStateAge = 1
  Skew = 0
  Interval = 2
  Formats <- MCTiers
  Cycles <- MCCycles
  BadBodies = TRUE
  Horizon = 2
INVARIANTS
  SampleIsComplete
  FailedMinorReadsDown
  MajorIsOwned
PROPERTIES
  StaleValueIsFlagged
