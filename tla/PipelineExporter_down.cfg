SPECIFICATION Spec
CONSTANTS
  None = None
  Modes <- MCSsh
  Split = TRUE
  MaxStateAge = 1
  Skew = 0
  Interval = 2
  Formats <- MCTiers
  Cycles <- MCCycles
  BadBodies = FALSE
  Horizon = 2
INVARIANT FailedScrapeReadsDown
