CONSTANTS
  None = None
  Outcomes <- MCOutcomes
  TargetRates <- MCTargetRates
  Series <- MCSeries
  HostCases <- MCHostCases
  Circumstances <- MCCircumstances
  MaxRepairs = 1
SPECIFICATION Spec
INVARIANTS
  TrendIsReal
  ConstraintFollowsTrend
  SustainableIsPrefix
  SummaryFollowsLevels
