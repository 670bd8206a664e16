CONSTANTS
  None = None
  Runs <- MCRuns
  Drill = 2
  Fates <- MCFates
  DetectProbes = 2
  RecoverProbes = 3
  HelpAt = 2
SPECIFICATION Spec
INVARIANTS
  HeadlineIsBounded
  BestIsEarned
  SurvivalIsEarned
  OutageCoversDowntime
