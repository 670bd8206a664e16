SPECIFICATION Spec
CONSTANTS
  None = None
  Callers <- MCCallers
  TTL = 4
  Refresh = 3
  Res = 1
  MaxStall = 1
  Workers = 2
  Variants = 2
  Batch = 2
  CustomerCounts = {4, 5}
  Polite = TRUE
  MaxBatches = 2
INVARIANTS
  PromptRequestsAreFresh
  TokensAreSpaced
  EachCountOnce
  PercentileIsNear
  MessageIsItsBatch
  ReportsAgree
CHECK_DEADLOCK FALSE
