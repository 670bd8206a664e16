CONSTANTS
  NumRows = 2
  MaxCopies = 2
  MaxForeign = 0
  MaxDamage = 2
  Faults <- LateAndLose
  Corrupted = Corrupted
  None = None
SPECIFICATION Spec
INVARIANTS
  LossNeverPasses
