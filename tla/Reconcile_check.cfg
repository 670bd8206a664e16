CONSTANTS
  NumRows = 3
  MaxCopies = 2
  MaxForeign = 1
  MaxDamage = 2
  Faults <- AllFaults
  Corrupted = Corrupted
  None = None
SPECIFICATION Spec
INVARIANTS
  PassIsExact
  CleanRunPasses
  WatermarkWitness
  SummedChangeCaught
