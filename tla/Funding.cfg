SPECIFICATION Spec
CONSTANTS
  Salt = {s1, s2}
  MintAmount = 2
  Target = 5
  BatchSize = 2
  MaxBalance = 3
  MaxRuns = 3
  None = None
INVARIANTS
  MintsToTarget
  ReportedIsFunded
CHECK_DEADLOCK FALSE
