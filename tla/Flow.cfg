SPECIFICATION Spec
CONSTANTS
  Attempts = 3
  Timeout = 2
  MaxAddresses = 3
INVARIANTS
  ReportedIsMined
  OneAtATime
PROPERTY EveryOperationEnds
