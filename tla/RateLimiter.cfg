SPECIFICATION Spec
CONSTANTS
  Request = {r1, r2, r3, r4}
  Ip = {a, local, unknown}
  Exempt = {local}
  Unknown = unknown
  None = None
  Window = 3
  Limit = 2
  PruneInterval = 2
  MaxNow = 6
SYMMETRY MCSymmetry
INVARIANTS
  WithinLimit
  MemoryBounded
PROPERTY Implements
CHECK_DEADLOCK FALSE
