SPECIFICATION Spec
CONSTANTS
  Start = {i1}
  Connection = {c1}
  MaxAttempts = 2
  MaxClosing = 1
  Configured = {"tee"}
  Current = Current
  None = None
INVARIANT OneOperation
CHECK_DEADLOCK FALSE
