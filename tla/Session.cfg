SPECIFICATION Spec
CONSTANTS
  Start = {i1}
  Connection = {c1}
  MaxAttempts = 2
  MaxClosing = 2
  Configured = {"tee"}
  Current = Current
  None = None
INVARIANTS
  OneOperationPerScreen
  PhaseCallbackIsLive
  LocalStaysLocal
CHECK_DEADLOCK FALSE
