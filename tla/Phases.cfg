SPECIFICATION PhasesSpec
CONSTANTS
  Phase = {simulate, prove, proved}
  Framed = {simulate, prove}
  Timer = {t1, t2}
  MinDisplay = 2
  MaxWaiting = 3
  None = None
INVARIANTS
  TimerIsOwn
  StoppedIsBlank
PROPERTY Implements
