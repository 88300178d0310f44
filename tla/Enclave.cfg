SPECIFICATION Spec
CONSTANTS
  Conn = {c1, c2}
  Version = {v1}
  Binary = {b1, b2}
  Default = b1
  Torn = Torn
  None = None
INVARIANTS
  TypeOK
  ReportedIsInstalled
  ChosenIsInstalled
  InstalledIsWhole
  HashIsInstalled
PROPERTIES
  RunsAttestedBinary
  EveryRequestAnswered
