SPECIFICATION ProxySpec
CONSTANTS
  v1 = v1
  b1 = b1
  Conn = {c1, c2}
  Version = {v1}
  Binary = {b1, b0}
  Default = b0
  Torn = Torn
  None = None
  Release <- MCRelease
  MaxEpoch = 2
INVARIANTS
  ProxyTypeOK
  ProofIsByRelease
  ForwardedIsInstalled
PROPERTY EveryPostAnswered
