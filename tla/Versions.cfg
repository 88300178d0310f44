SPECIFICATION Spec
CONSTANTS
  Version = {1, 2, 3}
  Nightly = {1, 2}
  Testnet = {3}
  NightlyLimit = 1
  TestnetLimit = 1
  Script = {s1, s2}
  Connection = {c1}
  MaxArgs = 2
  Default = Default
  None = None
INVARIANTS AvailableIsWhole TiersAreBounded
PROPERTIES WholeIsKept EveryProveAnswered
