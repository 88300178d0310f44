SPECIFICATION KeysSpec
CONSTANTS
  Conn = {c1, c2, c3}
  Nitro = TRUE
  MaxKeys = 3
  MaxOpens = 4
INVARIANTS
  HandedDecrypts
  OpensBounded
PROPERTY EveryRequestAnswered
