SPECIFICATION Spec
CONSTANTS
  tee = tee
  odd = odd
  Call = {p1}
  Url <- MCUrl
  Released <- MCReleased
  Offer <- MCOffer
  SigningKey <- MCSigningKey
  RootKey = "root"
  Authentic <- MCAuthentic
  Document <- MCDocument
  Expected <- MCExpected
  MaxAge = 0
  Skew = 0
  MaxKey = 2
  MaxDelay = 1
  None = None
INVARIANT RequiredIsAttested
PROPERTY EveryCallSettles
