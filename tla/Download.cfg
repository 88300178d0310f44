SPECIFICATION Spec
CONSTANTS
  Call = {d1, d2}
  None = None
INVARIANTS
  CachedIsWhole
  UploadIsWhole
PROPERTIES
  WholeIsKept
  ExtractedIsCached
  EveryCallAnswered
