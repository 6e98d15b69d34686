\* A caller that only restores lengths.
SPECIFICATION RestoringSpec
CONSTANTS
  t1 = t1
  t2 = t2
  bad = bad
  x = x
  scores = scores
  Tokens = {t1, t2}
  BadToken = bad
  NCtx = 3
  IntModulus = 16
  NLayer = 2
  Buffers = {x}
  Mixed = Mixed
  Unknown = Unknown
  Inputs <- MCRestoringInputs
  TokenRequests = {}
  CacheRequests <- MCRequests
  LengthRequests <- MCLengths
INVARIANT
  CacheCoherent
PROPERTIES
  CachedMatchesUncached
  ContractHolds
