\* A request wider than an int.
SPECIFICATION Spec
CONSTANTS
  t1 = t1
  t2 = t2
  bad = bad
  x = x
  scores = scores
  Tokens = {t1, t2}
  BadToken = bad
  NCtx = 2
  IntModulus = 16
  NLayer = 2
  Buffers = {x, scores}
  Mixed = Mixed
  Unknown = Unknown
  Inputs <- MCInputs
  TokenRequests <- MCRequests
  CacheRequests <- MCWideRequests
  LengthRequests <- MCLengths
PROPERTY
  ReserveCovers
