\* An empty prompt under --via-decode.
SPECIFICATION GenerateSpec
CONSTANTS
  t1 = t1
  t2 = t2
  bad = bad
  Tokens = {t1, t2}
  BadToken = bad
  NCtx = 3
  IntModulus = 16
  Unknown = Unknown
  Inputs = {}
  TokenRequests = {}
  CacheRequests = {}
  LengthRequests = {}
  Prompts <- MCPrompts
  Generates <- MCGenerates
  Truncates <- MCTruncates
  Argmax <- MCArgmax
CHECK_DEADLOCK FALSE
INVARIANT
  RowsFitBuffer
