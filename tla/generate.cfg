\* main, on every path.
SPECIFICATION GenerateSpec
CONSTANTS
  t1 = t1
  t2 = t2
  bad = bad
  Tokens = {t1, t2}
  BadToken = bad
  NCtx = 4
  IntModulus = 16
  Unknown = Unknown
  Inputs = {}
  TokenRequests = {}
  CacheRequests = {}
  LengthRequests = {}
  Prompts <- MCPrompts
  Generates <- MCGenerates
  Truncates <- MCTruncates
  Argmax <- MCArgmax
CHECK_DEADLOCK FALSE
INVARIANTS
  GenerateTypeOK
  GreedyText
  DumpIsPrefill
  CacheFollowsText
  ExitsByContext
  ReservedRunsOn
