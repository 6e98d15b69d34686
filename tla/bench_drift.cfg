\* The drift diagnostic in a slot of sixteen numbers.
SPECIFICATION DriverSpec
CONSTANTS
  t1 = t1
  t2 = t2
  bad = bad
  Tokens = {t1, t2}
  BadToken = bad
  NCtx = 2
  IntModulus = 16
  Unknown = Unknown
  Inputs = {}
  TokenRequests = {}
  CacheRequests = {}
  LengthRequests = {}
  ConfigLists <- MCConfigLists
  LengthLists <- MCLengthLists
  ContextLists <- MCContextLists
  Fixtures <- MCFixtures
  Repeats = {0, 1, 2}
  SampleCounts = {0, 5}
  WarmupCounts = {0, 2}
  Clocks <- MCClocks
  MaxStddevPct = 5
  MinWarmup = 1
  MinSamples = 2
  MaxSamples = 3
  MaxRecords = 5
  MaxNums = 16
CHECK_DEADLOCK FALSE
INVARIANT
  DriftReported
