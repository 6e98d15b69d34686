\* The reader's headers, and whole models of no, one and two layers, one without features.
SPECIFICATION LoadSpec
CONSTANTS
  Weights <- MCWeights
  Sessions <- MCSessions
  Bias <- MCBias
  HeadNames = {"lm_head.weight"}
  UMax = 1023
  MaxDims = 3
  MaxDepth = 2
  FirstCap = 2
CHECK_DEADLOCK FALSE
INVARIANTS
  ReleasedOnce
  TableIsHeader
  WellFormedOpens
  LoadsWhatWasInventoried
  FreshInventoryLoads
  ReadAsPinned
