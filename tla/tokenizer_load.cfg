\* Every artifact near a small one, and every spelling near the edges of UTF-8.
SPECIFICATION ArtifactSpec
CONSTANTS
  Sessions <- MCSessions
  Names <- MCNames
  StrHash <- MCStrHash
  PairHash <- MCPairHash
  VocabCap = 2
  MergeCap = 1
  AddedCap = 1
  MinBuckets = 2
  MaxDepth = 2
CHECK_DEADLOCK FALSE
INVARIANTS
  TablesAreDeclared
  LoadHoldsTables
  SpellingsDecode
