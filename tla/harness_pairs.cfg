\* A pair measured in two chunks and merged.
SPECIFICATION Spec
CONSTANTS
  f1 = f1
  f2 = f2
  f3 = f3
  other = other
  Files = {f1, f2, f3}
  NoFile = NoFile
  D3 = D3
  NoPrompt = NoPrompt
  Commands <- MCSplitCommands
  Flags <- MCFlags
  ProbeTimes = {0, 4, 10, 20}
  Floor = 10
  MaxInvocations = 4
CHECK_DEADLOCK FALSE
INVARIANT PairsTogether
