\* Texts of up to six bytes, a small and a large buffer.
SPECIFICATION TokSpec
CONSTANTS
  la = la
  ls = ls
  num = num
  sp = sp
  nl = nl
  quo = quo
  lead = lead
  cont = cont
  Texts <- MCTexts
  Class <- MCClass
  SpaceByte = sp
  Contractions <- MCContractions
  Tables <- MCTables
  Caps = {1, 6}
CHECK_DEADLOCK FALSE
INVARIANTS
  TokTypeOK
  PiecesFollowPattern
  MergedOneByOne
  NeverTooSmall
  RoundTrip
PROPERTY
  TokReturns
