CONSTANTS
  TextLen = 8
  First = 0
  Last = 8
  Documents <- AllDocuments
  Overlap = 2
  MinEmit = 0
  StrictArgs = {TRUE}
  MaxChunk = 2
  MaxSpan = 2
  LeftContext = 2
  RightContext = 2
SPECIFICATION SafetySpec
INVARIANTS FormalModelTheorem1
CHECK_DEADLOCK FALSE
