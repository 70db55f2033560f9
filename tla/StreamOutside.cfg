SPECIFICATION Spec
INVARIANTS ReportedIntact FailClosed
PROPERTIES Terminates
CHECK_DEADLOCK FALSE
CONSTANTS
  TextLen = 7
  First = 0
  Last = 7
  Documents <- AllDocuments
  Overlap = 2
  MinEmit = 0
  StrictArgs = {TRUE, FALSE}
  MaxChunk = 2
  MaxSpan = 4
  LeftContext = 3
  RightContext = 1
