CONSTANTS
  TextLen = 10
  First = 2
  Last = 9
  Documents <- AllDocuments
  Overlap = 3
  MinEmit = 2
  StrictArgs = {TRUE}
  MaxChunk = 3
  MaxSpan = 2
  LeftContext = 3
  RightContext = 1
SPECIFICATION Spec
INVARIANTS StreamingEquivalence BoundedBuffer EveryPassEmits
PROPERTIES ImplementsContract
CHECK_DEADLOCK FALSE
