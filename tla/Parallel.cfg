CONSTANTS
  TextLen = 7
  seams <- MCSeams
  Overlap = 2
  RightContext = 0
  MaxSpan = 2
  Documents <- MCDocuments
  Guarantees = {TRUE, FALSE}
  Spottable <- MCSpottable
  SegmentEnds = {1, 3, 6}
SPECIFICATION Spec
INVARIANTS EveryCharacterOnce ParallelIsSequential NeighboursAgree CallInv
PROPERTIES ReplacedWhole Finishes
CHECK_DEADLOCK FALSE
