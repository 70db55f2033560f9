CONSTANTS
  TextLen = 6
  MaxToken = 4
  MaxChunk = 6
  LinesLen = 5
  Conversations <- MCConversations
  MaxBody = 2
  MessageIds = {"null", "7", "9"}
  Inputs <- MCLines
  Givens <- MCSetups
  Scans <- MCScans
SPECIFICATION TextSpec
INVARIANTS RestoresAsWhole CarryBounded PositionsRight AnswersInOrder SameFindings RequestsCovered ErrorsCaught
CHECK_DEADLOCK FALSE
