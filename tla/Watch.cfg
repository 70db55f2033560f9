CONSTANTS
  Contents = {"clean", "secret", "huge"}
  MaxWrites = 3
  MaxInodes = 10
  MayDelete = TRUE
  Options <- MCOptions
  FailOpen = FALSE
SPECIFICATION Spec
INVARIANTS NothingMissed VerdictScansHold QuietCacheTrue InvariantHolds
PROPERTIES DaemonMovesOn
CHECK_DEADLOCK FALSE
