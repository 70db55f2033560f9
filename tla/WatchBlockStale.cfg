CONSTANTS
  Contents = {"clean", "secret"}
  MaxWrites = 3
  MaxInodes = 3
  MayDelete = TRUE
  FailOpen = FALSE
SPECIFICATION BlockSpec
INVARIANTS AllowedOnlyClean
CHECK_DEADLOCK FALSE
