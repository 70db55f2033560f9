CONSTANTS
  Contents = {"clean", "secret"}
  MaxWrites = 3
  MaxInodes = 9
  MayDelete = FALSE
  Options <- RedactOnPath
SPECIFICATION WatchSpec
PROPERTIES EventuallyRedacted
CHECK_DEADLOCK FALSE
