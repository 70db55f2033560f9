CONSTANTS
  Writers = {"main", "session"}
  Main = "main"
  Destinations = {"a", "b"}
SPECIFICATION AtomicSpec
INVARIANTS AsDirectWrite
CHECK_DEADLOCK FALSE
