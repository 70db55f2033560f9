CONSTANTS
  Trees <- MCTrees
  MaxWorkers = 3
  Writers = {"main", "session"}
  Main = "main"
  Destinations = {"a", "b"}
  Threads = {"t1", "t2", "t3"}
  Inputs <- MCInputs
  Kernels <- MCKernels
  PER_WORKER_FIXED = 2
  NATIVE_PER_WORKER = 3
  ModelBudget = 7
  Unlimited = 999
  Asked <- MCAsked
  Rlimits <- MCRlimits
  Sessions = {"one", "two"}
  Uploads <- MCUploads
  MaxRuns = 4
SPECIFICATION OutputsSpec
INVARIANTS OldOrWhole OneCreatorAsDirect GuardKept PartsInvariant ReadersContained ExitTruthful BudgetHolds ScratchKept PassesShown
PROPERTIES ImplementsContract TreeEnds
CHECK_DEADLOCK FALSE
