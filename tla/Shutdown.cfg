SPECIFICATION FairSpec
CONSTANTS
  Helpers = {"omp1", "omp2"}
  Levels = {10, 100}
  MaxSignals = 2
  MoveFaults = TRUE
INVARIANTS
  TypeOK
  HandlersRestore
  ResetBeforeFini
PROPERTIES
  OrderlySpec
  ShutdownCompletes
CHECK_DEADLOCK FALSE
