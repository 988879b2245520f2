SPECIFICATION FairSpec
CONSTANTS
  Helpers = {"omp1"}
  Levels = {10}
  MaxSignals = 1
  MoveFaults = FALSE
PROPERTY SigintTerminates
CHECK_DEADLOCK FALSE
