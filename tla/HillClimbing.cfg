SPECIFICATION FairSpec
CONSTANTS
  Rates <- MCRates
  delta_be = 2
  phase_change = 4
  InitRatios = {0, 40, 85, 100}
  CounterFaults = TRUE
  MoveFaults = TRUE
INVARIANTS
  TypeOK
  RatioTracked
  ElseOnlyUnmeasured
PROPERTIES
  JumpsFromTheEndOnly
  OptimizedIsStable
  ClimbEnds
