SPECIFICATION Spec
CONSTANTS
  Loads = {60}
  LoadChanges = FALSE
  InitRatios = {40}
  LikwidStates = {TRUE}
  CounterFaults = FALSE
  MbaFaults = FALSE
PROPERTY FindsHighest
