SPECIFICATION FairSpec
CONSTANTS
  Loads = {0, 10, 30, 60}
  LoadChanges = TRUE
  InitRatios = {0, 40}
  LikwidStates = {TRUE, FALSE}
  CounterFaults = TRUE
  MbaFaults = TRUE
INVARIANTS
  TypeOK
  SearchCoherent
PROPERTIES
  GivesUpAtTheBottom
  RaisesAtTheStart
  SearchEnds
  SettlesAtTarget
