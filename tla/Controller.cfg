SPECIFICATION Spec
CONSTANTS
  Slacks = {0, 5, 20, 100}
  slack_up = 5
  slack_down_mba = 20
  Modes = {"abc_numa", "page_migration_only", "linux_default", "mba_10", "bw_manager_test"}
  InitRatios = {0, 60, 85, 100}
  WorkerWeights = {60, 100}
  MaxGrows = 1
  MbaFaults = TRUE
  MoveFaults = TRUE
INVARIANTS
  TypeOK
  BandwidthCoherent
  OuterLoopUnthrottled
  PlacementTracked
PROPERTIES
  PolicySpec
