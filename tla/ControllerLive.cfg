SPECIFICATION FairSpec
CONSTANTS
  Slacks = {0, 20, 100}
  slack_up = 5
  slack_down_mba = 20
  Modes = {"abc_numa", "page_migration_only"}
  InitRatios = {0, 70, 85}
  WorkerWeights = {100}
  MaxGrows = 1
  MbaFaults = FALSE
  MoveFaults = FALSE
PROPERTIES
  ThrottleReleased
  DangerMigrates
