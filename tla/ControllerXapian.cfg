SPECIFICATION FairSpec
CONSTANTS
  Slacks = {0, 20, 100}
  slack_up = 5
  slack_down_mba = 20
  Modes = {"abc_numa"}
  InitRatios = {90}
  WorkerWeights = {100}
  MaxGrows = 0
  MbaFaults = FALSE
  MoveFaults = FALSE
PROPERTY XapianDangerMigrates
