CONSTANTS
  MinerChains = 3
  Signal = {sigterm, sigint}
  MaxHalts = 1
  MayFail = TRUE
SPECIFICATION HaltFairSpec
PROPERTY FailureLeavesFansOn
CHECK_DEADLOCK FALSE
