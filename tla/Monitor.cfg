CONSTANTS
  NoReading = NoReading
  Unknown = Unknown
  Failed = Failed
  Chains = 2
  Config <- AllModes
  Reading <- Readings
  DangerousTemp = 110
  HotTemp = 100
  StartTimeout = 4
  RunUpdateTimeout = 2
  TickLength = 1
  WarmUpPeriod = 3
  TickDelay = 1
  MaxFans = 1
  MaxAge = 7
  sigterm = sigterm
  sigint = sigint
  MinerChains = 3
  Signal <- TwoSignals
  MaxHalts = 1
  MayFail = TRUE
SPECIFICATION MCSpec
INVARIANTS DangersNoticed 
PROPERTY HaltEnds
CHECK_DEADLOCK FALSE
