CONSTANTS
  None = None
  easy = easy
  hard = hard
  SeqNums = 2
  HeldJobs = 2
  MaxSessions = 2
  MaxFound = 3
  Targets <- TwoTargets
  MaxJobs = 2
  MaxPrevs = 2
  MaxDn = 1
  IdValues = 16
  QueueSize = 2
  MaxConnects = 3
  MaxData = 2
  MaxBad = 1
SPECIFICATION MCSpec
SYMMETRY Symmetry
INVARIANTS MinesWhatPoolWants SharesAccounted ChannelIsOurs
CHECK_DEADLOCK FALSE
