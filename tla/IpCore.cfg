CONSTANTS
  NoData = NoData
  Size = 4
  Data = {d1, d2}
  DB = 2
  SPB = 4
  CntWidth = 4
  UartSize = 2
  LinkSpeeds <- SlowThenFast
  MaxBytes = 3
  TxBits = 1
  TxSamples = 1
  TxCntWidth = 4
  TxUartSize = 2
  CmdSize = 4
  WorkSize = 8
  MidstateWords = 1
  BIGGEST_WORK = 5
  WorkTime = 2
  CrcCycles = 2
  InitSpeed = 1
  TargetSpeed = 0
  MaxCommands = 2
  MaxWorks = 2
  MaxRestarts = 1
  AxiSize = 2
  MaxTransfers = 3
  Receiver = {r1, r2}
  Frontend = frontend
  Board = {b1}
  Difficulty = {1, 2, 3}
  BackendDifficulty = 1
  NetworkDifficulty = 2
  MaxSolved = 2
  Radix = 4
  TargetBytes = 5
  Exponents = 8
  LowBytes = 3
SPECIFICATION MCSpec
INVARIANTS FifoIsQueue LinkIsFaithful TxIsFaithful TransfersActOnce StatsAreConsistent TargetsAreFaithful
CHECK_DEADLOCK FALSE
