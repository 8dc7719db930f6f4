CONSTANTS
  Volts = {6, 85}
  BlockBytes = 2
  Blocks = 1
  MaxStarts = 2
  MaxChanges = 1
  Faults = TRUE
  Chips = 2
  EXPECTED_CHIPS_ON_CHAIN = 2
  MAX_CHIPS_ON_CHAIN = 3
  Freqs = {650, 700}
  Temps = {80, 90}
  Devices <- TwoDevices
  MAX_I2C_BUSY_WAIT_TRIES = 2
  MAX_I2C_FAIL_TRIES = 2
  MaxLost = 2
  MaxSets = 2
  MaxReadings = 2
  NoData = NoData
  Resp = 2
  UartRxSize = 2
  RxSize = 4
  RxCrcCycles = 1
  MaxResponses = 3
  MaxFaults = 1
SPECIFICATION MCSpec
INVARIANTS ControllerIsSafe ChipsReachable  RxIsFaithful SleeperIsWoken
CHECK_DEADLOCK FALSE
