CONSTANTS
  Volts = {6, 85}
  BlockBytes = 2
  Blocks = 1
  MaxStarts = 1
  MaxChanges = 0
  Faults = FALSE
SPECIFICATION PowerSpec
INVARIANT DisableHeard
CHECK_DEADLOCK FALSE
