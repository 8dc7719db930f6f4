CONSTANTS
  None = None
  SeqNums = 4
  HeldJobs = 2
  MaxSessions = 2
  MaxFound = 2
  Capacity = 4
  Difficulties <- TwoDifficulties
  Diff1Target = 12
  Sizes <- One
  MaxNotices = 3
  MaxChanges = 2
  Base = 4
  Short = 2
  HashBytes = 2
  MaxSent = 2
  UnixWrap = 8
  MaxTime = 2
  MaxSealed = 2
SPECIFICATION MCSpec
INVARIANTS OpensSafely SharesAreTranslated
  MessagesSurvive NoiseIsSound
CHECK_DEADLOCK FALSE
