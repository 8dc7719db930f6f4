CONSTANTS
  Client = {c1, c2}
  Dispatcher = d
  Generator = {g1, g2}
  MaxJobs = 1
  MaxWork = 3
SPECIFICATION FairSpec
INVARIANTS WatchFollowsActive  LateWorkBounded
PROPERTY SleepersWake
CHECK_DEADLOCK FALSE
