CONSTANTS
  Api = {a1, a2}
  Scheduler = sched
  Task = {t1, t2}
  StopCapacity = 1
  Kind = "v1"
SPECIFICATION FairSpec
INVARIANTS OneMainTask StopIsHeard
PROPERTIES ImplementsService StopCompletes
CHECK_DEADLOCK FALSE
