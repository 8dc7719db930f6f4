CONSTANTS
  Strategies <- MixedStrategies
  MaxGroups = 3
  Unit = 4
  Deltas = {0, 2}
  MaxWork = 12
  c1 = c1
  c2 = c2
  c3 = c3
  none = none
  Client <- MCClient
  None = none
  MaxChanges = 2
  g1 = g1
  g2 = g2
  g3 = g3
  Board <- MCGenerator
  Versions = 4
  Seconds = 3
  Midstates = 2
  WordSize = 16
  h1 = h1
  h2 = h2
  h3 = h3
  Handle <- MCHandle
  Configured <- TwoGroups
  Caller = {a, b}
  Span = 4
  Solvers = 2
  MaxCalls = 2
  MaxShares = 1
SPECIFICATION MCSpec
INVARIANTS SharesFollowed EachWorkOnce  
PROPERTIES FailoverSettles
CHECK_DEADLOCK FALSE
