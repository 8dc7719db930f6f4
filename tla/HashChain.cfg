CONSTANTS
  n1 = n1
  n2 = n2
  Nonce <- MCNonce
  Midstates = 2
  ChipIds = 4
  ExtIds = 12
  FifoWorks = 2
  RxFifo = 2
  ChipLag = 2
  InitWork = 2
  MaxWork = 9
  MaxResponses = 3
  main = main
  hook = hook
  Main = main
  Owner <- MainAndHook
  RetryCount = 2
  MaxAcquires = 2
  MaxMessages = 2
  Conn = {k1}
  QueueLimit = 2
  MaxFrames = 3
SPECIFICATION MCSpec
INVARIANTS RightWork SentOnce  
PROPERTIES  SessionsEnd
CHECK_DEADLOCK FALSE
