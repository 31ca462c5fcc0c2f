SPECIFICATION Spec
CONSTANTS
  r1 = r1
  r2 = r2
  o1 = o1
  a = a
  b = b
  i1 = i1
  i2 = i2
  None = None
  MaxCount = 2
  Requests <- TwoRequests
  Observers <- OneObserver
  Paths <- TwoPaths
  Ids <- TwoIds
INVARIANTS
  NobodyWaitsOnItself
CHECK_DEADLOCK FALSE
