SPECIFICATION MCSpec
CONSTANTS
  r1 = r1
  r2 = r2
  Requests <- TwoRequests
  Asked <- SomeAsked
  MaxDefers = 1
  MaxFailures = 1
SYMMETRY Symmetry
INVARIANTS
  OneResponse
  StreamsAreFinished
  DefersPrecedeOutput
  FlashEndsWithItsRequest
CHECK_DEADLOCK FALSE
