SPECIFICATION Spec
CONSTANTS
  p1 = p1
  p2 = p2
  c1 = c1
  c2 = c2
  c3 = c3
  Requests <- TwoRequests
  Routine = maintenance
  Conns <- ThreeConns
  Drivers <- AllDrivers
  Nil = Nil
SYMMETRY Symmetry
INVARIANTS
  CallsSucceed
  ProcessSurvives
  ConnectionsAreNotLost
CHECK_DEADLOCK FALSE
