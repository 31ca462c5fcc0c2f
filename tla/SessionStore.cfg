SPECIFICATION Spec
CONSTANTS
  p1 = p1
  p2 = p2
  s1 = s1
  s2 = s2
  None = None
  MaxPending = 1
  Procs <- TwoProcs
  Sids <- TwoSids
  Drivers <- AllDrivers
SYMMETRY Symmetry
INVARIANTS
  FlushedDataIsKept
  DestroyedStaysAway
  SessionIsBoundToItsUser
PROPERTIES
  ImplementsLife
CHECK_DEADLOCK FALSE
