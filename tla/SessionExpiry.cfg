SPECIFICATION FairSpec
CONSTANTS
  p1 = p1
  p2 = p2
  Procs <- TwoProcs
  Drivers <- AllDrivers
  Short <- Terms
  NewLife = 0
  FlushLife = 1
  Keep = 2
  ReadLife = 3
  WriteLife = 4
  CookieLife = 3
  Grace = 1
INVARIANTS
  KeysExpire
PROPERTIES
  KeptWhilePromised
  AbandonedSessionsGo
CHECK_DEADLOCK FALSE
