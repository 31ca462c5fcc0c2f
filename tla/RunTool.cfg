SPECIFICATION MCSpec
CONSTANTS
  MaxEdits = 2
  MaxQueue = 1
  MaxDrains = 2
INVARIANTS
  OnlyTheLastBuildRuns
  EditsReachTheBuild
  ExitLeavesNothing
PROPERTIES
  SettlesDown
CHECK_DEADLOCK FALSE
