SPECIFICATION PromptSpec
CONSTANTS
  Runs = {r1, r2}
  Nobody = nobody
  TTL = 9
  Heartbeat = 2
  OpTimeout = 1
  RelTimeout = 1
  Ceiling = 2
  MaxRetries = 1
  MaxMissed = 1
  MaxTime = 13
  MaxFaults = 2
  MaxLate = 1
  MaxCrashes = 1
INVARIANTS
  MutualExclusion
  LeavesNoOrphan
PROPERTIES
  ObservedMeansHeld
  IsExclusiveLock
SYMMETRY Symmetry
VIEW View
CHECK_DEADLOCK FALSE
