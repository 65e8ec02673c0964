SPECIFICATION FairSpec
CONSTANTS
  Runs = {r1, r2}
  Nobody = nobody
  TTL = 1
  Heartbeat = 1
  OpTimeout = 1
  RelTimeout = 1
  Ceiling = 1
  MaxRetries = 1
  MaxMissed = 0
  MaxTime = 1
  MaxFaults = 1
  MaxLate = 1
  MaxCrashes = 1
INVARIANTS
  LossIsTheCause
PROPERTIES
  TakesNoLiveLock
  WaitEnds
CHECK_DEADLOCK FALSE
