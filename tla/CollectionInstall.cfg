SPECIFICATION FairSpec
CONSTANTS
  d1 = d1
  d2 = d2
  junk = junk
  Items <- MCItems
  Version <- MCVersion
  Source <- MCSource
  Digests <- MCDigests
  Shared <- MCShared
  Pins <- MCPins
  Broken <- MCBroken
  Tally <- MCTally
  None = None
  Torn = Torn
  MaxRuns = 2
  MaxFaults = 1
INVARIANTS
  MarkersTellTruth
  OkMeansInstalled
PROPERTIES
  PinGuardsTree
  CacheIsKept
CHECK_DEADLOCK FALSE
