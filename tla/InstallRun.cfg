SPECIFICATION FairSpec
CONSTANTS
  a = a
  b = b
  c1 = c1
  g1 = g1
  g2 = g2
  None = None
  Cols <- MCCols
  Roles = {p}
  Roots <- MCRoots
  Yields <- MCYields
  Graphs <- MCGraphs
  Workers = 2
  DownloadWorkers = 1
INVARIANTS
  JoinedBeforeRelease
  OkMeansDone
  TempsReclaimed
PROPERTIES
  RunEnds
  LossReported
CHECK_DEADLOCK FALSE
