SPECIFICATION FairSpec
CONSTANTS
  s1 = s1
  s2 = s2
  w1 = w1
  w2 = w2
  None = None
  Nobody = Nobody
  Shas <- MCShas
  Workers <- MCWorkers
  Chunks = 1
  MaxJobs = 2
  MaxCrashes = 1
  MarkerStays = FALSE
INVARIANTS
  ReadyMeansWhole
PROPERTIES
  IsContentStore
  JobsEnd
