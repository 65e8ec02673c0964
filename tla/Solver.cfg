SPECIFICATION FairSpec
CONSTANTS
  None = None
  Packages <- MCPackages
  Versions <- MCVersions
  Point <- MCPoint
  Registries <- MCRegistries
  Published <- MCPublished
  Reported <- MCReported
  Requires <- MCRequires
INVARIANTS
  FailsOnlyIfNone
  ResultIsSelection
PROPERTIES
  SolveEnds
