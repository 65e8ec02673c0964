SPECIFICATION LockfilesSpec
CONSTANTS
  Some = {"first", "second", "branch", "named", "deep", "roles"}
  Projects <- MCProjects
  ServerLists <- MCServerLists
  Worlds <- MCWorlds
  Unresolvable <- MCUnresolvable
  ResolutionOf <- MCResolution
  Metadata <- MCMetadata
  Edits <- MCEdits
INVARIANTS
  CheckedIsHonoured
  CompareIsHash
  FrozenKeepsTheAsk
CHECK_DEADLOCK FALSE
