SPECIFICATION DiscoverySpec
CONSTANTS
  Heads <- MCHeads
  FirstTip <- MCFirstTip
  Moving <- MCMoving
  MaxTip = 2
  HoldsOf <- MCHoldsOf
  BuiltAs <- MCBuiltAs
  DepsOf <- MCDepsOf
  Servers <- MCServers
  TagLists <- MCTagLists
  Loose <- MCLoose
  MaxRoles = 4
  Files <- MCFiles
  Modes = {"plain", "refresh", "nocache", "offline"}
  AnyName = "any"
  Handmade = {"x"}
  MaxRuns = 3
  MaxEvents = 2
  InstallNames <- MCNames
INVARIANTS
  PinHolds
  OfflineRepeats
PROPERTIES
  InstalledIsRead
CHECK_DEADLOCK FALSE
