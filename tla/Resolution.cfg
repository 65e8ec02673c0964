SPECIFICATION Spec
CONSTANTS
  Collections = {app, lib}
  Versions = {1, 2}
  Servers = {hub, mirror}
  hub = hub
  mirror = mirror
  app = app
  lib = lib
  None = None
  Needs <- MCNeeds
  FirstServed <- MCFirstServed
  Requirements <- MCRequirements
  Configs <- MCConfigs
  MaxRuns = 3
  MaxChanges = 1
INVARIANTS
  PlanMeetsRequirements
  AnsweredByItsServer
  DepsAreTheServersOwn
  RefreshSeesTheCurrent
CHECK_DEADLOCK FALSE
