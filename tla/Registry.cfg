SPECIFICATION Spec
CONSTANTS
  b = b
  g1 = g1
  g2 = g2
  x1 = x1
  x2 = x2
  y = y
  p = p
  q = q
  w = w
  v = v
  Projects = {p, q}
  Collections = {b, g1, g2}
  Roles = {x1, x2, y}
  Galaxy = "galaxy"
  Slot <- MCSlot
  Source <- MCSource
  Edges <- MCEdges
  Workspaces = {w, v}
  Homes <- MCHomes
  Files <- MCFiles
  Kinds = {"install", "warm", "lock"}
  Retention = 0
  MaxCommands = 3
  MaxEvents = 1
INVARIANTS
  NothingUnreachedStays
PROPERTIES
  SparesTheReached
  SweepSparesTheUsed
VIEW View
SYMMETRY Symmetry
CHECK_DEADLOCK FALSE
