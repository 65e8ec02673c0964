SPECIFICATION Spec
CONSTANTS
  Top = 2
  xr = xr
  Segments = {0, 1}
  Second <- MCSecond
INVARIANTS
  AgreesWithCheck
  AlgebraIsExact
CHECK_DEADLOCK FALSE
