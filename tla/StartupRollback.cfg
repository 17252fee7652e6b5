SPECIFICATION Spec
CONSTANTS
  Starts = {a, b}
  Roles = {impl, rev}
  Monitor = monitor
  None = none
  Custom = FALSE
  MaxDeaths = 0
  MaxStops = 0
  MaxFailures = 0
PROPERTY RollbackIsExact
CHECK_DEADLOCK FALSE
