SPECIFICATION Spec
CONSTANTS
  Tasks = {t1, t2}
  MaxStops = 2
  Versions = {1, 2}
INVARIANT NeverRefused
CHECK_DEADLOCK FALSE
