SPECIFICATION Spec
CONSTANTS
  Tasks = {t1, t2}
  MaxStops = 2
  Versions = {12}
INVARIANT PoliciesAreReadable
CHECK_DEADLOCK FALSE
