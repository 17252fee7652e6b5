SPECIFICATION Spec
CONSTANTS
  i1 = i1
  i2 = i2
  k1 = k1
  k2 = k2
PROPERTY WorkGoesOn
PROPERTY NewsArrives
CHECK_DEADLOCK FALSE
