SPECIFICATION Spec
CONSTANTS
  c1 = c1
  c2 = c2
  r1 = r1
  r2 = r2
  i1 = i1
  i2 = i2
  k1 = k1
  k2 = k2
  k3 = k3
  a = a
  b = b
  c = c
  none = none
  monitor = monitor
  impl = impl
  rev = rev
PROPERTY StopsAreExact
PROPERTY CommandsAreExact
INVARIANT StartsAreExact
SYMMETRY Exchanged
CHECK_DEADLOCK FALSE
