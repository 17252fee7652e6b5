SPECIFICATION EachSpec
CONSTANTS
  Workers = {w1, w2}
  Ceilings <- ThreeScopes
  MaxAllowance = 3
  Extras = {1, 2}
  Repeats = FALSE
  Settles = FALSE
  MaxAsks = 3
  MaxAssignments = 2
  MaxResumes = 1
  MaxCuts = 0
SYMMETRY AnyWorkers
INVARIANT WithinCeilings
PROPERTY TurnsAreHonest
PROPERTY UsageIsExact
CHECK_DEADLOCK FALSE
