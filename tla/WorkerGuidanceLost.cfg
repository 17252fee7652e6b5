SPECIFICATION Spec
CONSTANTS
  MaxAssignments = 1
  MaxRuns = 2
  MaxSends = 1
  MaxRestarts = 0
  MaxFaults = 1
  Suspends = FALSE
INVARIANT GuidanceArrives
CHECK_DEADLOCK FALSE
