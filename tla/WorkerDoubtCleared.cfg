SPECIFICATION Spec
CONSTANTS
  MaxAssignments = 1
  MaxRuns = 1
  MaxSends = 0
  MaxRestarts = 1
  MaxFaults = 0
  Suspends = FALSE
PROPERTY DoubtSurvivesReconnect
CHECK_DEADLOCK FALSE
