SPECIFICATION Spec
CONSTANTS
  Parents = {"p"}
  Workers = {"w"}
  Reviewer = "w"
  Limit = 1
  Buffer = 1
  MaxRetries = 1
  MaxReports = 0
  MaxChanges = 3
  MaxCrashes = 0
  MaxBreaks = 0
INVARIANT EveryPauseIsTold
CHECK_DEADLOCK FALSE
