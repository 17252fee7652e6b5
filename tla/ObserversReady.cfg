SPECIFICATION Spec
CONSTANTS
  Parents = {"p"}
  Workers = {"w"}
  Reviewer = "w"
  Limit = 2
  Buffer = 1
  MaxRetries = 1
  MaxReports = 2
  MaxChanges = 0
  MaxCrashes = 0
  MaxBreaks = 0
INVARIANT ReadyHasReports
CHECK_DEADLOCK FALSE
