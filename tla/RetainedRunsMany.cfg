SPECIFICATION Spec
CONSTANTS
  Sessions = {1}
  MaxRuns = 3
  ScanLimit = 2
  SessionScan = 1
  PageLimit = 1
INVARIANT NewestIsListed
CHECK_DEADLOCK FALSE
