SPECIFICATION Spec
CONSTANTS
  Clients = {c1}
  Runs = {r1}
  Ids = {i1}
  NoRun = none
  MaxReceipts = 1
  MaxCrashes = 1
INVARIANT ClaimsStayReadable
CHECK_DEADLOCK FALSE
