SPECIFICATION Spec
CONSTANTS
  Calls = {k1, k2}
  Ids = {i1}
  Kinds = {"send", "abort"}
  MaxReceipts = 2
  MaxFaults = 0
INVARIANT DeliveredOnce
CHECK_DEADLOCK FALSE
