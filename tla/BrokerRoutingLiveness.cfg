CONSTANTS
  Specialists = {"django"}
  Forced = {}
  Retained = {}
  Phased = TRUE
  Capped = TRUE
  RepairLimit = 0
  Metered = FALSE
  Operators = {o1}
  FlakyRoles = {}
  SlowRoles = {}
  FlakyOperators = {}
  MayCrash = FALSE
  MaxRounds = 2
  MaxLimit = 1
SPECIFICATION FairSpec
CHECK_DEADLOCK FALSE
PROPERTY RunStarts
PROPERTY RunSettles
PROPERTY RejectionIsRepaired
