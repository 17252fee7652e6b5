CONSTANTS
  Specialists = {"probe"}
  Forced = {}
  Retained = {"reviewer"}
  Phased = FALSE
  Capped = TRUE
  RepairLimit = 0
  Metered = FALSE
  Operators = {}
  FlakyRoles = {}
  SlowRoles = {"reviewer"}
  FlakyOperators = {}
  MayCrash = FALSE
  MaxRounds = 2
  MaxLimit = 1
SPECIFICATION Spec
CHECK_DEADLOCK FALSE
INVARIANT OneReviewPerRound
