CONSTANTS
  Specialists = {"probe"}
  Forced = {}
  Retained = {}
  Phased = FALSE
  Capped = TRUE
  RepairLimit = 0
  Metered = FALSE
  Operators = {o1}
  FlakyRoles = {}
  SlowRoles = {}
  FlakyOperators = {}
  MayCrash = FALSE
  MaxRounds = 2
  MaxLimit = 1
SPECIFICATION Spec
CHECK_DEADLOCK FALSE
INVARIANT AttentionIsShown
