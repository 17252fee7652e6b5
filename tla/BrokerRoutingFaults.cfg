CONSTANTS
  Specialists = {"probe"}
  Forced = {"probe"}
  Retained = {"reviewer"}
  Phased = TRUE
  Capped = TRUE
  RepairLimit = 0
  Metered = FALSE
  Operators = {o1, o2}
  FlakyRoles = {"implementer"}
  SlowRoles = {"reviewer", "implementer"}
  FlakyOperators = {o1}
  MayCrash = TRUE
  MaxRounds = 2
  MaxLimit = 1
SPECIFICATION Spec
CHECK_DEADLOCK FALSE
INVARIANT TypeOK
INVARIANT ReviewHasEvidence
INVARIANT ReadyIsReviewed
INVARIANT RepairsWithinLimit
PROPERTY RoundNeedsVerdict
