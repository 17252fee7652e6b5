CONSTANTS
  Specialists = {"probe", "django"}
  Forced = {"probe"}
  Retained = {}
  Phased = TRUE
  Capped = TRUE
  RepairLimit = 0
  Metered = TRUE
  Operators = {o1}
  FlakyRoles = {}
  SlowRoles = {}
  FlakyOperators = {}
  MayCrash = FALSE
  MaxRounds = 2
  MaxLimit = 1
SPECIFICATION Spec
CHECK_DEADLOCK FALSE
INVARIANT ReadyIsQuiet
INVARIANT OneReviewPerRound
INVARIANT NoOrphanAssignment
INVARIANT NeverForgotten
INVARIANT PendingIsParked
PROPERTY KeepsPromise
