SPECIFICATION Spec
CONSTANTS
  Prompts = {p}
  Aborts = {}
  Clients = {k}
  Fickle = {}
  SegmentSize = 2
  Capacity = 4
  MayTear = FALSE
  Interrupts = "never"
  MaxStarts = 2
  MaxStops = 0
  Outcomes = {}
INVARIANT TypeOK
INVARIANT AlwaysRecoverable
INVARIANT GenerationsDistinct
INVARIANT AckIsTrue
INVARIANT OpenIsOurs
INVARIANT DeliveredOnce
PROPERTY Implements
