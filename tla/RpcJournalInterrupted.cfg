SPECIFICATION Spec
CONSTANTS
  Prompts = {}
  Aborts = {a}
  Clients = {k}
  Fickle = {}
  SegmentSize = 3
  Capacity = 4
  MayTear = FALSE
  Interrupts = "anywhere"
  MaxStarts = 2
  MaxStops = 0
  Outcomes = {}
INVARIANT AlwaysRecoverable
