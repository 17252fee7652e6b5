SPECIFICATION Spec
CONSTANTS
  Prompts = {}
  Aborts = {a}
  Clients = {k}
  Fickle = {k}
  SegmentSize = 2
  Capacity = 4
  MayTear = TRUE
  Interrupts = "between"
  MaxStarts = 1
  MaxStops = 2
  Outcomes = {"completed"}
INVARIANT ClosedIsFinal
INVARIANT RecordsArePermitted
PROPERTY Implements
