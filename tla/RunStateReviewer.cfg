SPECIFICATION Spec
CONSTANTS
  Specialists = {"probe", "django"}
  Early = "probe"
  Retained = {}
  Files = 1
  MaxReports = 4
  MaxEdits = 0
  MaxGuidance = 0
  MaxStalls = 2
  MaxBreaks = 0
PROPERTY ReviewKnows
CHECK_DEADLOCK FALSE
