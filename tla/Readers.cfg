SPECIFICATION EachSpec
CONSTANTS
  Tasks = {t1}
  Versions = {0, 1, 2, 3, 4, 5, 6, 7, 8, 9, 10, 11, 12, 13, 14}
  MaxStops = 2
INVARIANT UpgradeIsSafe
INVARIANT PagesAreHonest
INVARIANT NoticesAreSent
INVARIANT PaneIsTrue
INVARIANT EvidenceIsTrue
CHECK_DEADLOCK FALSE
