SPECIFICATION Spec
CONSTANTS
  Units = {0, 1, 2}
  Revisions = {1, 2}
  SnapOf <- MCSnapOf
  CharmMajor <- MCCharmMajor
  SnapMajor <- MCSnapMajor
  LeaderHearsItself = FALSE
  Starts <- MCRollbackStarts
  MaxRefreshes = 3
  MaxFaults = 0
INVARIANTS OneUnitDown HigherFirst
PROPERTIES PrimaryUp SecondUnitConfirmed
CHECK_DEADLOCK FALSE
