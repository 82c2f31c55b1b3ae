SPECIFICATION FairSpec
CONSTANTS
  Units = {0, 1, 2}
  Revisions = {1, 2}
  SnapOf <- MCSnapOf
  CharmMajor <- MCCharmMajor
  SnapMajor <- MCSnapMajor
  LeaderHearsItself = TRUE
  Starts <- MCStarts
  MaxRefreshes = 2
  MaxFaults = 1
INVARIANT TypeOK
PROPERTY ResumedCompletes
CHECK_DEADLOCK FALSE
