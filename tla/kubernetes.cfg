SPECIFICATION FairSpec
CONSTANTS
  Highest = 2
  Revisions = {1, 2}
  Major <- MCMajor
  FirstLeaders = {0, 2}
  MaxRefreshes = 2
  MaxFaults = 1
PROPERTIES HigherBack SecondUnitConfirmed IncompatibleHeld ResumedCompletes
CHECK_DEADLOCK FALSE
