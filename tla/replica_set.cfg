SPECIFICATION FairSpec
CONSTANTS
  a = a
  b = b
  c = c
  Units = {a, b, c}
  Founders = {a, b}
  Nobody = nobody
  MaxRemovals = 2
  MaxElections = 0
  MaxFailures = 0
PROPERTIES MembersConverge DetachingEnds
CHECK_DEADLOCK FALSE
