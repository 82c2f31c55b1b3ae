SPECIFICATION FairSpec
CONSTANTS
  a = a
  b = b
  c = c
  Shards = {a, b, c}
  Settled = {a, b}
  BrokenReads = {TRUE, FALSE}
  MaxRelations = 1
  MaxRotations = 0
  MaxElections = 1
  MaxFailures = 0
INVARIANT OneDraining
PROPERTIES OnlyLeaversDrained RelatedJoins UnrelatedLeaves WaitEnds
CHECK_DEADLOCK FALSE
