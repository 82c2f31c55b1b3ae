SPECIFICATION FairSpec
CONSTANTS
  a = a
  b = b
  c = c
  Shards = {a, b}
  Settled = {a}
  BrokenReads = {FALSE}
  MaxRelations = 1
  MaxRotations = 2
  MaxElections = 1
  MaxFailures = 1
INVARIANT RotationNotMissed
PROPERTY PasswordsConverge
CHECK_DEADLOCK FALSE
