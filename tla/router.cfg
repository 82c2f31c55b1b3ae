SPECIFICATION FairSpec
CONSTANTS
  u1 = u1
  u2 = u2
  Units = {u1, u2}
  FirstLeader = u1
  Highest = u2
  Lowest = u1
  MaxRelations = 2
  MaxHosts = 2
  MaxElections = 1
  MaxFaults = 2
INVARIANTS CredentialsCurrent NoneOutside
PROPERTIES RoutersFollow ClientConnects
CHECK_DEADLOCK FALSE
