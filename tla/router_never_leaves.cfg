SPECIFICATION FairSpec
CONSTANTS
  u1 = u1
  u2 = u2
  c1 = c1
  c2 = c2
  Units = {u1}
  FirstLeader = u1
  Clients = {c1}
  Roles = {"default", "admin"}
  MaxFaults = 0
PROPERTIES BrokenEnds
CHECK_DEADLOCK FALSE
