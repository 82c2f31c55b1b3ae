SPECIFICATION FairSpec
CONSTANTS
  u1 = u1
  u2 = u2
  c1 = c1
  c2 = c2
  Units = {u1, u2}
  FirstLeader = u1
  Clients = {c1, c2}
  Roles = {"default"}
  MaxFaults = 1
INVARIANT ManagedExist
PROPERTIES UsersKept CredentialsStay CredentialsConverge RemovedGone
CHECK_DEADLOCK FALSE
