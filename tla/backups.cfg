SPECIFICATION FairSpec
CONSTANTS
  u1 = u1
  u2 = u2
  Units = {u1, u2}
  FirstLeader = u1
  Options = {"bucket", "keys"}
  Starts <- MCStarts
INVARIANT WholeConfig
PROPERTIES Resynced AgentsFollow PasswordKept
CHECK_DEADLOCK FALSE
