SPECIFICATION Spec
CONSTANTS
  a = a
  b = b
  c = c
  Units = {a, b, c}
  Founders = {a, b}
  Nobody = nobody
  MaxRemovals = 1
  MaxElections = 1
  MaxFailures = 1
INVARIANT OneJoining
PROPERTIES OnlyLeaversRemoved ConfigChangesSafely MajoritiesMeet
CHECK_DEADLOCK FALSE
