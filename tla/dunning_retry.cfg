SPECIFICATION Spec
CONSTANTS
  Subs = {s1, s2}
  Runs = {r1, r2}
  NMIClients = {"mobius"}
  MaxRetries = 5
  MaxFaults = 1
PROPERTIES
  DueIsRetried
CHECK_DEADLOCK FALSE
