CONSTANTS
  a = a
  Instances = {a, b}
  None = None
  c1 = c1
  c2 = c2
  Calls = {c1, c2}
  Workloads <- MCWorkloads
  Launched <- MCLaunched
  MaxConns = 2
SPECIFICATION FairSpec
INVARIANT Consistent
INVARIANT ServesDialledLast
PROPERTY CallsEnd
CHECK_DEADLOCK FALSE
