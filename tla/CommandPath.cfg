SPECIFICATION FairSpec
CONSTANTS
  MaxConns = 2
  MaxReqs = 2
  MaxGrants = 2
  MaxResets = 1
  MaxTime = 1
  LeaseTtl = 1
  Deadline = 0
  QueueCap = 1
INVARIANT Consistent
INVARIANT LeaseHolderLive
INVARIANT MutationsComeFromPairedPeers
PROPERTY WriterTenures
PROPERTY RequestsResolve
PROPERTY ResetCompletes
CHECK_DEADLOCK FALSE
