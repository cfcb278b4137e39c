SPECIFICATION LiveSpec
CONSTANTS
  Procs = {p1, p2}
  Ports = {k1, k2}
  MaxSecrets = 2
  None = None
INVARIANT Consistent
INVARIANT AdvertisesTruly
INVARIANT ServesWhatItWrote
PROPERTY RePairs
CHECK_DEADLOCK FALSE
