SPECIFICATION FairSpec
CONSTANTS
  MaxSessions = 2
  MaxStops = 1
  MaxConnections = 2
  MaxUnauth = 1
  HandshakeTimeout = 1
  FlushWait = 1
  OutboundCap = 1
  Handles = {1, 2}
INVARIANT Consistent
PROPERTY WritersGetTheirSecond
PROPERTY SlotsComeBack
PROPERTY StopCompletes
CHECK_DEADLOCK FALSE
