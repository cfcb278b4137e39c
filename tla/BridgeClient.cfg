SPECIFICATION BridgeFairSpec
CONSTANTS
  RequestIds = {r1, r2, r3}
  MaxDown = 3
INVARIANT BridgeConsistent
PROPERTY CallsSettledOnce
PROPERTY PromisesSettle
CHECK_DEADLOCK FALSE
