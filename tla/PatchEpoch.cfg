SPECIFICATION Spec
CONSTANTS
  Files = {tpl, song}
  Template = tpl
  NoPath = NoPath
  MaxId = 3
  MaxActions = 1
  MaxGeneration = 1
  MaxEpoch = 3
INVARIANT Consistent
INVARIANT OwnReplacementsRefuse
PROPERTY PollNeverInvents
PROPERTY UnrelatedPatchNoticed
CHECK_DEADLOCK FALSE
