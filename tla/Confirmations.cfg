SPECIFICATION Spec
CONSTANTS
  Calls = {c1, c2}
  Mixes = {{"commit", "checkpoint"}, {"load", "checkpoint"}}
  Ops = {o1, o2}
  Plans = {h}
  Contents = {A, B}
  MaxNames = 2
  MaxCalls = 2
  MaxTokens = 2
  MaxOpens = 1
  None = None
SYMMETRY Symmetry
INVARIANT Consistent
PROPERTY ReplacesWhatWasConfirmed
PROPERTY RecoveryCopyHoldsLoss
PROPERTY CommitsWhatWasPreviewed
CHECK_DEADLOCK FALSE
