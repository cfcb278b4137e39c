CONSTANTS
  Limit = 2
  Window = 2
  MaxTime = 2
  Sizes = {1, 2}
  MaxBytes = 2
  CheckBytes = 2
  TailBytes = 3
  Want = 1
  Calls = {c1, c2}
  Changes = {0, 1, 2}
  MaxCalls = 3
SYMMETRY Symmetry
SPECIFICATION Spec
INVARIANT Consistent
INVARIANT NoBurst
INVARIANT AnswersTruly
CHECK_DEADLOCK FALSE
