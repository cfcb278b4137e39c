SPECIFICATION Spec
CONSTANTS
  Calls = {c1, c2}
  Mixes = {{"load"}}
  Ops = {o1, o2}
  Plans = {h}
  Contents = {A, B}
  MaxNames = 2
  MaxCalls = 1
  MaxTokens = 1
  MaxOpens = 1
  None = None
PROPERTY NothingLostUncopied
CHECK_DEADLOCK FALSE
