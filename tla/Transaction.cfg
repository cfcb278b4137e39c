SPECIFICATION TxnSpec
CONSTANTS
  Given = {m1}
  Fresh = {n1}
  MaxEvents = 2
  MaxOperations = 2
  MaxHistory = 1
INVARIANTS
  TxnConsistent
PROPERTIES
  UnflaggedFailureChangedNothing
  UndoLastRestores
