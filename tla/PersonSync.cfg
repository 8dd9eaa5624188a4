SPECIFICATION SyncFairSpec
CONSTANTS
  Camera = {1, 2}
  SyncDelay = 1
  MaxLines = 2
  MaxFlush = 1
  SyncBound = 2
  LineBound = 3
  FaultBound = 1
INVARIANTS
  OrderedUnlessLate
  Accounted
PROPERTIES
  ReadyIsFlushed
CHECK_DEADLOCK FALSE
