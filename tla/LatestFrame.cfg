SPECIFICATION FairSpec
CONSTANTS
  MaxRetries = 2
  Gen = {1, 2}
  FrameBound = 3
INVARIANTS
  TornOnlyIfLapped
PROPERTIES
  DeliversNewer
  CatchesUp
CHECK_DEADLOCK FALSE
