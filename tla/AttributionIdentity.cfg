SPECIFICATION Spec
CONSTANTS
  Person = {1, 2}
  Lid = {1}
  Shot = {"s1", "s2"}
  EventId = {}
  Slot = {}
  Reserved = 9
  Tracks <- StaleHandover
  Candidate <- LookedUp
  Direct = FALSE
  BevDisplay = FALSE
  DefaultSource = 99
  MaxSyncDelta = 1
  SpatialSyncDelta = 1
  SpatialFallback = TRUE
  StableIdFallback = TRUE
  HistoryAge = 1
  DisplayAge = 1
  MaxSnapshots = 2
  MaxDisplays = 2
  Ttl = 1
  PurgeMax = 1024
  MaxLines = 1
  ReadExisting = FALSE
  SyncBound = 2
  PublishBound = 2
  ShowBound = 0
  LineBound = 1
  ClockBound = 2
  RestartBound = 0
INVARIANTS
  TypeOK
  ExactFrameDecides
  CurrentOnlyOutOfReach
CHECK_DEADLOCK FALSE
