SPECIFICATION FairSpec
CONSTANTS
  Person = {1}
  Lid = {1}
  Shot = {"s1", "s2"}
  EventId = {7}
  Slot = {1, 9}
  Reserved = 9
  Tracks <- Handover
  Candidate <- Clear
  Direct = TRUE
  BevDisplay = TRUE
  DefaultSource = 99
  MaxSyncDelta = 1
  SpatialSyncDelta = 1
  SpatialFallback = FALSE
  StableIdFallback = FALSE
  HistoryAge = 1
  DisplayAge = 1
  MaxSnapshots = 2
  MaxDisplays = 2
  Ttl = 1
  PurgeMax = 1024
  MaxLines = 1
  ReadExisting = FALSE
  SyncBound = 0
  PublishBound = 0
  ShowBound = 2
  LineBound = 2
  ClockBound = 2
  RestartBound = 1
INVARIANTS
  HitHiddenOnlyByHit
  SlotWasShown
PROPERTIES
  ImplementsOutlet
  EveryCandidateAnswered
CHECK_DEADLOCK FALSE
