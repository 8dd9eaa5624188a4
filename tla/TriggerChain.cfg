SPECIFICATION FairSpec
CONSTANTS
  Camera = {left}
  QueueMax = 2
  ClockBound = 6
  Period = 1
  Lead = 1
  Resync = 1
  StartDelay = 1
  TickBound = 5
  StartBound = 2
  LateDrop = 0
  PendingMax = 2
  LostBound = 2
INVARIANTS
  LabelRight
PROPERTIES
  FiresKeepPace
  LagNeverHeals
  LabelsIncrease
  SendsEnd
CHECK_DEADLOCK FALSE
