SPECIFICATION FairPeerSpec
CONSTANTS
  Event <- TwoCameras
  NoId = ""
  Modes = {"publish"}
  HitSource = "all"
  ForceSource <- Unset
  VirtualId = 9
  TtlArg = 0
  Second = 1
  Backoff = 1
  PurgeMax = 1
  MaxLines = 2
  ReadExisting = FALSE
  ShadowPresence = TRUE
  TornWrites = FALSE
  EventBound = 1
  ClockBound = 2
  ControlBound = 0
  FaultBound = 1
  RestartBound = 0
  DisturbBound = 1
PROPERTIES
  PublishableReachesManager
CHECK_DEADLOCK FALSE
