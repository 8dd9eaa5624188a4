SPECIFICATION Spec
CONSTANTS
  Event <- TwoCameras
  NoId = ""
  Modes = {"publish", "shadow"}
  HitSource = "all"
  ForceSource <- Unset
  VirtualId = 9
  TtlArg = 0
  Second = 1
  Backoff = 1
  PurgeMax = 1
  MaxLines = 2
  ReadExisting = FALSE
  ShadowPresence = FALSE
  TornWrites = TRUE
  EventBound = 3
  ClockBound = 2
  ControlBound = 1
  FaultBound = 1
  RestartBound = 1
  DisturbBound = 1
INVARIANTS
  TypeOK
  NoRepeatWithinTtl
  InboxAgreesWithLog
PROPERTIES
  ImplementsOutlet
CHECK_DEADLOCK FALSE
