SPECIFICATION FairSpec
CONSTANTS
  Person = {anna, shooter}
  SourceId = shooter
  Nobody = nobody
  Clicks = {nobody}
  Enabled = TRUE
  Dedup = 2
  Second = 1
  MaxLines = 2
  ReadExisting = FALSE
  CommandBound = 3
  ClockBound = 3
  ControlBound = 1
  FaultBound = 2
  RestartBound = 1
INVARIANTS
  CooldownKept
  RepeatedOnlyAfterCut
  ConfirmationsAgree
PROPERTIES
  ImplementsOutlet
  EveryClickAnswered
CHECK_DEADLOCK FALSE
