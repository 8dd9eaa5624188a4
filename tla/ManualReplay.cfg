SPECIFICATION Spec
CONSTANTS
  Person = {anna, shooter}
  SourceId = shooter
  Nobody = nobody
  Clicks = {anna, nobody}
  Enabled = TRUE
  Dedup = 2
  Second = 1
  MaxLines = 1
  ReadExisting = FALSE
  CommandBound = 2
  ClockBound = 3
  ControlBound = 1
  FaultBound = 1
  RestartBound = 1
INVARIANT
  OneHitPerClick
CHECK_DEADLOCK FALSE
