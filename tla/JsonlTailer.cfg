SPECIFICATION FairSpec
CONSTANTS
  MaxLines = 2
  ReadExisting = FALSE
  LineBound = 3
  GenBound = 1
  RestartBound = 1
INVARIANTS
  TypeOK
  InFileOrder
  OnlyTornLinesLost
PROPERTIES
  CatchesUp
