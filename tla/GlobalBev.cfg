SPECIFICATION Spec
CONSTANTS
  Camera = {"A", "B"}
  Order <- AB
  Ticks <- SkipsOne
  Mortal = {"B"}
  FileBound = 1
  Slots = 2
  Delay = 1
  MaxDelta = 1
  Early = {"A"}
  Retries = 2
INVARIANTS
  TypeOK
  NeverTorn
  ShownAsNamed
  NoneStarves
PROPERTIES
  TimeGoesOn
CHECK_DEADLOCK FALSE
