SPECIFICATION TracksFairSpec
CONSTANTS
  MissGrace = 0
  LostAfter = 0
  PublishLost = 0
  Lock = 2
  Reid = 1
  Hold = 2
  Retire = 2
  Cap = 3
  CandidateTtl = 0
  Bootstrap = 1
  BootMax = 1
  BirthConfirm = 2
  Confirm = 2
  MinHits = 2
  GidBound = 2
  PersonBound = 2
INVARIANTS
  OnlyDuplicatesReturn
  BootstrapBounded
PROPERTIES
  LeavesOnlyAfterHold
  GhostsVanish
