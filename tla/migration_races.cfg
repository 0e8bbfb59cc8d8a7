SPECIFICATION FairSpec
CONSTANTS
  o1 = o1
  o2 = o2
  None = None
  Openers = {o1, o2}
  MaxFailures = 2
  Latest = 6
  Objects <- MCObjects
  Names <- MCNames
  Introduced <- MCIntroduced
  Origins <- MCOrigins
INVARIANTS
  MigrationInv
PROPERTIES
  ClimbsTheLadder
  EveryOpenerInitialized
