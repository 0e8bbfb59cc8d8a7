SPECIFICATION Spec
CONSTANTS
  r1 = r1
  r2 = r2
  Replayers = {r1, r2}
  Assignments <- Pairs
  Given = {TRUE, FALSE}
  MaxFaults = 2
  MaxTrouble = 2
  None = None
INVARIANTS
  ReplayInv
  OneReplaySucceeds
  FailedReplayLeavesNothing
PROPERTIES
  ForeignFilesStay
  ImplementsLedger
CHECK_DEADLOCK FALSE
