SPECIFICATION FairSpec
CONSTANTS
  obs = obs
  junk = junk
  foreign = foreign
  Lines = {obs, junk, foreign}
  Kind <- MCKind
  Invocations <- MCInvocations
  Places <- MCPlaces
  ChildWrites = 2
  LateWrites = 1
  MaxInterrupts = 2
  None = None
INVARIANTS
  ChildInv
  AccountsForTheChild
PROPERTIES
  EvaluateAnswers
  TimedOutChildGoes
  ImplementsContract
CHECK_DEADLOCK FALSE
