SPECIFICATION Spec
CONSTANTS
  e1 = e1
  e2 = e2
  v1 = v1
  Exporters = {e1, e2}
  Verifiers = {v1}
  Version <- Mixed
  MaxFaults = 1
  MaxTrouble = 2
  Dest = Dest
  None = None
INVARIANTS
  ExportInv
  VerificationIsHonest
  StableBundleIsAccepted
  FailedLeavesNothing
  ExactlyOneExport
PROPERTIES
  ImplementsLedger
CHECK_DEADLOCK FALSE
