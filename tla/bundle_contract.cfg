SPECIFICATION Spec
CONSTANTS
  None = None
  Forged = Forged
  Refused = Refused
  NoBudget = NoBudget
  CandidateCount = 3
  PicksOf <- MCPicksOf
  Utility <- MCUtility
  Prior <- MCPrior
  Likelihood <- MCLikelihood
  Thresholds <- MCThresholds
  MaxWeight = 8
  Gain <- MCGain
  SignificandBits = 12
  Values = {0, 1}
  Costs = {1, 2}
  Specs <- MCSpecs
  MaxEdits = 1
INVARIANTS
  EveryTraceExports
  ExportedIsGenuine
  AcceptedIsGenuine
  ReplayAgrees
  ReplayedRunResumes
CHECK_DEADLOCK FALSE
