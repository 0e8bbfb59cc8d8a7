SPECIFICATION Spec
CONSTANTS
  r1 = r1
  r2 = r2
  None = None
  NoBudget = NoBudget
  Runners = {r1, r2}
  CandidateCount = 3
  PolicyId = "information_gain_table"
  PickIndex <- MCPickLast
  Utility <- MCUtility
  Prior <- MCPrior
  Likelihood <- MCLikelihood
  Thresholds <- MCThresholds
  MaxWeight = 8
  Gain <- MCGain
  CountBudget = 3
  CostBudget = 5
  Values = {0, 1}
  Costs = {2}
  Calls = {"trace", "resume", "experiment"}
  AdapterMayFail = TRUE
  RetryInPlace = TRUE
  MaxCrashes = 1
  SignificandBits = 12
INVARIANTS
  RunnerInv
  PersistedIsReconstructible
