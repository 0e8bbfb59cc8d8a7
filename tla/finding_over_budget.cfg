SPECIFICATION Spec
CONSTANTS
  r1 = r1
  r2 = r2
  None = None
  NoBudget = NoBudget
  Runners = {r1}
  CandidateCount = 4
  PolicyId = "greedy_prior"
  PickIndex <- MCPickLast
  Utility <- MCUtility
  Prior <- MCPrior
  Likelihood <- MCLikelihood
  Thresholds <- MCThresholds
  MaxWeight = 8
  Gain <- MCGain
  CountBudget = 4
  CostBudget = 16
  Values = {0}
  Costs = {2, 5, 6}
  Calls = {"trace", "resume"}
  AdapterMayFail = FALSE
  RetryInPlace = FALSE
  MaxCrashes = 0
  SignificandBits = 3
INVARIANT
  PersistedWithinCostBudget
