SPECIFICATION FairSpec
CONSTANTS
  r1 = r1
  r2 = r2
  None = None
  NoBudget = NoBudget
  Runners = {r1, r2}
  CandidateCount = 3
  PolicyId = "random"
  PickIndex <- MCPickLast
  Utility <- MCUtility
  Prior <- MCPrior
  Likelihood <- MCLikelihood
  Thresholds <- MCThresholds
  MaxWeight = 8
  Gain <- MCGain
  CountBudget = 3
  CostBudget = NoBudget
  Values = {0}
  Costs = {1}
  Calls = {"trace", "resume"}
  AdapterMayFail = FALSE
  RetryInPlace = FALSE
  MaxCrashes = 1
  SignificandBits = 12
PROPERTIES
  ImplementsPromise
  EveryCallerAnswered
