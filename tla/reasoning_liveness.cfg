SPECIFICATION FairSpec
CONSTANTS
  N = 2
  Processes = {p1, p2}
  Commands = {"random"}
  Rank <- MCRank
  Limits <- MCAll
  Conclusive <- MCConclusive
  MaxCalls = 0
  MaxFailures = 1
  Unlimited = TRUE
  None = None
PROPERTIES
  EveryPairApplied
CHECK_DEADLOCK FALSE
