SPECIFICATION Spec
CONSTANTS
  N = 2
  Processes = {p1, p2}
  Commands = {"gain", "random"}
  Rank <- MCRank
  Limits <- MCLimits
  Conclusive <- MCConclusive
  MaxCalls = 4
  MaxFailures = 0
  Unlimited = FALSE
  None = None
SYMMETRY Symmetry
INVARIANTS
  SuggestionIsUnspent
  HeldBeliefsAreAncestors
PROPERTIES
  ImplementsLedger
CHECK_DEADLOCK FALSE
