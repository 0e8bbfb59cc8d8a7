SPECIFICATION FairSpec
CONSTANTS
  Candidates <- MCCandidates
  Design <- MCDesign
  Cost <- MCCost
  Grain = 1000
  RoundingError <- MCRoundingError
  Tolerance = 100
  Outcomes <- MCOutcomes
  Sigmas = {"fixed", "wide"}
  Likelihood <- MCLikelihood
  Scale = 8
  Entropy <- MCEntropy
  ArmIds = {"l1", "l2", "lf", "if", "ic"}
  ArmSpec <- MCArmSpec
  OutcomeTables <- MCOutcomeTables
  BinOf <- MCBinOf
  CalibrationEffects <- MCCalibrationEffects
  MinimumPriorEffects = 2
  FixedSigma = "fixed"
  SigmaLevel <- MCSigmaLevel
  IsOutlier <- MCIsOutlier
  IsTail <- MCIsTail
  AlarmWindow = 1
  AlarmCount = 2
  MinimumResiduals = 2
  None = None
INVARIANTS
  BeliefInv
  PlanIsBest
  SigmaUsesOnlyThePast
  ArmsAreIsolated
  StopIsTrue
PROPERTIES
  PlanIsKept
  PromisedSigma
  EveryArmFinishes
