SPECIFICATION Spec
CONSTANTS
  NArch = 1
  WordMod = 64
  ByteMod = 2
  PredictorConfigs <- TwoPredictors
  BitXor <- XorOp
  BitAnd <- AndOp
  Pcs <- BranchPcs
  Targets <- GoesTo
  MaxAsked = 2
  MaxLookups = 5
  MaxUpdates = 5
CHECK_DEADLOCK FALSE
INVARIANTS
  PredictorTypeOK
  PredictionsAllowed
  TwoOutcomesSettle
  StatisticsAgree
  KeepsRecentBranches
