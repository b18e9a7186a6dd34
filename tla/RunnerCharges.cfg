CONSTANTS
  Cases = {1}
  Specs <- FrugalSpecs
  LegacyCases = {}
  None = None
  FaultModels <- OnlyJudgeFails
  MaxLaunches = 1
SPECIFICATION Spec
INVARIANT ChargesWithinMaxUsd
CHECK_DEADLOCK FALSE
