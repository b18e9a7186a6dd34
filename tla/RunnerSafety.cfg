CONSTANTS
  Cases = {1, 2, 3}
  Specs <- RivalSpecs
  LegacyCases = {3}
  None = None
  FaultModels <- EveryFault
  MaxLaunches = 2
SPECIFICATION Spec
INVARIANTS
  TypeOK
  RequestCap
  FreshReservation
  AttemptsPerCase
  SettledRowIsLastAttempt
  ClosedMeansSettled
  RecordedCostOvershoot
  ScoringSerialized
PROPERTIES
  SettledIsFinal
  ImplementsRequestBudget
CHECK_DEADLOCK FALSE
