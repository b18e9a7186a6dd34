CONSTANTS
  Cases = {1, 2}
  Specs <- TightAndAmpleSpecs
  LegacyCases = {}
  None = None
  FaultModels <- EveryOrNoneFatal
  MaxLaunches = 2
SPECIFICATION FairSpec
PROPERTIES
  ProcessEnds
  LaunchSettlesRun
CHECK_DEADLOCK FALSE
