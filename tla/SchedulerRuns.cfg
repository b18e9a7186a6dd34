CONSTANTS
  live = live
  smoke = smoke
  other = other
  j1 = j1
  j2 = j2
  c1 = c1
  c2 = c2
  Runs <- TwoRuns
  LiveRuns = {live}
  Workload <- LiveAndSmoke
  MaxActive = 2
  GlobalLimit = 2
  MaxJobs = 1
  PerJob = 2
  MaxEpisodes = 2
  MaxCrashes = 1
SPECIFICATION Spec
INVARIANTS
  ActiveIsOwned
  FinalRunsAreQuiet
  FinalIsDurable
  ExecutedIsRecorded
PROPERTIES
  ImplementsRunLifecycle
CHECK_DEADLOCK FALSE
