CONSTANTS
  live = live
  smoke = smoke
  other = other
  j1 = j1
  j2 = j2
  c1 = c1
  c2 = c2
  Runs <- ThreeRuns
  LiveRuns = {live}
  Workload <- OneEpisodeEach
  MaxActive = 2
  GlobalLimit = 1
  MaxJobs = 1
  PerJob = 2
  MaxEpisodes = 2
  MaxCrashes = 0
SPECIFICATION FairSpec
INVARIANTS
  ActiveLimit
PROPERTIES
  
  CancelAnswered
CHECK_DEADLOCK FALSE
