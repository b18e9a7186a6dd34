CONSTANTS
  Interrupts = {"deadline", "cancel"}
  DockerHangs = TRUE
  MaxRequests = 2
  None = None
SPECIFICATION FairSpec
INVARIANTS
  SpendingIsKnown
  ScoredHasEvidence
  CleanWhenUndisturbed
PROPERTIES
  EpisodeEnds
CHECK_DEADLOCK FALSE
