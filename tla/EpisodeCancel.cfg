CONSTANTS
  Interrupts = {"cancel"}
  DockerHangs = FALSE
  MaxRequests = 2
  None = None
SPECIFICATION Spec
INVARIANTS
  ContainersRemoved
CHECK_DEADLOCK FALSE
