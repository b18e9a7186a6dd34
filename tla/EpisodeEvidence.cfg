CONSTANTS
  Interrupts = {"deadline"}
  DockerHangs = FALSE
  MaxRequests = 2
  None = None
SPECIFICATION Spec
INVARIANTS
  EvidenceKept
CHECK_DEADLOCK FALSE
