CONSTANTS
  Requests = {"r1"}
  Receipts = {"r1", "q1"}
  Episodes = {"e1", "e2"}
  Tested = "e1"
  Absent = Absent
  None = None
  Body <- MCBody
  Config <- MCConfig
  Charge <- MCCharge
  Earlier <- MCEarlier
  MaxCreated = 1
  MaxCrashes = 1
SPECIFICATION Spec
INVARIANTS
  LoopLives
CHECK_DEADLOCK FALSE
