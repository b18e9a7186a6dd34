CONSTANTS
  Requests = {"r1", "r2", "r3"}
  Receipts = {"r1", "r2", "r3", "q1"}
  Episodes = {"e1", "e2"}
  Tested = "e1"
  Absent = Absent
  None = None
  Body <- MCBody
  Config <- MCConfig
  Charge <- MCCharge
  Earlier <- MCEarlier
  MaxCreated = 1
  MaxCrashes = 1
SPECIFICATION Spec
INVARIANTS
  ReservedWithinBudget
  SentIsOnDisk
  ShownCostIsCharged
PROPERTIES
  ReceivedIsFinal
  RequestsEnd
  ReceiptsAreFinal
CHECK_DEADLOCK FALSE
