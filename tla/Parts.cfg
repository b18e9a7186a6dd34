CONSTANTS
  Parts = {"commands", "audits", "budgets", "datasets", "campaign", "inspect", "results", "sampling"}
  \* Commands
  Processes = {p1, p2}
  Runs <- MCRuns
  Kind <- MCKind
  Source <- MCSource
  Selected <- MCSelected
  Cases = {"c1", "c2"}
  NeedsJudge = {"c1"}
  Stage = "publication"
  MaxRequests = 3
  MaxJudge = 2
  MaxRetries = 0
  MaxAborts = 1
  None = None
  \* Audits
  Auditors = {a1, a2}
  MaxTokens = 3
  LoginWorks = TRUE
  MaxAudits = 1
  \* Budgets
  Workers = {w1, w2}
  BudgetIds = {"b"}
  RequestIds = {"q1", "q2", "q3"}
  EventIds = {"e1", "e2"}
  Amounts = {0, 1, 2}
  NoWorker = NoWorker
  NoAmount <- MCNoAmount
  \* Datasets
  Shells = {s1, s2}
  CaseFile = "cases"
  Resources <- MCResources
  RecordsMatch = TRUE
  Verified = TRUE
  MaxDeaths = 1
  MaxCommands = 3
  \* Campaign
  TargetIds = {"t1"}
  Connections <- MCConnections
  Requests <- MCRequests
  Versions = {"v1", "v2"}
  First = {"v1"}
  Size <- MCSize
  Suites = {"tau2", "swebench"}
  MaxFreezes = 1
  MaxEdits = 2
  MaxRuns = 1
  Nothing = Nothing
  \* InspectReport
  Fixed = {"A", "B"}
  Fusion = {"F"}
  Samples = {1, 2}
  Ends <- MCEnds
  Took <- MCTook
  Lasted <- MCLasted
  Price <- MCPrice
  Strays <- MCStrays
  VariantOrder <- MCVariantOrder
  NoValue = NoValue
  \* ConsoleResults
  CaseIds = {"c1", "c2"}
  InstructionsOf <- MCInstructionsOf
  Whole = "whole"
  Texts = {"whole", "revised"}
  Answers <- MCAnswers
  RequestsOf <- MCRequestsOf
  Unpriced = Unpriced
  Cost <- MCCost
  Absent = Absent
  \* Sampling
  PackRows <- MCPackRows
  SuiteList <- MCSuiteList
  Translated = {"gpqa"}
  LabelRank <- MCLabelRank
  Sizes <- MCSizes
  NoLabel = NoLabel
  NoFile = NoFile
  MaxSamplings = 2
  MaxUses = 1
SPECIFICATION PartsSpec
INVARIANTS
  JudgedWithinPlan
  
  RecoveryKeepsWork
  AuditsAreJustified
  ReservationsHold
  CachesAreHonest
  FrozenPlansAreKept
  
  ConsoleAddsUp
  SamplesAreSound
CHECK_DEADLOCK FALSE
