---------------------------- MODULE EpisodeProofs ----------------------------
(***************************************************************************)
(* Theorems about Episode, for every number of requests, whichever         *)
(* interrupts may arrive and whether docker may hang or not.               *)
(***************************************************************************)
EXTENDS Episode, TLAPS

(***************************************************************************)
(* The inductive invariant, in named parts.                                *)
(***************************************************************************)
Body == Setup \cup {"acp"}

\* The set-up commands are given one after the other, each when the one before it
\* has succeeded.
SetupInOrder ==
  /\ command["relay"] # "idle"   => command["network"] = "ok"
  /\ command["connect"] # "idle" => command["relay"] = "ok"
  /\ command["tools"] # "idle"   => command["connect"] = "ok"
  /\ command["agent"] # "idle"   => command["tools"] = "ok"
  /\ pc \in DOMAIN After => command[After[pc]] = "idle"
  /\ pc \in Setup => command[pc] # "idle"
  /\ pc = "acp" => command["agent"] # "idle"

\* The cleanup commands come after the body, in their order.
CleanupInOrder ==
  /\ pc \in Body => /\ \A c \in Cleanup : command[c] = "idle"
                    /\ evidence = None /\ outcome = "open"
  /\ pc \notin Body => command["rm"] # "idle" /\ outcome # "open"
  /\ pc = "rm" => command["close"] = "idle" /\ command["netrm"] = "idle"
  /\ pc = "close" => command["netrm"] = "idle" /\ tau /\ command["rm"] # "pending"
  /\ pc \in {"netrm", "grade"} => command["netrm"] # "idle"
  /\ command["netrm"] = "idle" => evidence = None

\* What exists has been started, and the relay writes its ledger when it starts.
DockerShape ==
  /\ \A c \in Containers : c \in docker => command[c] = "ok"
  /\ "network" \in docker => command["network"] = "ok"
  /\ ledger # None => command["relay"] = "ok"
  /\ "relay" \in docker => ledger # None
  /\ answered => command["relay"] = "ok"

\* Once the containers have been removed there is an agent or a relay, if at all,
\* never both.
NoMoreSpending ==
  command["rm"] = "ok" /\ "relay" \in docker => command["agent"] = "idle"

\* What the copy knows, if the removal was not given up.
EvidenceShape ==
  ~hung =>
    /\ command["rm"] # "failed"
    /\ command["netrm"] # "idle" =>
         command["rm"] = "ok" /\ Requests(evidence) = Requests(ledger)

\* An answer is followed by the copy of the ledger that showed it.
OutcomeShape ==
  /\ outcome \in {"answer", "scored"} => answered
  /\ outcome = "answer" => pc \in Cleanup \cup {"grade"}
  /\ outcome = "scored" => pc \in {"record", "recorded"} /\ command["netrm"] # "idle"
  /\ pc = "grade" => outcome = "answer"
  /\ command["netrm"] # "idle" /\ outcome \in {"answer", "scored"} => Requests(evidence) > 0

ResultShape ==
  pc = "recorded" =>
    result = [status |-> IF outcome = "scored" THEN "scored" ELSE "system_failed",
              requests |-> evidence]

\* How far an undisturbed cleanup has got.
Undisturbed == fired = {} /\ ~hung

CleanupShape ==
  Undisturbed =>
    /\ pc \notin Body => \A c \in Setup : command[c] # "pending"
    /\ \A c \in Cleanup : command[c] # "failed"
    /\ command["rm"] = "ok" =>
         docker \cap (IF tau THEN {"relay", "agent"} ELSE Containers) = {}
    /\ command["close"] = "ok" => "tools" \notin docker
    /\ command["netrm"] # "idle" => docker \cap Containers = {}
    /\ command["netrm"] = "ok" => docker = {}
    /\ pc \in {"grade", "record", "recorded"} => command["netrm"] = "ok"

IInv ==
  /\ TypeOK
  /\ SetupInOrder
  /\ CleanupInOrder
  /\ DockerShape
  /\ NoMoreSpending
  /\ EvidenceShape
  /\ OutcomeShape
  /\ ResultShape
  /\ CleanupShape

-----------------------------------------------------------------------------
\* One lemma for each action.

LEMMA SetUpStep ==
  ASSUME IInv, NEW c \in Commands, SetUp(c)
  PROVE  IInv'
<1>. USE EpisodeAssumption DEF IInv
<1>1. TypeOK'
  BY DEF TypeOK, SetUp, Issue, After, Commands, Setup, InLiveEpisode
<1>2. SetupInOrder'
  BY DEF TypeOK, SetupInOrder, After, SetUp, Issue, Commands
<1>3. CleanupInOrder'
  BY DEF CleanupInOrder, SetUp, Issue, After, Setup, Cleanup, Body
<1>4. DockerShape'
  BY DEF DockerShape, SetupInOrder, SetUp, Issue
<1>5. NoMoreSpending'
  BY DEF NoMoreSpending, CleanupInOrder, SetUp, Issue, After, Commands, Cleanup, Body
<1>6. EvidenceShape'
  BY DEF EvidenceShape, SetUp, Issue, After
<1>7. OutcomeShape'
  BY DEF OutcomeShape, SetUp, Issue, After, Cleanup
<1>8. ResultShape'
  <2>1. pc' \in {"relay", "connect", "tools", "agent"}
    BY DEF SetUp, Issue, After
  <2>. QED
    BY <2>1 DEF ResultShape
<1>9. CleanupShape'
  BY DEF CleanupShape, Undisturbed, SetUp, Issue, After, Setup, Body
<1>. QED
  BY <1>1, <1>2, <1>3, <1>4, <1>5, <1>6, <1>7, <1>8, <1>9

LEMMA SetUpFailsStep ==
  ASSUME IInv, NEW c \in Commands, SetUpFails(c)
  PROVE  IInv'
<1>. USE EpisodeAssumption DEF IInv
<1>1. TypeOK'
  BY DEF TypeOK, SetUpFails, LeaveBody, Issue, Commands, Cleanup, InLiveEpisode
<1>2. SetupInOrder'
  BY DEF TypeOK, SetupInOrder, After, SetUpFails, LeaveBody, Issue, Commands
<1>3. CleanupInOrder'
  BY DEF TypeOK, CleanupInOrder, SetUpFails, LeaveBody, Issue, After, Commands, Setup,
         Cleanup, Body
<1>4. DockerShape'
  BY DEF DockerShape, SetUpFails, LeaveBody, Issue, Containers
<1>5. NoMoreSpending'
  BY DEF NoMoreSpending, SetUpFails, LeaveBody, Issue
<1>6. EvidenceShape'
  BY DEF TypeOK, EvidenceShape, CleanupInOrder, SetUpFails, LeaveBody, Issue, After,
         Commands, Setup, Body
<1>7. OutcomeShape'
  BY DEF OutcomeShape, SetUpFails, LeaveBody, Issue
<1>8. ResultShape'
  BY DEF ResultShape, SetUpFails, LeaveBody, Issue
<1>9. CleanupShape'
  BY DEF CleanupShape, Undisturbed, SetupInOrder, SetUpFails, LeaveBody, Issue, After, Setup
<1>. QED
  BY <1>1, <1>2, <1>3, <1>4, <1>5, <1>6, <1>7, <1>8, <1>9

LEMMA GiveUpStep ==
  ASSUME IInv, NEW c \in Commands, GiveUp(c)
  PROVE  IInv'
<1>. USE EpisodeAssumption DEF IInv
<1>1. TypeOK'
  <2>1. command' \in [Commands -> {"idle", "pending", "ok", "failed"}]
    BY DEF TypeOK, GiveUp, LeaveBody, Issue
  <2>2. pc' \in InLiveEpisode /\ outcome' \in {"open", "answer", "scored", "failed"}
    BY DEF TypeOK, GiveUp, LeaveBody, Issue, controllerVars, InLiveEpisode, Commands,
           Cleanup
  <2>3. UNCHANGED <<tau, evidence, fired, docker, ledger, answered, result>> /\ hung' = TRUE
    BY DEF GiveUp, LeaveBody, controllerVars
  <2>. QED
    BY <2>1, <2>2, <2>3 DEF TypeOK
<1>2. SetupInOrder'
  BY DEF TypeOK, SetupInOrder, After, GiveUp, LeaveBody, Issue, controllerVars, Commands,
         Setup
<1>3. CleanupInOrder'
  BY DEF TypeOK, CleanupInOrder, GiveUp, LeaveBody, Issue, controllerVars, Commands,
         Setup, Cleanup, Body
<1>4. DockerShape'
  BY DEF TypeOK, DockerShape, GiveUp, LeaveBody, Issue, Commands, Setup, Containers
<1>5. NoMoreSpending'
  BY DEF TypeOK, NoMoreSpending, GiveUp, LeaveBody, Issue, Commands, Setup, Cleanup
<1>6. EvidenceShape'
  BY DEF EvidenceShape, GiveUp
<1>7. OutcomeShape'
  BY DEF TypeOK, OutcomeShape, GiveUp, LeaveBody, Issue, controllerVars, Commands, Cleanup
<1>8. ResultShape'
  BY DEF ResultShape, GiveUp, LeaveBody, Issue, controllerVars
<1>9. CleanupShape'
  BY DEF CleanupShape, Undisturbed, GiveUp
<1>. QED
  BY <1>1, <1>2, <1>3, <1>4, <1>5, <1>6, <1>7, <1>8, <1>9

LEMMA SpawnAgentStep ==
  ASSUME IInv, SpawnAgent
  PROVE  IInv'
<1>. USE EpisodeAssumption DEF IInv
<1>1. TypeOK'
  BY DEF TypeOK, SpawnAgent, InLiveEpisode
<1>2. SetupInOrder'
  BY DEF SetupInOrder, After, SpawnAgent, Setup
<1>3. CleanupInOrder'
  BY DEF CleanupInOrder, SpawnAgent, Setup, Body
<1>4. DockerShape'
  BY DEF DockerShape, SpawnAgent
<1>5. NoMoreSpending'
  BY DEF NoMoreSpending, SpawnAgent
<1>6. EvidenceShape'
  BY DEF EvidenceShape, SpawnAgent
<1>7. OutcomeShape'
  BY DEF OutcomeShape, SpawnAgent, Cleanup
<1>8. ResultShape'
  BY DEF ResultShape, SpawnAgent
<1>9. CleanupShape'
  BY DEF CleanupShape, Undisturbed, SpawnAgent, Body
<1>. QED
  BY <1>1, <1>2, <1>3, <1>4, <1>5, <1>6, <1>7, <1>8, <1>9

LEMMA TakeAnswerStep ==
  ASSUME IInv, TakeAnswer
  PROVE  IInv'
<1>. USE EpisodeAssumption DEF IInv
<1>1. TypeOK'
  BY DEF TypeOK, TakeAnswer, LeaveBody, Issue, Commands, Cleanup, InLiveEpisode
<1>2. SetupInOrder'
  BY DEF TypeOK, SetupInOrder, After, TakeAnswer, LeaveBody, Issue, Commands
<1>3. CleanupInOrder'
  BY DEF TypeOK, CleanupInOrder, TakeAnswer, LeaveBody, Issue, Commands, Setup, Cleanup,
         Body
<1>4. DockerShape'
  BY DEF DockerShape, TakeAnswer, LeaveBody, Issue, Containers
<1>5. NoMoreSpending'
  BY DEF NoMoreSpending, TakeAnswer, LeaveBody, Issue
<1>6. EvidenceShape'
  BY DEF TypeOK, EvidenceShape, CleanupInOrder, Requests, TakeAnswer, LeaveBody, Issue, Body
<1>7. OutcomeShape'
  BY DEF OutcomeShape, CleanupInOrder, TakeAnswer, LeaveBody, Issue, Cleanup, Body
<1>8. ResultShape'
  BY DEF ResultShape, TakeAnswer, LeaveBody, Issue
<1>9. CleanupShape'
  BY DEF TypeOK, CleanupShape, Undisturbed, DockerShape, SetupInOrder, TakeAnswer,
         LeaveBody, Issue, Setup
<1>. QED
  BY <1>1, <1>2, <1>3, <1>4, <1>5, <1>6, <1>7, <1>8, <1>9

LEMMA AcpFailsStep ==
  ASSUME IInv, AcpFails
  PROVE  IInv'
<1>. USE EpisodeAssumption DEF IInv
<1>1. TypeOK'
  BY DEF TypeOK, AcpFails, LeaveBody, Issue, Commands, Cleanup, InLiveEpisode
<1>2. SetupInOrder'
  BY DEF TypeOK, SetupInOrder, After, AcpFails, LeaveBody, Issue, Commands
<1>3. CleanupInOrder'
  BY DEF TypeOK, CleanupInOrder, AcpFails, LeaveBody, Issue, Commands, Setup, Cleanup, Body
<1>4. DockerShape'
  BY DEF DockerShape, AcpFails, LeaveBody, Issue, Containers
<1>5. NoMoreSpending'
  BY DEF NoMoreSpending, AcpFails, LeaveBody, Issue
<1>6. EvidenceShape'
  BY DEF TypeOK, EvidenceShape, CleanupInOrder, AcpFails, LeaveBody, Issue, Commands,
         Setup, Body
<1>7. OutcomeShape'
  BY DEF OutcomeShape, AcpFails, LeaveBody, Issue
<1>8. ResultShape'
  BY DEF ResultShape, AcpFails, LeaveBody, Issue
<1>9. CleanupShape'
  BY DEF CleanupShape, Undisturbed, SetupInOrder, AcpFails, LeaveBody, Issue, Setup
<1>. QED
  BY <1>1, <1>2, <1>3, <1>4, <1>5, <1>6, <1>7, <1>8, <1>9

LEMMA RemoveContainersStep ==
  ASSUME IInv, RemoveContainers
  PROVE  IInv'
<1>. USE EpisodeAssumption DEF IInv
<1>1. TypeOK'
  BY DEF TypeOK, RemoveContainers, Issue, Commands, Cleanup, InLiveEpisode
<1>2. SetupInOrder'
  BY DEF TypeOK, SetupInOrder, After, RemoveContainers, Issue, Commands, Setup
<1>3. CleanupInOrder'
  BY DEF TypeOK, CleanupInOrder, RemoveContainers, Over, Issue, Commands, Setup, Cleanup,
         Body
<1>4. DockerShape'
  BY DEF TypeOK, DockerShape, RemoveContainers, Issue, Commands, Setup, Containers
<1>5. NoMoreSpending'
  BY DEF TypeOK, NoMoreSpending, RemoveContainers, Issue, Commands, Setup, Cleanup
<1>6. EvidenceShape'
  <2>1. hung' = hung /\ ledger' = ledger
    BY DEF RemoveContainers
  <2>2. ~hung => command["rm"] = "ok"
    BY DEF RemoveContainers, Over, EvidenceShape
  <2>3. command'["rm"] = command["rm"]
    BY DEF TypeOK, RemoveContainers, Issue, Commands, Cleanup
  <2>4. CASE tau /\ command["tools"] # "idle"
    <3>1. command'["netrm"] = "idle"
      BY <2>4 DEF TypeOK, CleanupInOrder, RemoveContainers, Issue, Commands, Cleanup
    <3>. QED
      BY <2>1, <2>2, <2>3, <3>1 DEF EvidenceShape
  <2>5. CASE ~(tau /\ command["tools"] # "idle")
    <3>1. evidence' = ledger
      BY <2>5 DEF RemoveContainers
    <3>. QED
      BY <2>1, <2>2, <2>3, <3>1 DEF EvidenceShape, Requests
  <2>. QED
    BY <2>4, <2>5
<1>7. OutcomeShape'
  BY DEF TypeOK, OutcomeShape, Requests, RemoveContainers, Issue, Commands, Cleanup
<1>8. ResultShape'
  BY DEF ResultShape, RemoveContainers, Issue
<1>9. CleanupShape'
  BY DEF TypeOK, CleanupShape, Undisturbed, CleanupInOrder, DockerShape,
         RemoveContainers, Over, Issue, Commands, Setup, Cleanup, Containers
<1>. QED
  BY <1>1, <1>2, <1>3, <1>4, <1>5, <1>6, <1>7, <1>8, <1>9

LEMMA CloseTauStep ==
  ASSUME IInv, CloseTau
  PROVE  IInv'
<1>. USE EpisodeAssumption DEF IInv
<1>1. TypeOK'
  BY DEF TypeOK, CloseTau, Issue, Commands, Cleanup, InLiveEpisode
<1>2. SetupInOrder'
  BY DEF TypeOK, SetupInOrder, After, CloseTau, Issue, Commands
<1>3. CleanupInOrder'
  BY DEF TypeOK, CleanupInOrder, CloseTau, Issue, Commands, Setup, Cleanup, Body
<1>4. DockerShape'
  BY DEF DockerShape, CloseTau, Issue, Containers
<1>5. NoMoreSpending'
  BY DEF NoMoreSpending, CloseTau, Issue
<1>6. EvidenceShape'
  BY DEF TypeOK, EvidenceShape, CleanupInOrder, CloseTau, Over, Issue, Commands, Cleanup
<1>7. OutcomeShape'
  BY DEF TypeOK, OutcomeShape, Requests, CloseTau, Issue, Cleanup
<1>8. ResultShape'
  BY DEF ResultShape, CloseTau, Issue
<1>9. CleanupShape'
  BY DEF TypeOK, CleanupShape, Undisturbed, CleanupInOrder, CloseTau, Over, Issue,
         Commands, Setup, Cleanup, Containers
<1>. QED
  BY <1>1, <1>2, <1>3, <1>4, <1>5, <1>6, <1>7, <1>8, <1>9

LEMMA RemoveNetworkStep ==
  ASSUME IInv, RemoveNetwork
  PROVE  IInv'
<1>. USE EpisodeAssumption DEF IInv
<1>1. TypeOK'
  BY DEF TypeOK, RemoveNetwork
<1>2. SetupInOrder'
  BY DEF SetupInOrder, After, RemoveNetwork, Setup
<1>3. CleanupInOrder'
  BY DEF CleanupInOrder, RemoveNetwork, Setup, Body
<1>4. DockerShape'
  BY DEF DockerShape, RemoveNetwork
<1>5. NoMoreSpending'
  BY DEF NoMoreSpending, RemoveNetwork
<1>6. EvidenceShape'
  BY DEF EvidenceShape, RemoveNetwork
<1>7. OutcomeShape'
  BY DEF OutcomeShape, RemoveNetwork
<1>8. ResultShape'
  BY DEF ResultShape, RemoveNetwork
<1>9. CleanupShape'
  BY DEF CleanupShape, Undisturbed, CleanupInOrder, RemoveNetwork, Over, Cleanup
<1>. QED
  BY <1>1, <1>2, <1>3, <1>4, <1>5, <1>6, <1>7, <1>8, <1>9

LEMMA GradeStep ==
  ASSUME IInv, Grade
  PROVE  IInv'
<1>. USE EpisodeAssumption DEF IInv
<1>1. TypeOK'
  BY DEF TypeOK, Grade
<1>2. SetupInOrder'
  BY DEF SetupInOrder, After, Grade, Setup
<1>3. CleanupInOrder'
  BY DEF CleanupInOrder, Grade, Setup, Body
<1>4. DockerShape'
  BY DEF DockerShape, Grade
<1>5. NoMoreSpending'
  BY DEF NoMoreSpending, Grade
<1>6. EvidenceShape'
  BY DEF EvidenceShape, Grade
<1>7. OutcomeShape'
  BY DEF OutcomeShape, CleanupInOrder, Grade
<1>8. ResultShape'
  BY DEF ResultShape, Grade
<1>9. CleanupShape'
  BY DEF CleanupShape, Undisturbed, CleanupInOrder, Grade, Cleanup
<1>. QED
  BY <1>1, <1>2, <1>3, <1>4, <1>5, <1>6, <1>7, <1>8, <1>9

LEMMA RecordStep ==
  ASSUME IInv, Record
  PROVE  IInv'
<1>. USE EpisodeAssumption DEF IInv
<1>1. TypeOK'
  BY DEF TypeOK, Record
<1>2. SetupInOrder'
  BY DEF SetupInOrder, After, Record, Setup
<1>3. CleanupInOrder'
  BY DEF CleanupInOrder, Record, Setup, Body
<1>4. DockerShape'
  BY DEF DockerShape, Record
<1>5. NoMoreSpending'
  BY DEF NoMoreSpending, Record
<1>6. EvidenceShape'
  BY DEF EvidenceShape, Record
<1>7. OutcomeShape'
  BY DEF OutcomeShape, Record, Cleanup
<1>8. ResultShape'
  BY DEF ResultShape, Record
<1>9. CleanupShape'
  BY DEF CleanupShape, Undisturbed, CleanupInOrder, Record, Cleanup
<1>. QED
  BY <1>1, <1>2, <1>3, <1>4, <1>5, <1>6, <1>7, <1>8, <1>9

LEMMA ExecuteStep ==
  ASSUME IInv, NEW c \in Commands, Execute(c)
  PROVE  IInv'
<1>. USE EpisodeAssumption DEF IInv
<1>1. TypeOK'
  <2>1. command' \in [Commands -> {"idle", "pending", "ok", "failed"}]
    BY DEF TypeOK, Execute
  <2>2. docker' \subseteq Containers \cup {"network"}
    BY DEF TypeOK, Execute, Effect, Containers, Commands, Setup, Cleanup
  <2>3. ledger' \in 0 .. MaxRequests \cup {None}
    BY DEF TypeOK, Execute
  <2>4. answered => ledger' = ledger
    BY DEF DockerShape, Execute
  <2>. QED
    BY <2>1, <2>2, <2>3, <2>4 DEF TypeOK, Execute, controllerVars
<1>2. SetupInOrder'
  BY DEF SetupInOrder, Execute, controllerVars
<1>3. CleanupInOrder'
  BY DEF CleanupInOrder, Execute, controllerVars
<1>4. DockerShape'
  BY DEF TypeOK, DockerShape, Execute, Effect
<1>5. NoMoreSpending'
  BY DEF TypeOK, NoMoreSpending, SetupInOrder, Execute, Effect
<1>6. EvidenceShape'
  BY DEF TypeOK, EvidenceShape, DockerShape, Requests, Execute, controllerVars
<1>7. OutcomeShape'
  BY DEF OutcomeShape, Execute, controllerVars
<1>8. ResultShape'
  BY DEF ResultShape, Execute, controllerVars
<1>9. CleanupShape'
  BY DEF TypeOK, CleanupShape, Undisturbed, CleanupInOrder, Execute, Effect,
         controllerVars, Commands, Cleanup
<1>. QED
  BY <1>1, <1>2, <1>3, <1>4, <1>5, <1>6, <1>7, <1>8, <1>9

LEMMA RefuseStep ==
  ASSUME IInv, NEW c \in Commands, Refuse(c)
  PROVE  IInv'
<1>. USE EpisodeAssumption DEF IInv
<1>1. TypeOK'
  BY DEF TypeOK, Refuse, controllerVars
<1>2. SetupInOrder'
  BY DEF SetupInOrder, Refuse, controllerVars
<1>3. CleanupInOrder'
  BY DEF CleanupInOrder, Refuse, controllerVars
<1>4. DockerShape'
  BY DEF DockerShape, Refuse
<1>5. NoMoreSpending'
  BY DEF NoMoreSpending, Refuse
<1>6. EvidenceShape'
  BY DEF TypeOK, EvidenceShape, Refuse, Possible, controllerVars, Commands, Setup,
         Containers
<1>7. OutcomeShape'
  BY DEF OutcomeShape, Refuse, controllerVars
<1>8. ResultShape'
  BY DEF ResultShape, Refuse, controllerVars
<1>9. CleanupShape'
  BY DEF TypeOK, CleanupShape, Undisturbed, CleanupInOrder, Refuse, Possible,
         controllerVars, Setup, Containers
<1>. QED
  BY <1>1, <1>2, <1>3, <1>4, <1>5, <1>6, <1>7, <1>8, <1>9

LEMMA RequestStep ==
  ASSUME IInv, Request
  PROVE  IInv'
<1>. USE EpisodeAssumption DEF IInv
<1>1. TypeOK'
  <2>1. ledger # None
    BY DEF Request, DockerShape
  <2>2. ledger' \in 0 .. MaxRequests
    BY <2>1 DEF TypeOK, Request
  <2>3. answered => ledger' \in 1 .. MaxRequests
    BY <2>1, <2>2 DEF TypeOK, Request
  <2>. QED
    BY <2>2, <2>3 DEF TypeOK, Request, controllerVars
<1>2. SetupInOrder'
  BY DEF SetupInOrder, Request, controllerVars
<1>3. CleanupInOrder'
  BY DEF CleanupInOrder, Request, controllerVars
<1>4. DockerShape'
  BY DEF TypeOK, DockerShape, Request
<1>5. NoMoreSpending'
  BY DEF NoMoreSpending, Request
<1>6. EvidenceShape'
  BY DEF TypeOK, EvidenceShape, DockerShape, NoMoreSpending, Request
<1>7. OutcomeShape'
  BY DEF OutcomeShape, Request, controllerVars
<1>8. ResultShape'
  BY DEF ResultShape, Request, controllerVars
<1>9. CleanupShape'
  BY DEF CleanupShape, Undisturbed, Request, controllerVars
<1>. QED
  BY <1>1, <1>2, <1>3, <1>4, <1>5, <1>6, <1>7, <1>8, <1>9

LEMMA ReceiveStep ==
  ASSUME IInv, Receive
  PROVE  IInv'
<1>. USE EpisodeAssumption DEF IInv
<1>1. TypeOK'
  BY DEF TypeOK, Receive, controllerVars, Commands
<1>2. SetupInOrder'
  BY DEF SetupInOrder, Receive, controllerVars
<1>3. CleanupInOrder'
  BY DEF CleanupInOrder, Receive, controllerVars
<1>4. DockerShape'
  BY DEF DockerShape, Receive
<1>5. NoMoreSpending'
  BY DEF NoMoreSpending, Receive
<1>6. EvidenceShape'
  BY DEF EvidenceShape, Receive, controllerVars
<1>7. OutcomeShape'
  BY DEF OutcomeShape, Receive, controllerVars
<1>8. ResultShape'
  BY DEF ResultShape, Receive, controllerVars
<1>9. CleanupShape'
  BY DEF CleanupShape, Undisturbed, Receive, controllerVars
<1>. QED
  BY <1>1, <1>2, <1>3, <1>4, <1>5, <1>6, <1>7, <1>8, <1>9

LEMMA InterruptStep ==
  ASSUME IInv, NEW k \in Interrupts, Interrupt(k)
  PROVE  IInv'
<1>. USE EpisodeAssumption DEF IInv
<1>1. TypeOK'
  <2>1. fired' \subseteq Interrupts
    BY DEF TypeOK, Interrupt
  <2>2. command' \in [Commands -> {"idle", "pending", "ok", "failed"}]
    BY DEF TypeOK, Interrupt, LeaveBody, Issue
  <2>3. pc' \in {"rm", "record"} /\ outcome' = "failed"
    BY DEF Interrupt, LeaveBody, Issue
  <2>4. UNCHANGED <<tau, evidence, docker, ledger, answered, hung, result>>
    BY DEF Interrupt, LeaveBody
  <2>. QED
    BY <2>1, <2>2, <2>3, <2>4 DEF TypeOK, InLiveEpisode, Commands, Cleanup
<1>2. SetupInOrder'
  BY DEF TypeOK, SetupInOrder, After, Interrupt, LeaveBody, Issue, Commands, Setup
<1>3. CleanupInOrder'
  BY DEF TypeOK, CleanupInOrder, Interrupt, LeaveBody, Issue, Commands, Setup, Cleanup, Body
<1>4. DockerShape'
  BY DEF TypeOK, DockerShape, Interrupt, LeaveBody, Issue, Commands, Setup, Containers
<1>5. NoMoreSpending'
  BY DEF TypeOK, NoMoreSpending, Interrupt, LeaveBody, Issue, Cleanup
<1>6. EvidenceShape'
  BY DEF TypeOK, EvidenceShape, CleanupInOrder, Interrupt, LeaveBody, Issue, Commands,
         Cleanup, Body
<1>7. OutcomeShape'
  BY DEF OutcomeShape, Interrupt, LeaveBody, Issue
<1>8. ResultShape'
  BY DEF ResultShape, Interrupt, LeaveBody, Issue
<1>9. CleanupShape'
  BY DEF CleanupShape, Undisturbed, Interrupt
<1>. QED
  BY <1>1, <1>2, <1>3, <1>4, <1>5, <1>6, <1>7, <1>8, <1>9

-----------------------------------------------------------------------------
\* No container exists and no command but the first has been given.
LEMMA InvInit == Init => IInv
<1>. SUFFICES ASSUME Init PROVE IInv
  OBVIOUS
<1>. USE DEF Init, Body, Commands, Setup, Cleanup, Containers
<1>1. /\ command \in [Commands -> {"idle", "pending", "ok", "failed"}]
      /\ command["network"] = "pending"
      /\ \A c \in Commands \ {"network"} : command[c] = "idle"
  OBVIOUS
<1>2. TypeOK
  <2>1. pc \in InLiveEpisode /\ tau \in BOOLEAN
    BY DEF InLiveEpisode
  <2>2. /\ docker \subseteq Containers \cup {"network"}
        /\ outcome \in {"open", "answer", "scored", "failed"}
        /\ fired \subseteq Interrupts
    OBVIOUS
  <2>. QED
    BY <1>1, <2>1, <2>2 DEF TypeOK
<1>3. SetupInOrder
  BY <1>1 DEF SetupInOrder, After
<1>4. CleanupInOrder
  BY <1>1 DEF CleanupInOrder
<1>5. DockerShape
  BY <1>1 DEF DockerShape
<1>6. NoMoreSpending
  BY <1>1 DEF NoMoreSpending
<1>7. EvidenceShape
  BY <1>1 DEF EvidenceShape
<1>8. OutcomeShape
  BY <1>1 DEF OutcomeShape
<1>9. ResultShape
  BY DEF ResultShape
<1>10. CleanupShape
  BY <1>1 DEF CleanupShape
<1>. QED
  BY <1>2, <1>3, <1>4, <1>5, <1>6, <1>7, <1>8, <1>9, <1>10 DEF IInv

LEMMA InvStutter == IInv /\ UNCHANGED vars => IInv'
BY DEF IInv, TypeOK, SetupInOrder, CleanupInOrder, DockerShape, NoMoreSpending,
       EvidenceShape,
       OutcomeShape, ResultShape, CleanupShape, Undisturbed, Requests, vars, controllerVars

LEMMA InvStep == IInv /\ [Next]_vars => IInv'
<1>. SUFFICES ASSUME IInv, [Next]_vars PROVE IInv'
  OBVIOUS
<1>1. CASE UNCHANGED vars
  BY <1>1, InvStutter
<1>2. CASE Controller
  BY <1>2, SetUpStep, SetUpFailsStep, GiveUpStep, SpawnAgentStep, TakeAnswerStep, AcpFailsStep,
     RemoveContainersStep, CloseTauStep, RemoveNetworkStep, GradeStep, RecordStep
  DEF Controller
<1>3. CASE Daemon
  BY <1>3, ExecuteStep, RefuseStep DEF Daemon
<1>4. CASE Request \/ Receive \/ \E k \in Interrupts : Interrupt(k)
  BY <1>4, RequestStep, ReceiveStep, InterruptStep
<1>. QED
  BY <1>1, <1>2, <1>3, <1>4 DEF Next

\* However docker, the agent, the deadline and the user take their turns, the
\* invariant holds.
THEOREM EpisodeInvariant == Spec => []IInv
<1>1. Init => IInv
  BY InvInit
<1>2. IInv /\ [Next]_vars => IInv'
  BY InvStep
<1>. QED
  BY <1>1, <1>2, PTL DEF Spec

\* The controller, docker, the ledger and the result have their types.
THEOREM EpisodeTypeCorrect == Spec => []TypeOK
<1>1. IInv => TypeOK
  BY DEF IInv
<1>. QED
  BY <1>1, EpisodeInvariant, PTL

\* A cleanup that got past the containers recorded every request the relay will
\* ever make.
THEOREM RecordedSpendingIsKnown == Spec => []SpendingIsKnown
<1>1. IInv => SpendingIsKnown
  BY DEF IInv, SpendingIsKnown, EvidenceShape, ResultShape
<1>. QED
  BY <1>1, EpisodeInvariant, PTL

\* No episode is scored without an answered request in its evidence.
THEOREM ScoresRestOnEvidence == Spec => []ScoredHasEvidence
<1>1. IInv => ScoredHasEvidence
  BY DEF IInv, ScoredHasEvidence, OutcomeShape, ResultShape
<1>. QED
  BY <1>1, EpisodeInvariant, PTL

\* Left alone, the cleanup removes every container and the network.
THEOREM UndisturbedCleanupIsComplete == Spec => []CleanWhenUndisturbed
<1>1. IInv => CleanWhenUndisturbed
  BY DEF IInv, CleanWhenUndisturbed, CleanupShape, Undisturbed
<1>. QED
  BY <1>1, EpisodeInvariant, PTL
=============================================================================
