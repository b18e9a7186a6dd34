------------------------------- MODULE Episode -------------------------------
(***************************************************************************)
(* One live episode of the console: live_scheduler.py's episode around     *)
(* live.py's live_episode, which sets up a network and containers, drives  *)
(* an agent over ACP, and cleans up in a finally that awaits docker at     *)
(* each step.  Docker executes the commands it was given in its own time,  *)
(* also those nobody waits for any more.  The agent spends money through   *)
(* the relay container, whose request ledger is copied by the cleanup and  *)
(* is lost with the temporary directory if it is not.                      *)
(*                                                                         *)
(* Two exceptions come from outside, each at most once: the deadline, an   *)
(* asyncio.timeout around live_episode only, and the cancellation of the   *)
(* run.  Either one may arrive at any await.                               *)
(***************************************************************************)
EXTENDS Integers, FiniteSets

CONSTANTS
  Interrupts,   \* which of "deadline" and "cancel" may arrive
  DockerHangs,  \* whether docker commands may time out or fail to clean up
  MaxRequests,  \* bound: requests the agent makes
  None          \* no evidence file

ASSUME EpisodeAssumption ==
  /\ Interrupts \subseteq {"deadline", "cancel"}
  /\ DockerHangs \in BOOLEAN
  /\ MaxRequests \in Nat
  /\ None \notin Nat

(***************************************************************************)
(* Where the controller awaits.  The stages that issue a docker command    *)
(* are named after it.  "tools" is the tau or the SWE runtime, "close" the *)
(* cleanup of the tau runtime, which only tau episodes need.               *)
(***************************************************************************)
Setup    == {"network", "relay", "connect", "tools", "agent"}
Cleanup  == {"rm", "close", "netrm"}
Commands == Setup \cup Cleanup
InLiveEpisode == Commands \cup {"acp"}

After == [network |-> "relay", relay |-> "connect", connect |-> "tools",
          tools |-> "agent"]

Containers == {"relay", "tools", "agent"}

VARIABLES
  pc,
  tau,        \* a tau episode: its runtime has a cleanup of its own
  command,    \* what became of each docker command
  docker,     \* the containers and the network that exist
  ledger,     \* requests the relay's ledger file shows, None before it exists
  answered,   \* the relay saw one of them complete
  evidence,   \* requests in the copied evidence file
  outcome,    \* how live_episode and the grading end
  fired,      \* the interrupts that arrived
  hung,       \* a docker command has timed out or failed to clean up
  result      \* the recorded result: status and requests

controllerVars == <<pc, tau, evidence, outcome, fired, result>>
vars == <<controllerVars, command, docker, ledger, answered, hung>>

TypeOK ==
  /\ pc \in InLiveEpisode \cup {"grade", "record", "recorded"}
  /\ tau \in BOOLEAN
  /\ command \in [Commands -> {"idle", "pending", "ok", "failed"}]
  /\ docker \subseteq Containers \cup {"network"}
  /\ ledger \in 0 .. MaxRequests \cup {None}
  /\ evidence \in 0 .. MaxRequests \cup {None}
  /\ answered \in BOOLEAN /\ (answered => ledger \in 1 .. MaxRequests)
  /\ outcome \in {"open", "answer", "scored", "failed"}
  /\ fired \subseteq Interrupts
  /\ hung \in BOOLEAN
  /\ result \in {None} \cup [status : {"scored", "system_failed"},
                             requests : 0 .. MaxRequests \cup {None}]

\* The controller gives docker a command and waits at it.
Issue(c) ==
  /\ pc' = c
  /\ command' = [command EXCEPT ![c] = "pending"]

Init ==
  /\ pc = "network"
  /\ tau \in BOOLEAN
  /\ command = [c \in Commands |-> IF c = "network" THEN "pending" ELSE "idle"]
  /\ docker = {}
  /\ ledger = None
  /\ answered = FALSE
  /\ evidence = None
  /\ outcome = "open"
  /\ fired = {}
  /\ hung = FALSE
  /\ result = None

-----------------------------------------------------------------------------
(***************************************************************************)
(* The docker daemon, the relay and the agent.                             *)
(***************************************************************************)

\* Mutant: the removal forgets the SWE container.
EffectForgettingSwe(c) ==
  CASE c = "rm"      -> docker \ {"relay", "agent"}
    [] c = "close"   -> docker \ {"tools"}
    [] c = "netrm"   -> docker \ {"network"}
    [] c = "connect" -> docker
    [] OTHER         -> docker \cup {c}

\* What docker has after it executed a command.
Effect(c) ==
  CASE c = "rm"      -> docker \ (IF tau THEN {"relay", "agent"} ELSE Containers)
    [] c = "close"   -> docker \ {"tools"}
    [] c = "netrm"   -> docker \ {"network"}
    [] c = "connect" -> docker
    [] OTHER         -> docker \cup {c}

\* Containers need their network, the network goes when it is empty.
Possible(c) ==
  /\ c \in Containers => "network" \in docker
  /\ c = "connect" => "relay" \in docker
  /\ c = "netrm" => docker \cap Containers = {}

\* The relay writes an empty ledger when it starts.
Execute(c) ==
  /\ command[c] = "pending"
  /\ Possible(c)
  /\ command' = [command EXCEPT ![c] = "ok"]
  /\ docker' = Effect(c)
  /\ ledger' = IF c = "relay" THEN 0 ELSE ledger
  /\ UNCHANGED <<controllerVars, answered, hung>>

\* A set-up command may fail at any time, a cleanup only if docker is broken.
Refuse(c) ==
  /\ command[c] = "pending"
  /\ c \in Cleanup /\ Possible(c) => DockerHangs
  /\ command' = [command EXCEPT ![c] = "failed"]
  /\ hung' = (hung \/ (c \in Cleanup /\ Possible(c)))
  /\ UNCHANGED <<controllerVars, docker, ledger, answered>>

\* The relay reserves and records a request of the agent before it sends it.
Request ==
  /\ {"agent", "relay"} \subseteq docker
  /\ ledger < MaxRequests
  /\ ledger' = ledger + 1
  /\ UNCHANGED <<controllerVars, command, docker, answered, hung>>

Receive ==
  /\ "relay" \in docker
  /\ ledger > 0
  /\ ~answered
  /\ answered' = TRUE
  /\ UNCHANGED <<controllerVars, command, docker, ledger, hung>>

-----------------------------------------------------------------------------
(***************************************************************************)
(* The controller.  Leaving the body by any way enters the finally, which  *)
(* issues "rm" first.                                                      *)
(***************************************************************************)

LeaveBody(o) ==
  /\ Issue("rm")
  /\ outcome' = o
  /\ UNCHANGED <<tau, evidence, docker, ledger, answered, result>>

\* The awaited set-up command succeeded.  The agent's docker run is spawned
\* and not waited for.
SetUp(c) ==
  /\ pc = c
  /\ c \in DOMAIN After
  /\ command[c] = "ok"
  /\ Issue(After[c])
  /\ UNCHANGED <<tau, evidence, outcome, fired, result, docker, ledger,
                 answered, hung>>

SetUpFails(c) ==
  /\ pc = c
  /\ c \in DOMAIN After
  /\ command[c] = "failed"
  /\ LeaveBody("failed")
  /\ UNCHANGED <<fired, hung>>

SpawnAgent ==
  /\ pc = "agent"
  /\ pc' = "acp"
  /\ UNCHANGED <<tau, evidence, outcome, fired, result, command, docker,
                 ledger, answered, hung>>

\* Mutant: the answer is taken without looking at the relay's ledger.
BelieveAnswer ==
  /\ pc = "acp"
  /\ "agent" \in docker
  /\ LeaveBody("answer")
  /\ UNCHANGED <<fired, hung>>

\* The prompt ended and the relay's ledger shows a request that was answered.
TakeAnswer ==
  /\ pc = "acp"
  /\ "agent" \in docker
  /\ answered
  /\ LeaveBody("answer")
  /\ UNCHANGED <<fired, hung>>

\* An ACP error, an abnormal stop, no evidence of an answer, or docker run has
\* ended.
AcpFails ==
  /\ pc = "acp"
  /\ command["agent"] # "pending"
  /\ LeaveBody("failed")
  /\ UNCHANGED <<fired, hung>>

\* A docker command is given up after its timeout; it may still be executed.
GiveUp(c) ==
  /\ DockerHangs
  /\ pc = c /\ c \in Commands \ {"agent"}
  /\ command[c] = "pending"
  /\ hung' = TRUE
  /\ \/ c \notin Cleanup /\ LeaveBody("failed") /\ UNCHANGED fired
     \/ /\ c \in Cleanup
        /\ command' = [command EXCEPT ![c] = "failed"]
        /\ UNCHANGED <<controllerVars, docker, ledger, answered>>

\* Mutant: the ledger is copied before the containers are removed.
CleanupWithoutRm ==
  /\ pc = "rm"
  /\ evidence' = ledger
  /\ Issue("netrm")
  /\ UNCHANGED <<tau, outcome, fired, result, docker, ledger, answered, hung>>

Over(c) == command[c] \in {"ok", "failed"}

\* After the containers, the tau runtime: then, with no await between, the
\* ledger is copied and the removal of the network issued.
RemoveContainers ==
  /\ pc = "rm"
  /\ Over("rm")
  /\ IF tau /\ command["tools"] # "idle"
       THEN Issue("close") /\ UNCHANGED evidence
       ELSE Issue("netrm") /\ evidence' = ledger
  /\ UNCHANGED <<tau, outcome, fired, result, docker, ledger, answered, hung>>

CloseTau ==
  /\ pc = "close"
  /\ Over("close")
  /\ Issue("netrm")
  /\ evidence' = ledger
  /\ UNCHANGED <<tau, outcome, fired, result, docker, ledger, answered, hung>>

\* live_episode is left, with its answer or its exception.
RemoveNetwork ==
  /\ pc = "netrm"
  /\ Over("netrm")
  /\ pc' = IF outcome = "answer" THEN "grade" ELSE "record"
  /\ UNCHANGED <<tau, evidence, outcome, fired, result, command, docker,
                 ledger, answered, hung>>

Grade ==
  /\ pc = "grade"
  /\ \E o \in {"scored", "failed"} : outcome' = o
  /\ pc' = "record"
  /\ UNCHANGED <<tau, evidence, fired, result, command, docker, ledger,
                 answered, hung>>

\* The finally of the episode reads the evidence file if there is one.
Record ==
  /\ pc = "record"
  /\ result' = [status |-> IF outcome = "scored" THEN "scored"
                                                 ELSE "system_failed",
                requests |-> evidence]
  /\ pc' = "recorded"
  /\ UNCHANGED <<tau, evidence, outcome, fired, command, docker, ledger,
                 answered, hung>>

\* Mutant: live_episode runs without a deadline.
InterruptByUserOnly(k) ==
  /\ k = "cancel" /\ k \in Interrupts \ fired
  /\ fired' = fired \cup {k}
  /\ \/ /\ pc \in Setup \cup {"acp"}
        /\ LeaveBody("failed")
     \/ /\ pc \in Cleanup \/ pc = "grade"
        /\ pc' = "record"
        /\ outcome' = "failed"
        /\ UNCHANGED <<tau, evidence, result, command, docker, ledger, answered>>
  /\ UNCHANGED hung

\* An exception is thrown into the await at which the controller stands.  In
\* the body it starts the cleanup; in the cleanup it ends it there, while the
\* shielded command goes on.
Interrupt(k) ==
  /\ k \in Interrupts \ fired
  /\ fired' = fired \cup {k}
  /\ \/ /\ pc \in Setup \cup {"acp"}
        /\ LeaveBody("failed")
     \/ /\ pc \in Cleanup \/ (pc = "grade" /\ k = "cancel")
        /\ pc' = "record"
        /\ outcome' = "failed"
        /\ UNCHANGED <<tau, evidence, result, command, docker, ledger, answered>>
  /\ UNCHANGED hung

Controller ==
  \/ \E c \in Commands : SetUp(c) \/ SetUpFails(c) \/ GiveUp(c)
  \/ SpawnAgent \/ TakeAnswer \/ AcpFails
  \/ RemoveContainers \/ CloseTau \/ RemoveNetwork \/ Grade \/ Record

Daemon == \E c \in Commands : Execute(c) \/ Refuse(c)

Next ==
  \/ Controller \/ Daemon
  \/ Request \/ Receive
  \/ \E k \in Interrupts : Interrupt(k)

Spec == Init /\ [][Next]_vars

(***************************************************************************)
(* The event loop steps the controller, docker_command gives up after its  *)
(* timeout, and the deadline fires where it still runs.  Docker, the agent *)
(* and the user owe nothing.                                               *)
(***************************************************************************)
FairSpec ==
  /\ Spec
  /\ WF_vars(\/ SpawnAgent \/ RemoveContainers \/ CloseTau
             \/ RemoveNetwork \/ Grade \/ Record
             \/ \E c \in Commands : SetUp(c) \/ SetUpFails(c) \/ GiveUp(c))
  /\ WF_vars(Interrupt("deadline"))

-----------------------------------------------------------------------------
Requests(n) == IF n = None THEN 0 ELSE n

\* If the cleanup got past the containers, the recorded result knows every
\* request the agent paid for, and none is made after it, however the body was
\* left and whatever docker command was under way (live.py:298-311).
SpendingIsKnown ==
  pc = "recorded" /\ command["netrm"] # "idle" /\ ~hung =>
    Requests(result.requests) = Requests(ledger)

\* A scored episode rests on a request the Gateway answered and that is in its
\* evidence, even if exceptions cut its cleanup short (live.py:278-279).
ScoredHasEvidence ==
  pc = "recorded" /\ result.status = "scored" =>
    answered /\ Requests(result.requests) > 0

\* An episode that nothing interrupted leaves no container and no network.
CleanWhenUndisturbed ==
  pc = "recorded" /\ fired = {} /\ ~hung => docker = {}

\* With a deadline every episode is recorded in the end, although the agent
\* may say nothing and docker may hang (live_scheduler.py:200).
EpisodeEnds == <>(pc = "recorded")

\* What the documentation promises of a cancelled or failed episode: the cost
\* evidence is kept (local-console-execution-design.md:28, and the comment in
\* live.py:298).
EvidenceKept == pc = "record" /\ Requests(ledger) > 0 => evidence # None

\* ... and a cancelled episode's containers are removed before the final state
\* is saved (local-console-execution-design.md:117); here even only in the end.
ContainersRemoved ==
  pc = "recorded" /\ (\A c \in Commands : command[c] # "pending") =>
    docker \cap Containers = {}

=============================================================================
