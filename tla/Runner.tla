------------------------------- MODULE Runner -------------------------------
(***************************************************************************)
(* EvaluationRunner (runner.py) over the ledger: a driver thread keeps at  *)
(* most maxConcurrency futures in a thread pool, each running one case     *)
(* through budget check, reservation, Gateway call, audit, composition     *)
(* policy, scoring under one lock and settlement.  The process may crash   *)
(* between any two steps; the operator may launch it again on the same     *)
(* ledger.                                                                 *)
(*                                                                         *)
(* What the outside world may do wrong in a behaviour is the set faults,   *)
(* chosen once, so that a property can speak of the behaviours in which    *)
(* only some of it happens.  The wall clock is one bit: it expires at an   *)
(* arbitrary moment and restarts with each launch.                         *)
(***************************************************************************)
EXTENDS Ledger

CONSTANTS
  FaultModels,  \* the sets of failures an environment may produce
  MaxLaunches   \* bound: how often the operator starts the process

FaultKinds == {"transient", "permanent", "audit", "policy", "empty",
               "judge", "unexpected", "wall", "crash"}

ASSUME RunnerAssumption ==
  /\ FaultModels \subseteq SUBSET FaultKinds
  /\ MaxLaunches \in Nat
  /\ None \notin Cases

(***************************************************************************)
(* Where the future of a case stands.  "idle": no future; "submitted": in  *)
(* the pool, not started; "returned" and "raised": finished, not collected.*)
(***************************************************************************)
Finished == {"returned", "raised"}
Working  == {"check", "reserve", "call", "awaiting", "audit", "score",
             "judging", "complete", "backoff", "cooldown"}
Stages   == {"idle", "submitted"} \cup Working \cup Finished

VARIABLES
  faults,       \* the failures the environment of this behaviour may produce
  main,         \* the driver thread, i.e. execute
  spec,         \* the RunSpec the process was launched with
  todo,         \* the rest of the pending snapshot (the iterator remaining)
  pc,           \* the stage of each case's future
  retry,        \* the local retry_count of each future
  scoreLock,    \* who holds _score_lock, or None
  expired,      \* the launch has used up max_wall_time_seconds
  launches,
  sent,         \* history: attempts whose request left the process
  answered      \* history: attempts the Gateway answered, and so charged

procVars == <<main, spec, todo, pc, retry, scoreLock, expired, launches>>
history  == <<sent, answered>>
vars     == <<ledgerVars, faults, procVars, history>>

Running == main \in {"driving", "aborting"}

TypeOK ==
  /\ LedgerTypeOK
  /\ faults \in FaultModels
  /\ main \in {"off", "driving", "aborting", "settled", "failed"}
  /\ spec \in Specs \cup {None} /\ (Running => spec \in Specs)
  /\ todo \subseteq Cases
  /\ pc \in [Cases -> Stages]
  /\ retry \in [Cases -> Nat]
  /\ scoreLock \in Cases \cup {None}
  /\ expired \in BOOLEAN
  /\ launches \in 0 .. MaxLaunches
  /\ sent \subseteq Cases \X Nat
  /\ answered \subseteq Cases \X Nat

Init ==
  /\ LedgerInit
  /\ faults \in FaultModels
  /\ main = "off"
  /\ spec = None
  /\ todo = {}
  /\ pc = [c \in Cases |-> "idle"]
  /\ retry = [c \in Cases |-> 0]
  /\ scoreLock = None
  /\ expired = FALSE
  /\ launches = 0
  /\ sent = {} /\ answered = {}

-----------------------------------------------------------------------------
(***************************************************************************)
(* The driver thread: execute and _execute_concurrently.  With             *)
(* maxConcurrency = 1 it is the sequential loop.                           *)
(***************************************************************************)

\* execute: initialize the ledger, snapshot the pending cases, start the clock.
Launch(s) ==
  /\ ~Running
  /\ launches < MaxLaunches
  /\ Initialize(s)
  /\ main' = "driving"
  /\ spec' = s
  /\ todo' = PendingCases'
  /\ pc' = [c \in Cases |-> "idle"]
  /\ retry' = [c \in Cases |-> 0]
  /\ scoreLock' = None
  /\ expired' = FALSE
  /\ launches' = launches + 1
  /\ UNCHANGED <<faults, history>>

Futures == {c \in Cases : pc[c] # "idle"}

\* Mutant: one future more than max_concurrency.
CanSubmitOneMore ==
  todo # {} /\ Cardinality(Futures) <= spec.maxConcurrency

CanSubmit == todo # {} /\ Cardinality(Futures) < spec.maxConcurrency

\* Hand the next case of the snapshot, in id order, to the pool.
Submit(c) ==
  /\ main = "driving"
  /\ CanSubmit
  /\ c \in todo
  /\ \A d \in todo : c <= d
  /\ todo' = todo \ {c}
  /\ pc' = [pc EXCEPT ![c] = "submitted"]
  /\ UNCHANGED <<ledgerVars, faults, main, spec, retry, scoreLock, expired,
                 launches, history>>

\* Mutant: the exception of a future is dropped with the future.
CollectSwallowing ==
  /\ main = "driving"
  /\ ~CanSubmit
  /\ \E c \in Cases : pc[c] \in Finished
  /\ pc' = [c \in Cases |-> IF pc[c] \in Finished THEN "idle" ELSE pc[c]]
  /\ UNCHANGED <<ledgerVars, faults, main, spec, todo, retry, scoreLock,
                 expired, launches, history>>

\* wait(FIRST_COMPLETED), result() of every finished future; one that raised
\* cancels the futures the pool has not started and ends the loop.
Collect ==
  /\ main = "driving"
  /\ ~CanSubmit
  /\ \E c \in Cases : pc[c] \in Finished
  /\ \/ /\ \A c \in Cases : pc[c] # "raised"
        /\ pc' = [c \in Cases |->
                    IF pc[c] = "returned" THEN "idle" ELSE pc[c]]
        /\ main' = main
     \/ /\ \E c \in Cases : pc[c] = "raised"
        /\ pc' = [c \in Cases |->
                    IF pc[c] \in Finished \cup {"submitted"}
                      THEN "idle" ELSE pc[c]]
        /\ main' = "aborting"
  /\ UNCHANGED <<ledgerVars, faults, spec, todo, retry, scoreLock, expired,
                 launches, history>>

\* The process and its threads are gone; the ledger remains.
Exit(how) ==
  /\ main' = how
  /\ todo' = {}
  /\ pc' = [c \in Cases |-> "idle"]
  /\ retry' = [c \in Cases |-> 0]
  /\ scoreLock' = None
  /\ expired' = FALSE
  /\ UNCHANGED <<faults, spec, launches, history>>

\* Every future was collected and none raised: close the run if it settled.
Finish ==
  /\ main = "driving"
  /\ todo = {} /\ Futures = {}
  /\ MarkCompletedIfSettled
  /\ Exit("settled")

\* Leaving the executor waits for the running futures, then re-raises.
Abort ==
  /\ main = "aborting"
  /\ \A c \in Futures : pc[c] \in Finished
  /\ Exit("failed")
  /\ UNCHANGED ledgerVars

\* The process dies; the ledger and the requests already sent remain.
Crash ==
  /\ "crash" \in faults
  /\ Running
  /\ Exit("off")
  /\ UNCHANGED ledgerVars

WallExpires ==
  /\ "wall" \in faults
  /\ Running
  /\ ~expired
  /\ expired' = TRUE
  /\ UNCHANGED <<ledgerVars, faults, main, spec, todo, pc, retry, scoreLock,
                 launches, history>>

-----------------------------------------------------------------------------
(***************************************************************************)
(* The future of one case: _execute_case.                                  *)
(***************************************************************************)

\* The future's stage changes and nothing of the process but retry may.
Goto(c, stage) == pc' = [pc EXCEPT ![c] = stage]
ProcUnchanged  == UNCHANGED <<faults, main, spec, todo, expired, launches>>

\* The attempt a future works on: retry_count is its number after reserving.
Attempt(c) == <<c, retry[c]>>

\* Mutant: the exhausted case is settled with the number of the next attempt.
BeginOffByOne(c) ==
  /\ Running
  /\ pc[c] = "submitted"
  /\ LET reserved == Cardinality(AttemptsOf(c)) IN
       /\ retry' = [retry EXCEPT ![c] = reserved]
       /\ \/ /\ reserved > spec.maxRetries
             /\ Fail(c, "system_failed", reserved)
             /\ Goto(c, "returned")
          \/ /\ reserved <= spec.maxRetries
             /\ Goto(c, "check")
             /\ UNCHANGED ledgerVars
  /\ ProcUnchanged
  /\ UNCHANGED <<scoreLock, history>>

\* A pool thread starts the future and reads the attempts already reserved.
Begin(c) ==
  /\ Running
  /\ pc[c] = "submitted"
  /\ LET reserved == Cardinality(AttemptsOf(c)) IN
       /\ retry' = [retry EXCEPT ![c] = reserved]
       /\ \/ /\ reserved > spec.maxRetries
             /\ Fail(c, "system_failed", spec.maxRetries)
             /\ Goto(c, "returned")
          \/ /\ reserved <= spec.maxRetries
             /\ Goto(c, "check")
             /\ UNCHANGED ledgerVars
  /\ ProcUnchanged
  /\ UNCHANGED <<scoreLock, history>>

\* Mutant: the last request of the budget is never spent.
BudgetSpentEarly ==
  \/ RecordedCost >= spec.maxUsd
  \/ RequestCount + 1 >= spec.maxRequests
  \/ expired

BudgetSpent ==
  \/ RecordedCost >= spec.maxUsd
  \/ RequestCount >= spec.maxRequests
  \/ expired

\* summary and _check_budget, whose result is stale when the future reserves.
CheckBudget(c) ==
  /\ pc[c] = "check"
  /\ Goto(c, IF BudgetSpent THEN "raised" ELSE "reserve")
  /\ ProcUnchanged
  /\ UNCHANGED <<ledgerVars, retry, scoreLock, history>>

\* _check_attempt_budget and reserve_attempt; a refusal raises.
Reserve(c) ==
  /\ pc[c] = "reserve"
  /\ \/ /\ ~expired
        /\ ReserveAttempt(c, spec.maxRequests)
        /\ retry' = [retry EXCEPT ![c] = NextAttempt(c)]
        /\ Goto(c, "call")
     \/ /\ expired \/ RequestCount >= spec.maxRequests
        /\ Goto(c, "raised")
        /\ UNCHANGED <<ledgerVars, retry>>
  /\ ProcUnchanged
  /\ UNCHANGED <<scoreLock, history>>

\* The request of the reserved attempt leaves the process.
Send(c) ==
  /\ pc[c] = "call"
  /\ sent' = sent \cup {Attempt(c)}
  /\ Goto(c, "awaiting")
  /\ ProcUnchanged
  /\ UNCHANGED <<ledgerVars, retry, scoreLock, answered>>

\* Mutant: one retry more than max_retries.
HandleGatewayErrorOneMore(c, transient) ==
  \/ /\ transient /\ retry[c] <= spec.maxRetries
     /\ Goto(c, "backoff")
     /\ UNCHANGED ledgerVars
  \/ /\ ~transient \/ retry[c] > spec.maxRetries
     /\ Fail(c, "system_failed", retry[c])
     /\ Goto(c, IF transient THEN "cooldown" ELSE "returned")

\* except GatewayError: retry a transient failure while retries remain, else
\* settle the case, and cool down when the failure was transient.
HandleGatewayError(c, transient) ==
  \/ /\ transient /\ retry[c] < spec.maxRetries
     /\ Goto(c, "backoff")
     /\ UNCHANGED ledgerVars
  \/ /\ ~transient \/ retry[c] >= spec.maxRetries
     /\ Fail(c, "system_failed", retry[c])
     /\ Goto(c, IF transient THEN "cooldown" ELSE "returned")

\* gateway.invoke returns or raises; a body it cannot decode is unexpected.
Answer(c) ==
  /\ pc[c] = "awaiting"
  /\ \/ /\ answered' = answered \cup {Attempt(c)}
        /\ \/ Goto(c, "audit")
           \/ "unexpected" \in faults /\ Goto(c, "raised")
        /\ UNCHANGED ledgerVars
     \/ /\ \E transient \in BOOLEAN :
             /\ (IF transient THEN "transient" ELSE "permanent") \in faults
             /\ HandleGatewayError(c, transient)
        /\ UNCHANGED answered
  /\ ProcUnchanged
  /\ UNCHANGED <<retry, scoreLock, sent>>

\* audit.resolve and the two composition checks: a policy error settles the
\* case and stops the run, an audit error settles it only.
Audit(c) ==
  /\ pc[c] = "audit"
  /\ \/ Goto(c, "score") /\ UNCHANGED ledgerVars
     \/ /\ "audit" \in faults
        /\ Fail(c, "system_failed", retry[c])
        /\ Goto(c, "returned")
     \/ /\ "policy" \in faults
        /\ Fail(c, "system_failed", retry[c])
        /\ Goto(c, "raised")
     \/ "unexpected" \in faults /\ Goto(c, "raised") /\ UNCHANGED ledgerVars
  /\ ProcUnchanged
  /\ UNCHANGED <<retry, scoreLock, history>>

\* Mutant: scoring without the lock.
ScoreWithoutLock(c) ==
  /\ pc[c] = "score"
  /\ scoreLock' = c
  /\ Goto(c, "judging")
  /\ ProcUnchanged
  /\ UNCHANGED <<ledgerVars, retry, history>>

AcquireScoreLock(c) ==
  /\ pc[c] = "score"
  /\ scoreLock = None
  /\ scoreLock' = c
  /\ Goto(c, "judging")
  /\ ProcUnchanged
  /\ UNCHANGED <<ledgerVars, retry, history>>

\* Mutant: the lock is not released.
KeepScoreLock == UNCHANGED scoreLock

ReleaseScoreLock == scoreLock' = None

\* parse_response and score_case under the lock; leaving releases it.  The
\* benchmark may ask the evaluator, whose failure is a GatewayError too.
Score(c) ==
  /\ pc[c] = "judging"
  /\ ReleaseScoreLock
  /\ \/ /\ "empty" \in faults
        /\ Fail(c, "invalid_output", retry[c])
        /\ Goto(c, "returned")
     \/ Goto(c, "complete") /\ UNCHANGED ledgerVars
     \/ "unexpected" \in faults /\ Goto(c, "raised") /\ UNCHANGED ledgerVars
     \/ /\ "judge" \in faults
        /\ \E transient \in BOOLEAN : HandleGatewayError(c, transient)
  /\ ProcUnchanged
  /\ UNCHANGED <<retry, history>>

\* ledger.complete, after the lock was released.
Settle(c) ==
  /\ pc[c] = "complete"
  /\ Complete(c, retry[c])
  /\ Goto(c, "returned")
  /\ ProcUnchanged
  /\ UNCHANGED <<retry, scoreLock, history>>

\* Mutant: the retry sends again under the old reservation.
BackoffAndResend(c) ==
  /\ pc[c] = "backoff"
  /\ ~expired
  /\ Goto(c, "call")
  /\ ProcUnchanged
  /\ UNCHANGED <<ledgerVars, retry, scoreLock, history>>

\* _wait_after_transient_failure: no wall time left for the delay raises.
\* What remains after a sleep is whatever the clock says by then.
Backoff(c) ==
  /\ pc[c] = "backoff"
  /\ \/ /\ ~expired
        /\ retry' = [retry EXCEPT ![c] = @ + 1]
        /\ Goto(c, "check")
     \/ /\ "wall" \in faults
        /\ Goto(c, "raised")
        /\ UNCHANGED retry
  /\ ProcUnchanged
  /\ UNCHANGED <<ledgerVars, scoreLock, history>>

\* The same wait after the last failure of a case, while others are pending.
Cooldown(c) ==
  /\ pc[c] = "cooldown"
  /\ \/ (PendingCases = {} \/ ~expired) /\ Goto(c, "returned")
     \/ "wall" \in faults /\ PendingCases # {} /\ Goto(c, "raised")
  /\ ProcUnchanged
  /\ UNCHANGED <<ledgerVars, retry, scoreLock, history>>

CaseStep(c) ==
  \/ Begin(c) \/ CheckBudget(c) \/ Reserve(c) \/ Send(c) \/ Answer(c)
  \/ Audit(c) \/ AcquireScoreLock(c) \/ Score(c) \/ Settle(c)
  \/ Backoff(c) \/ Cooldown(c)

DriverStep == Collect \/ Finish \/ Abort \/ \E c \in Cases : Submit(c)

Next ==
  \/ \E s \in Specs : Launch(s)
  \/ DriverStep
  \/ \E c \in Cases : CaseStep(c)
  \/ Crash
  \/ WallExpires

(***************************************************************************)
(* Threads are scheduled, and every network wait has a timeout, so each    *)
(* step that stays enabled is taken.  The score lock is waited for by      *)
(* futures of which each takes it a bounded number of times, hence weak    *)
(* fairness is enough.  Launching, crashing and the clock are not fair.    *)
(***************************************************************************)
Fairness ==
  /\ WF_vars(DriverStep)
  /\ \A c \in Cases : WF_vars(CaseStep(c))

Spec == Init /\ [][Next]_vars
FairSpec == Spec /\ Fairness

-----------------------------------------------------------------------------
(***************************************************************************)
(* Safety.                                                                 *)
(***************************************************************************)

\* The run never counts more requests than the frozen limit, whatever futures
\* check and reserve concurrently and however often the process restarts.
RequestCap == manifest # None => RequestCount <= manifest.maxRequests

\* A request leaves only under a durable reservation of its own: what was sent
\* is in the ledger, and the attempt a future is about to send is reserved and
\* was never sent, by this process or by one that crashed.
FreshReservation ==
  /\ answered \subseteq sent /\ sent \subseteq attempts
  /\ \A c \in Cases : pc[c] = "call" => Attempt(c) \in attempts \ sent

\* The attempts of a case are numbered without gaps and there are at most
\* maxRetries + 1 of them over all launches of the run.
AttemptsPerCase ==
  \A c \in Cases :
    /\ AttemptsOf(c) = {c} \X (0 .. NextAttempt(c) - 1)
    /\ manifest # None => NextAttempt(c) <= manifest.maxRetries + 1

\* A settled row tells its story right: retry_count is the number of its last
\* attempt, and a completed row's last attempt is one the Gateway answered.
SettledRowIsLastAttempt ==
  \A c \in Cases \ LegacyCases :
    status[c] \in Terminal =>
      /\ NextAttempt(c) = retryCount[c] + 1
      /\ status[c] = "completed" => <<c, retryCount[c]>> \in answered

\* A closed run has no pending case, and a launch that ended without raising
\* closed the run: no future loses its case.
ClosedMeansSettled ==
  /\ runStatus = "completed" => PendingCases = {}
  /\ main = "settled" => runStatus = "completed"

\* Concurrency can overshoot the recorded cost limit only by the requests that
\* were past the budget check when it was reached: one per other future.
RecordedCostOvershoot ==
  manifest # None /\ (\A c \in LegacyRows : cost[c] = 0) =>
    RecordedCost <= manifest.maxUsd + manifest.maxConcurrency - 1

\* Parsing and scoring are serialized: the future that scores holds the lock.
ScoringSerialized ==
  \A c \in Cases : pc[c] = "judging" <=> scoreLock = c

\* A settled case is final: its row never changes again and no request is sent
\* for it, on this launch or a later one.
SettledIsFinal ==
  [][\A c \in Cases : status[c] \in Terminal =>
       /\ <<status[c], cost[c], retryCount[c]>>'
            = <<status[c], cost[c], retryCount[c]>>
       /\ \A a \in sent' \ sent : a[1] # c]_vars

\* The kernel implements the abstract request budget.
Budget == INSTANCE RequestBudget WITH
  frozen   <- manifest,
  reserved <- CountedRequests,
  issued   <- sent,
  settled  <- {c \in Cases : status[c] \in Terminal},
  closed   <- runStatus = "completed"

ImplementsRequestBudget == Budget!Spec

-----------------------------------------------------------------------------
(***************************************************************************)
(* Liveness.                                                               *)
(***************************************************************************)

\* A launched process ends: the pool and the score lock never wait for ever.
ProcessEnds == Running ~> ~Running

\* With requests and money for every attempt and no fault that ends a launch,
\* a launch settles the whole run, whatever fails transiently meanwhile.
RequestFaults == {"transient", "permanent", "audit", "empty", "judge"}

Ample(s) ==
  /\ s.maxRequests >= Cardinality(Cases) * (s.maxRetries + 1)
  /\ s.maxUsd > Cardinality(Cases)

LaunchSettlesRun ==
  (main = "driving" /\ faults \subseteq RequestFaults /\ Ample(spec))
    ~> (runStatus = "completed")

-----------------------------------------------------------------------------
(***************************************************************************)
(* Claims of the documentation that the code does not keep.                *)
(***************************************************************************)

\* "Retries cannot bypass the budget": with one future at a time and requests
\* of one unit, what the Gateway charged stays within max_usd.
ChargesWithinMaxUsd ==
  manifest # None => Cardinality(answered) <= manifest.maxUsd

=============================================================================
