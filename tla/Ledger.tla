------------------------------- MODULE Ledger -------------------------------
(***************************************************************************)
(* The durable run ledger of the evaluation kernel (ledger.py): one SQLite *)
(* file holding one run, its frozen manifest, one row per case and one row *)
(* per reserved target request.  Every operator below is one ledger method *)
(* and runs in one SQLite transaction under the ledger's lock, so each is  *)
(* one atomic step of the component that calls it.  A crash of the process *)
(* leaves exactly these variables behind.                                  *)
(***************************************************************************)
EXTENDS Integers, FiniteSets

CONSTANTS
  Cases,        \* the frozen case ids of the run, ordered like the SQL ids
  Specs,        \* the RunSpecs an operator may launch the run with
  LegacyCases,  \* rows a release that kept no request_attempts may have settled
  None          \* no manifest yet: the run row does not exist

ASSUME LedgerAssumption ==
  /\ IsFiniteSet(Cases) /\ Cases \subseteq Nat
  /\ LegacyCases \subseteq Cases
  /\ Specs \subseteq [maxRequests : Nat \ {0}, maxUsd : Nat \ {0},
                      maxRetries : Nat, maxConcurrency : Nat \ {0}]
  /\ None \notin Specs

Terminal == {"completed", "system_failed", "invalid_output"}

VARIABLES
  manifest,     \* runs.manifest_json, the RunSpec it was derived from
  runStatus,    \* runs.status
  status,       \* cases.status, "absent" before the row is inserted
  retryCount,   \* cases.retry_count
  cost,         \* cases.cost_usd, in units of one audited request
  attempts      \* request_attempts, as pairs <<case, attempt_no>>

ledgerVars == <<manifest, runStatus, status, retryCount, cost, attempts>>

LedgerTypeOK ==
  /\ manifest \in Specs \cup {None}
  /\ runStatus \in {"absent", "running", "completed"}
  /\ status \in [Cases -> {"absent", "pending"} \cup Terminal]
  /\ retryCount \in [Cases -> Nat]
  /\ cost \in [Cases -> {0, 1}]
  /\ attempts \subseteq Cases \X Nat /\ IsFiniteSet(attempts)

(***************************************************************************)
(* What the methods read.                                                  *)
(***************************************************************************)

\* Mutant: failed cases are taken up again by the next launch.
PendingOrFailed == {c \in Cases : status[c] \in {"pending", "system_failed"}}

\* pending_case_ids
PendingCases == {c \in Cases : status[c] = "pending"}

AttemptsOf(c) == {a \in attempts : a[1] = c}

\* Rows settled before attempts were recorded count for retry_count + 1.
LegacyRows == {c \in Cases : status[c] \in Terminal /\ AttemptsOf(c) = {}}

CountedRequests ==
  attempts \cup UNION {{c} \X (0 .. retryCount[c]) : c \in LegacyRows}

RequestCount == Cardinality(CountedRequests)

RecordedCost == Cardinality({c \in Cases : cost[c] = 1})

(***************************************************************************)
(* A ledger file the program can open: a fresh one, or one in which an     *)
(* older release settled LegacyCases of a run that it left open.           *)
(***************************************************************************)

FreshLedger ==
  /\ manifest = None
  /\ runStatus = "absent"
  /\ status = [c \in Cases |-> "absent"]
  /\ retryCount = [c \in Cases |-> 0]
  /\ cost = [c \in Cases |-> 0]
  /\ attempts = {}

LegacyLedger ==
  /\ LegacyCases # {}
  /\ manifest \in Specs
  /\ runStatus = "running"
  /\ \E settled \in [LegacyCases -> Terminal] :
       /\ status = [c \in Cases |->
                      IF c \in LegacyCases THEN settled[c] ELSE "pending"]
       /\ cost = [c \in Cases |->
                    IF status[c] = "completed" THEN 1 ELSE 0]
  /\ retryCount \in {r \in [Cases -> 0 .. manifest.maxRetries] :
                       \A c \in Cases \ LegacyCases : r[c] = 0}
  /\ attempts = {}
  /\ RequestCount <= manifest.maxRequests

LedgerInit == FreshLedger \/ LegacyLedger

(***************************************************************************)
(* The methods that write, each one transaction.                           *)
(***************************************************************************)

\* Mutant: a launch with another spec replaces the manifest.
InitializeReplacing(s) ==
  /\ manifest' = s
  /\ runStatus' = IF manifest = None THEN "running" ELSE runStatus
  /\ status' = [c \in Cases |->
                  IF status[c] = "absent" THEN "pending" ELSE status[c]]
  /\ UNCHANGED <<retryCount, cost, attempts>>

\* initialize: a manifest is frozen once and a different one is refused.
Initialize(s) ==
  /\ manifest \in {None, s}
  /\ manifest' = s
  /\ runStatus' = IF manifest = None THEN "running" ELSE runStatus
  /\ status' = [c \in Cases |->
                  IF status[c] = "absent" THEN "pending" ELSE status[c]]
  /\ UNCHANGED <<retryCount, cost, attempts>>

\* The number reserve_attempt gives the next attempt: COUNT(*) of the case.
NextAttempt(c) == Cardinality(AttemptsOf(c))

\* Mutant: the request count is not read again inside the transaction.
ReserveUnchecked(c, limit) ==
  /\ attempts' = attempts \cup {<<c, NextAttempt(c)>>}
  /\ UNCHANGED <<manifest, runStatus, status, retryCount, cost>>

\* Mutant: the insert is never committed.
ReserveUncommitted(c, limit) ==
  /\ RequestCount < limit
  /\ UNCHANGED ledgerVars

\* reserve_attempt when it has room; without room it changes nothing.
ReserveAttempt(c, limit) ==
  /\ RequestCount < limit
  /\ attempts' = attempts \cup {<<c, NextAttempt(c)>>}
  /\ UNCHANGED <<manifest, runStatus, status, retryCount, cost>>

\* Mutant: the row is charged once per attempt, not for the audited request.
CompleteChargingRetries(c, retries) ==
  /\ status' = [status EXCEPT ![c] = "completed"]
  /\ cost' = [cost EXCEPT ![c] = @ + retries + 1]
  /\ retryCount' = [retryCount EXCEPT ![c] = retries]
  /\ UNCHANGED <<manifest, runStatus, attempts>>

\* complete: the row takes the one audited cost of its last attempt.
Complete(c, retries) ==
  /\ status' = [status EXCEPT ![c] = "completed"]
  /\ cost' = [cost EXCEPT ![c] = 1]
  /\ retryCount' = [retryCount EXCEPT ![c] = retries]
  /\ UNCHANGED <<manifest, runStatus, attempts>>

\* fail: the one result a caller hands it is the unaudited response, whose
\* cost_usd the Gateway adapter sets to 0, so a failed row keeps cost 0.
Fail(c, terminal, retries) ==
  /\ status' = [status EXCEPT ![c] = terminal]
  /\ retryCount' = [retryCount EXCEPT ![c] = retries]
  /\ UNCHANGED <<manifest, runStatus, cost, attempts>>

MarkCompletedIfSettled ==
  /\ runStatus' = IF PendingCases = {} THEN "completed" ELSE runStatus
  /\ UNCHANGED <<manifest, status, retryCount, cost, attempts>>

=============================================================================
