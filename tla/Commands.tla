------------------------------ MODULE Commands ------------------------------
(***************************************************************************)
(* The command line over several run ledgers (cli.py, recovery.py,         *)
(* rescoring.py, reporting.py): `run` executes the frozen cases, `run      *)
(* --retry-from` executes in a ledger of its own what a source left        *)
(* pending or failed, `rescore-browsecomp` scores the stored answers of a  *)
(* closed source again.  A command may die anywhere and be given again: its*)
(* run id is the hash of what it derives from, so it finds its ledger.     *)
(* Each ledger is written by one command at a time; commands over          *)
(* different ledgers run side by side, so a source may still be running    *)
(* when it is recovered.  Module Runner has the inside of an execution.    *)
(***************************************************************************)
EXTENDS Integers, FiniteSets, Functions

CONSTANTS
  Processes,   \* commands that run at the same time
  Runs,        \* the run ids an operator can arrive at
  Kind,        \* "run", "recovery" or "rescore"
  Source,      \* the source run of the derived ones
  Selected,    \* the selection of the recoveries
  Cases,       \* the frozen cases of the benchmark
  NeedsJudge,  \* cases whose answer is not literally the expected one
  Stage,       \* the stage all commands are given
  MaxRequests, \* --max-requests
  MaxJudge,    \* --max-judge-requests
  MaxRetries,  \* max_retries
  MaxAborts,   \* bound: commands that die
  None

ASSUME CommandsAssumption ==
  /\ IsFiniteSet(Cases) /\ NeedsJudge \subseteq Cases
  /\ None \notin Runs \cup Cases
  /\ Kind \in [Runs -> {"run", "recovery", "rescore"}]
  /\ \A r \in Runs : /\ Kind[r] /= "run" => Source[r] \in Runs
                     /\ Kind[r] = "recovery" => Selected[r] \subseteq Cases
  /\ {MaxRequests, MaxJudge, MaxRetries, MaxAborts} \subseteq Nat

VARIABLES
  closed,     \* runs.status is "completed"
  row,        \* the status of each case of each run, "absent" if it has no row
  attempts,   \* request_attempts of each
  judged,     \* the evaluator requests in its score details
  evidence,   \* evidence/summary.json of each run
  combined,   \* evidence/combined-summary.json of each recovery
  process,    \* what each command does
  asked,      \* history: judge requests sent for each run and case
  preserved,  \* history: cases complete in the source when a recovery was planned
  aborts

ledgerVars == <<closed, row, attempts, judged>>
history    == <<asked, preserved>>
vars == <<ledgerVars, evidence, combined, process, history, aborts>>

Terminal == {"completed", "system_failed", "invalid_output"}

Idle == [at |-> "idle", run |-> None, case |-> None, spent |-> 0]

\* What the summaries say.
Reports == [publishable : BOOLEAN, completed : SUBSET Cases, requests : Nat]

TypeOK ==
  /\ closed \subseteq Runs
  /\ row \in [Runs -> [Cases -> {"absent", "pending"} \cup Terminal]]
  /\ attempts \in [Runs -> [Cases -> 0 .. MaxRetries + 1]]
  /\ judged \in [Runs -> [Cases -> {0, 1}]]
  /\ evidence \in [Runs -> {None} \cup Reports] /\ combined \in [Runs -> {None} \cup Reports]
  /\ process \in [Processes ->
       [at : {"idle", "execute", "rescore", "evidence", "combine"},
        run : Runs \cup {None}, case : Cases \cup {None}, spent : Nat]]
  /\ asked \in [Runs -> [Cases -> Nat]] /\ preserved \in [Runs -> SUBSET Cases]
  /\ aborts \in 0 .. MaxAborts

Init ==
  /\ closed = {}
  /\ row = [r \in Runs |-> [c \in Cases |-> "absent"]]
  /\ attempts = [r \in Runs |-> [c \in Cases |-> 0]]
  /\ judged = attempts /\ asked = attempts
  /\ evidence = [r \in Runs |-> None] /\ combined = evidence
  /\ process = [p \in Processes |-> Idle]
  /\ preserved = [r \in Runs |-> {}]
  /\ aborts = 0

-----------------------------------------------------------------------------
(***************************************************************************)
(* What is read from a ledger.                                             *)
(***************************************************************************)
With(r, statuses) == {c \in Cases : row[r][c] \in statuses}
Pending(r)   == With(r, {"pending"})
Completed(r) == With(r, {"completed"})
RowsOf(r)    == With(r, {"pending"} \cup Terminal)
Exists(r)    == RowsOf(r) /= {}

\* summary.total_requests: attempts, and rows settled without any (a rescored
\* run has none) for one.
RequestCount(r) ==
  SumFunctionOnSet([c \in Cases |-> IF attempts[r][c] = 0 /\ row[r][c] \in Terminal
                                     THEN 1 ELSE attempts[r][c]], Cases)

\* build_evidence's publishable forgets that a recovery run is only a part.
PublishableSubset(r) == Stage = "publication" /\ Completed(r) = RowsOf(r)

\* build_evidence: a whole publication run, and not a recovery subset.
Publishable(r) ==
  /\ Stage = "publication"
  /\ Completed(r) = RowsOf(r)
  /\ Kind[r] /= "recovery"

\* Mutant: recover whatever is not completed or is no valid output.
SelectionOfFailed(source) == RowsOf(source) \ With(source, {"invalid_output"})

\* plan_recovery's selection policy.
Selection(source) == With(source, {"pending", "system_failed"})

\* plan_rescore: how many answers need the judge.
PlannedJudgments(source) == Cardinality(Completed(source) \cap NeedsJudge)

-----------------------------------------------------------------------------
Untaken(r) == \A p \in Processes : process[p].run /= r

\* initialize: rows that exist stay.
Initialize(r, cases) ==
  row' = [row EXCEPT ![r] = [c \in Cases |->
            IF c \in cases /\ @[c] = "absent" THEN "pending" ELSE @[c]]]

Start(p, r, at) ==
  /\ process[p] = Idle /\ Untaken(r)
  /\ process' = [process EXCEPT ![p] = [Idle EXCEPT !.at = at, !.run = r]]

\* run: the confirmed budget covers a request for each case and its evaluator.
Run(p, r) ==
  /\ Kind[r] = "run"
  /\ Cardinality(Cases) + Cardinality(NeedsJudge) <= MaxRequests
  /\ Start(p, r, "execute")
  /\ Initialize(r, Cases)
  /\ UNCHANGED <<closed, attempts, judged, evidence, combined, history, aborts>>

\* run --retry-from: the source has the frozen case set, and its selection is the
\* one this run id stands for.
Recover(p, r) ==
  /\ Kind[r] = "recovery"
  /\ RowsOf(Source[r]) = Cases
  /\ Selected[r] = Selection(Source[r]) /\ Selected[r] /= {}
  /\ Cardinality(Selected[r]) + Cardinality(Selected[r] \cap NeedsJudge) <= MaxRequests
  /\ Start(p, r, "execute")
  /\ Initialize(r, Selected[r])
  /\ preserved' = [preserved EXCEPT ![r] = @ \cup Completed(Source[r])]
  /\ UNCHANGED <<closed, attempts, judged, evidence, combined, asked, aborts>>

\* rescore-browsecomp: the source is closed and the confirmed judge requests
\* cover the plan.
Rescore(p, r) ==
  /\ Kind[r] = "rescore"
  /\ Source[r] \in closed
  /\ PlannedJudgments(Source[r]) <= MaxJudge
  /\ Start(p, r, "rescore")
  /\ Initialize(r, RowsOf(Source[r]))
  /\ UNCHANGED <<closed, attempts, judged, evidence, combined, history, aborts>>

-----------------------------------------------------------------------------
(***************************************************************************)
(* An execution, as module Runner has it, reduced to its ledger.           *)
(***************************************************************************)

\* Reserve and send a request.
Attempt(p) ==
  LET r == process[p].run IN
  /\ process[p].at = "execute" /\ process[p].case \in {None} \cup Pending(r)
  /\ \E c \in IF process[p].case = None THEN Pending(r) ELSE {process[p].case} :
       /\ attempts[r][c] <= MaxRetries
       /\ RequestCount(r) < MaxRequests
       /\ attempts' = [attempts EXCEPT ![r][c] = @ + 1]
       /\ process' = [process EXCEPT ![p].case = c]
  /\ UNCHANGED <<closed, row, judged, evidence, combined, history, aborts>>

\* The answer is scored or the case is given up; a case whose attempts are all
\* used up is failed without another.
Settle(p) ==
  LET r == process[p].run IN
  /\ process[p].at = "execute"
  /\ \E c \in Pending(r), s \in Terminal :
       /\ \/ process[p].case = c
          \/ process[p].case = None /\ attempts[r][c] > MaxRetries /\ s = "system_failed"
       /\ row' = [row EXCEPT ![r][c] = s]
       /\ judged' = [judged EXCEPT ![r][c] =
                       IF s = "completed" /\ c \in NeedsJudge THEN 1 ELSE 0]
  /\ process' = [process EXCEPT ![p].case = None]
  /\ UNCHANGED <<closed, attempts, evidence, combined, history, aborts>>

-----------------------------------------------------------------------------
(***************************************************************************)
(* rescore_run, whose counter of judge requests starts at 0.               *)
(***************************************************************************)
\* Mutant: a resumed rescoring starts over with all rows.
RescoringAll(p, c) ==
  /\ process[p].at = "rescore" /\ process[p].case = None
  /\ Pending(process[p].run) /= {}
  /\ c \in RowsOf(process[p].run)

Rescoring(p, c) ==
  /\ process[p].at = "rescore" /\ process[p].case = None
  /\ c \in Pending(process[p].run)

\* The judge is asked if the answer needs it and the number allows it.
AskJudge(p, c) ==
  LET r == process[p].run IN
  /\ Rescoring(p, c)
  /\ c \in Completed(Source[r]) \cap NeedsJudge
  /\ process[p].spent + 1 <= MaxJudge
  /\ asked' = [asked EXCEPT ![r][c] = @ + 1]
  /\ process' = [process EXCEPT ![p].case = c]
  /\ UNCHANGED <<ledgerVars, evidence, combined, preserved, aborts>>

TakeVerdict(p) ==
  LET r == process[p].run
      c == process[p].case IN
  /\ process[p].at = "rescore" /\ c /= None
  /\ row' = [row EXCEPT ![r][c] = "completed"]
  /\ judged' = [judged EXCEPT ![r][c] = 1]
  /\ process' = [process EXCEPT ![p].case = None, ![p].spent = @ + 1]
  /\ UNCHANGED <<closed, attempts, evidence, combined, history, aborts>>

\* An exact answer needs no judge, a failure is kept.
CopyRow(p, c) ==
  LET r == process[p].run IN
  /\ Rescoring(p, c)
  /\ c \notin Completed(Source[r]) \cap NeedsJudge
  /\ row' = [row EXCEPT ![r][c] = row[Source[r]][c]]
  /\ UNCHANGED <<closed, attempts, judged, evidence, combined, process, history, aborts>>

-----------------------------------------------------------------------------
(***************************************************************************)
(* The end of a command: the run is closed, then its evidence written.     *)
(***************************************************************************)

Close(p) ==
  LET r == process[p].run IN
  /\ process[p].at \in {"execute", "rescore"} /\ Pending(r) = {}
  /\ closed' = closed \cup {r}
  /\ process' = [process EXCEPT ![p].at = "evidence"]
  /\ UNCHANGED <<row, attempts, judged, evidence, combined, history, aborts>>

Evidence(p) ==
  LET r == process[p].run IN
  /\ process[p].at = "evidence"
  /\ evidence' = [evidence EXCEPT ![r] =
       [publishable |-> Publishable(r), completed |-> Completed(r),
        requests |-> RequestCount(r)]]
  /\ process' = [process EXCEPT ![p] =
       IF Kind[r] = "recovery" THEN [@ EXCEPT !.at = "combine"] ELSE Idle]
  /\ UNCHANGED <<ledgerVars, combined, history, aborts>>

\* build_recovery_evidence: the recovery's row for what was selected, the
\* source's for the rest, the requests of both.
Combine(p) ==
  LET r == process[p].run
      s == Source[r]
      of(c) == row[IF c \in Selected[r] THEN r ELSE s][c]
      completed == {c \in RowsOf(s) : of(c) = "completed"} IN
  /\ process[p].at = "combine"
  /\ RowsOf(r) = Selected[r]
  /\ combined' = [combined EXCEPT ![r] =
       [publishable |-> completed = RowsOf(s), completed |-> completed,
        requests |-> RequestCount(s) + RequestCount(r)]]
  /\ process' = [process EXCEPT ![p] = Idle]
  /\ UNCHANGED <<ledgerVars, evidence, history, aborts>>

\* The budget is used up, a policy or the judge fails, the process is killed.
Abort(p) ==
  /\ process[p] /= Idle /\ aborts < MaxAborts
  /\ aborts' = aborts + 1
  /\ process' = [process EXCEPT ![p] = Idle]
  /\ UNCHANGED <<ledgerVars, evidence, combined, history>>

Next ==
  \E p \in Processes :
    \/ \E r \in Runs : Run(p, r) \/ Recover(p, r) \/ Rescore(p, r)
    \/ Attempt(p) \/ Settle(p) \/ TakeVerdict(p)
    \/ \E c \in Cases : AskJudge(p, c) \/ CopyRow(p, c)
    \/ Close(p) \/ Evidence(p) \/ Combine(p) \/ Abort(p)

Spec == Init /\ [][Next]_vars

-----------------------------------------------------------------------------
\* However often a rescoring dies and is given again, with a counter that starts
\* at 0 each time, the judge is asked again only what it had no time to answer,
\* and no answer is recorded beyond the plan (rescoring.py:57-89, 152-167).
JudgedWithinPlan ==
  \A r \in Runs : Kind[r] = "rescore" =>
    /\ SumFunctionOnSet(asked[r], Cases) <= PlannedJudgments(Source[r]) + aborts
    /\ SumFunctionOnSet(judged[r], Cases) <= SumFunctionOnSet(asked[r], Cases)

\* Nobody gives rescore-browsecomp a recovery subset for its source.  Nothing in
\* plan_rescore refuses one (rescoring.py:57-66), and the "rescore" derivation of
\* the copy hides from build_evidence that it is a part.
SubsetsAreNotRescored ==
  \A r \in Runs : Kind[r] = "rescore" => Kind[Source[r]] /= "recovery"

\* Evidence that may be published, of one ledger or of two, stands for every
\* frozen case answered and scored (reporting.py:31-37, recovery.py:131-147).
PublishedIsWhole ==
  \A r \in Runs :
    /\ evidence[r] /= None /\ evidence[r].publishable => Completed(r) = Cases
    /\ combined[r] /= None /\ combined[r].publishable =>
         Completed(r) \cup Completed(Source[r]) = Cases

\* A recovery asks for no case again that its source had completed, and its
\* combined evidence counts all of those, though the source may go on meanwhile
\* (recovery.py:51-56, 92-95).
RecoveryKeepsWork ==
  \A r \in Runs :
    /\ \A c \in preserved[r] : attempts[r][c] = 0
    /\ combined[r] /= None => preserved[r] \subseteq combined[r].completed
=============================================================================
