--------------------------- MODULE ConsoleResults ---------------------------
(***************************************************************************)
(* What the console publishes of an IFEval job (console/results.py), while *)
(* its episodes end in any order, fail, are cancelled and are paid for     *)
(* later; and the report that scripts/score_benchmark.py makes of saved    *)
(* answers to the same cases.  A row is an operator of the state.  How an  *)
(* answer is graded is a choice made once: which instructions each text    *)
(* of it follows.  The Wilson interval and the descriptive columns are     *)
(* left out; Billing models how a receipt is fetched.                      *)
(***************************************************************************)
EXTENDS Integers, Sequences, FiniteSetsExt, SequencesExt

CONSTANTS
  CaseIds,        \* the frozen cases of the job
  InstructionsOf, \* the instructions of each case
  Whole,          \* the answer as it is
  Texts,          \* the texts the loose grader tries, Whole among them
  Answers,        \* the graded answers considered: case -> text -> followed
  RequestsOf,     \* the evidence an episode may leave: id -> estimate or Unpriced
  Unpriced,       \* no estimate
  Cost,           \* what each request id turns out to cost
  Absent          \* a null column

ASSUME ResultsAssumption ==
  /\ Whole \in Texts
  /\ \A a \in Answers, c \in CaseIds, v \in Texts : a[c][v] \subseteq InstructionsOf[c]
  /\ IsFiniteSet(CaseIds)
  /\ \A c \in CaseIds : InstructionsOf[c] /= {} /\ IsFiniteSet(InstructionsOf[c])
  /\ RequestsOf \subseteq Seq(Nat \cup {Unpriced}) /\ Unpriced \notin Nat
  /\ \A r \in RequestsOf : \A q \in DOMAIN r : Cost[q] \in Nat
  /\ Absent \notin Nat /\ Absent \notin BOOLEAN /\ Absent \notin RequestsOf

VARIABLES
  answer,   \* the graded answers
  job,      \* the job as the store keeps it
  paid,     \* the <<case, request>> receipts that are settled
  offline   \* the cases that the offline report selects and those that failed

resultVars == <<answer, job, paid, offline>>

ResultsInit ==
  /\ answer \in Answers
  /\ \E live \in BOOLEAN :
       job = [live |-> live, status |-> "running", completed |-> 0, scored |-> 0,
              correct |-> 0, episodes |-> <<>>, failed |-> FALSE,
              cost |-> IF live THEN Absent ELSE 0, billing |-> "pending", settled |-> {}]
  /\ paid = {}
  /\ offline = Absent

(* Grading *)

StrictList(c) == answer[c][Whole]

\* Mutant: the loose grader tries the revised texts only.
LooseWithoutTheWhole(c) == UNION {answer[c][v] : v \in Texts \ {Whole}}

LooseList(c) == UNION {answer[c][v] : v \in Texts}

AllOf(c, followed) == followed = InstructionsOf[c]

(* The job *)

Ended == {job.episodes[i].case : i \in DOMAIN job.episodes}

Receipts(e) == {<<e.case, q>> : q \in DOMAIN e.requests}

\* An episode ends: scored, or failed at any of its steps; its evidence is read.
EndEpisode(c, status, requests) ==
  /\ job.status = "running" /\ c \in CaseIds \ Ended
  /\ requests /= Absent \/ job.live
  /\ ~job.live => requests = Absent
  /\ LET correct == status = "scored" /\ (job.live => AllOf(c, StrictList(c))) IN
       job' = [job EXCEPT
         !.completed = @ + 1,
         !.scored    = @ + (IF status = "scored" THEN 1 ELSE 0),
         !.correct   = @ + (IF correct THEN 1 ELSE 0),
         !.failed    = @ \/ status /= "scored" \/ (~job.live /\ ~correct),
         !.episodes  = Append(@, [case |-> c, status |-> status, correct |-> correct,
                                  requests |-> requests])]
  /\ UNCHANGED <<answer, paid, offline>>

\* All episodes have ended.
EndJob ==
  /\ job.status = "running" /\ Ended = CaseIds
  /\ job' = [job EXCEPT !.status =
               IF (job.live /\ job.scored = Cardinality(CaseIds)) \/ (~job.live /\ ~job.failed)
               THEN "completed" ELSE "failed"]
  /\ UNCHANGED <<answer, paid, offline>>

\* A cancelled run records the cases under way as failed, and never the others.
CancelJob(under) ==
  /\ job.status = "running" /\ under \subseteq CaseIds \ Ended
  /\ job' = [job EXCEPT
       !.status = "cancelled",
       !.completed = @ + (IF job.live THEN Cardinality(under) ELSE 0),
       !.episodes = IF job.live
                    THEN @ \o [i \in 1 .. Cardinality(under) |->
                                 [case |-> SetToSeq(under)[i], status |-> "system_failed",
                                  correct |-> FALSE, requests |-> Absent]]
                    ELSE @]
  /\ UNCHANGED <<answer, paid, offline>>

EpisodeCost(e) == SumFunctionOnSet(Cost, DOMAIN e.requests)

TotalCost(es) == SumFunctionOnSet([e \in es |-> EpisodeCost(e)], es)

Episodes == {job.episodes[i] : i \in DOMAIN job.episodes}

\* The requests in evidence.
Requested == UNION {Receipts(e) : e \in {f \in Episodes : f.requests /= Absent}}

Unpaid == Requested \ paid

\* A pass over the job settles receipts, or none; an episode is settled with its
\* last receipt, the job with its last episode.
SettleReceipts(receipts) ==
  /\ job.live /\ job.status /= "running" /\ receipts \subseteq Unpaid
  /\ paid' = paid \cup receipts
  /\ LET due == {e \in Episodes : e.requests /= Absent /\ Receipts(e) \subseteq paid'}
         all == Len(job.episodes) = Cardinality(CaseIds) /\ due = Episodes
     IN job' = [job EXCEPT !.settled = {e.case : e \in due},
                           !.cost = IF all THEN TotalCost(due) ELSE @,
                           !.billing = IF all THEN "settled" ELSE @]
  /\ UNCHANGED <<answer, offline>>

\* score_benchmark.py grades the answers of a selection; its grader may fail.
ScoreOffline(selected, failing) ==
  /\ offline = Absent /\ selected /= {} /\ failing \subseteq selected
  /\ offline' = [selected |-> selected, failed |-> failing]
  /\ UNCHANGED <<answer, job, paid>>

ResultsNext ==
  \/ \E c \in CaseIds, status \in {"scored", "system_failed"},
        r \in RequestsOf \cup {Absent} : EndEpisode(c, status, r)
  \/ EndJob
  \/ \E under \in SUBSET CaseIds : CancelJob(under)
  \/ \E n \in 0 .. 1 : \E receipts \in kSubset(n, Unpaid) : SettleReceipts(receipts)
  \/ \E s \in SUBSET CaseIds : \E f \in SUBSET s : ScoreOffline(s, f)

ResultsSpec == ResultsInit /\ [][ResultsNext]_resultVars

(* The published columns *)

Total == Cardinality(CaseIds)

Settled == job.cost /= Absent /\ (~job.live \/ job.billing = "settled")

\* Every case scored, and not synthetic.
Valid == /\ job.status = "completed" /\ job.completed = Total
         /\ job.scored = Total /\ job.live

\* Over the instructions followed in each graded case.
CountOf(list)  == Cardinality({c \in DOMAIN list : AllOf(c, list[c])})
Followed(list) == SumFunctionOnSet([c \in DOMAIN list |-> Cardinality(list[c])], DOMAIN list)

\* The four IFEval metrics, as <<numerator, denominator>>, over a set of cases.
Metrics(graded, cases) ==
  LET strict == [c \in graded |-> StrictList(c)]
      loose  == [c \in graded |-> LooseList(c)]
      n      == Cardinality(cases)
      instructions == Followed([c \in cases |-> InstructionsOf[c]])
  IN [promptStrict |-> <<CountOf(strict), n>>,
      promptLoose  |-> <<CountOf(loose), n>>,
      instructionStrict |-> <<Followed(strict), instructions>>,
      instructionLoose  |-> <<Followed(loose), instructions>>]

IfevalMetrics ==
  IF ~Valid \/ Len(job.episodes) /= Total \/ Ended /= CaseIds
     \/ \E e \in Episodes : e.status /= "scored"
  THEN Absent ELSE Metrics(CaseIds, CaseIds)

\* The offline summary counts a failed case as a wrong answer.
AggregateScores == Metrics(offline.selected \ offline.failed, offline.selected)

\* The estimates, episode by episode.
EstimateOf(x) == (CHOOSE e \in Episodes : e.case = x[1]).requests[x[2]]
Known == {x \in Requested : EstimateOf(x) /= Unpriced}
SumOf(xs) == SumFunctionOnSet([x \in xs |-> EstimateOf(x)], xs)

\* The estimate of a job, or of an episode: that of all its requests, or none.
EstimatedCost(requests) ==
  IF requests = {} \/ ~(requests \subseteq Known) THEN Absent ELSE SumOf(requests)

ResultRow ==
  [accuracy    |-> IF Valid THEN <<job.correct, Total>> ELSE Absent,
   correct     |-> IF job.live THEN job.correct ELSE Absent,
   ifeval      |-> IfevalMetrics,
   cost        |-> IF Settled THEN job.cost ELSE Absent,
   perCorrect  |-> IF Valid /\ Settled /\ job.correct > 0
                   THEN <<job.cost, job.correct>> ELSE Absent,
   estimated   |-> EstimatedCost(Requested),
   known       |-> IF Known = {} THEN Absent ELSE SumOf(Known),
   missing     |-> Cardinality(Requested) - Cardinality(Known)]

EpisodeRow(e) ==
  [status    |-> e.status,
   correct   |-> IF job.live THEN e.correct ELSE Absent,
   strict    |-> IF job.live /\ e.status = "scored" THEN AllOf(e.case, StrictList(e.case))
                 ELSE Absent,
   cost      |-> IF e.case \in job.settled THEN EpisodeCost(e) ELSE Absent,
   estimated |-> EstimatedCost({x \in Requested : x[1] = e.case})]

-----------------------------------------------------------------------------
(* Properties *)

\* A job's row is what its episode rows add up to: an accuracy is shown only when
\* every frozen case has a scored episode that counts, a cost only when every
\* episode shows its own, and an estimate is whole when no usage is missing.
RowsAddUp ==
  LET row == ResultRow IN
  /\ row.accuracy /= Absent =>
       /\ \A c \in CaseIds : \E e \in Episodes : e.case = c /\ e.status = "scored"
       /\ row.accuracy[1] = Cardinality({e \in Episodes : EpisodeRow(e).strict = TRUE})
  /\ (row.cost /= Absent /\ job.live) =>
       /\ \A e \in Episodes : EpisodeRow(e).cost /= Absent
       /\ row.cost = SumFunctionOnSet([e \in Episodes |-> EpisodeRow(e).cost], Episodes)
  /\ (row.missing = 0 /\ row.known /= Absent) => row.estimated = row.known
  /\ row.estimated /= Absent =>
       \A e \in Episodes : e.requests \in RequestsOf /\ e.requests /= <<>>
                             => EpisodeRow(e).estimated /= Absent

\* A fixture run publishes nothing that could pass for a result.
FixturesClaimNothing ==
  ~job.live => /\ ResultRow.accuracy = Absent /\ ResultRow.correct = Absent
               /\ ResultRow.ifeval = Absent /\ ResultRow.perCorrect = Absent

\* Loose grading is never below strict grading; the accuracy shown is the strict
\* prompt metric; and the offline report of the same answers says the same, or
\* less where its own grader failed.
MetricsAgree ==
  LET shown == ResultRow.ifeval
      AtMost(a, b) == a[2] = b[2] /\ a[1] <= b[1]
      Ordered(m) == /\ AtMost(m.promptStrict, m.promptLoose)
                    /\ AtMost(m.instructionStrict, m.instructionLoose)
  IN /\ shown /= Absent => Ordered(shown) /\ shown.promptStrict = ResultRow.accuracy
     /\ offline /= Absent => Ordered(AggregateScores)
     /\ (shown /= Absent /\ offline /= Absent) => (offline.selected = CaseIds =>
          /\ \A k \in DOMAIN shown : AtMost(AggregateScores[k], shown[k])
          /\ offline.failed = {} => AggregateScores = shown)

\* The three together.
ConsoleAddsUp == RowsAddUp /\ FixturesClaimNothing /\ MetricsAgree
=============================================================================
