--------------------------- MODULE InspectReport ---------------------------
(***************************************************************************)
(* The comparison that scripts/inspect_report.py makes of the logs of a    *)
(* benchmark and the platform's billing export: which samples count, which *)
(* money is theirs, and how a routing variant stands against the fixed     *)
(* models.  Samples end, fail or are never recorded, requests settle late  *)
(* or never, and the report may be made at any moment: its columns are     *)
(* operators of the state.  Quotients are exact pairs; the rounding of the *)
(* printed columns is left out.                                            *)
(***************************************************************************)
EXTENDS Integers, Sequences, FiniteSetsExt, SequencesExt, Functions

CONSTANTS
  Fixed,          \* the models the baselines choose between
  Fusion,         \* the routing variants
  Samples,        \* the frozen sample ids, numbered
  Ends,           \* how each sample of each model may end
  Took,           \* its duration in the log, in whole units
  Lasted,         \* the duration of its request in the export
  Price,          \* what the request costs
  Strays,         \* models that another client uses meanwhile, and how
  VariantOrder,   \* rank of each model in the tables
  NoValue

\* The report compares something, and its tables order every two models.
ASSUME ReportAssumption ==
  /\ Samples \subseteq Nat \ {0} /\ IsFiniteSet(Samples)
  /\ IsFiniteSet(Fixed) /\ Fixed /= {}
  /\ \A m \in Fixed \cup Fusion, s \in Samples :
       /\ Ends[m][s] \subseteq {"right", "wrong", "failed", "cut"}
       /\ Took[m][s] \in Nat /\ Lasted[m][s] \in Nat /\ Price[m][s] \in Nat
  /\ \A m \in DOMAIN Strays : Strays[m].cost \in Nat /\ Strays[m].lasted \in Nat
  /\ \A m, n \in Fixed \cup Fusion :
       VariantOrder[m] \in Nat /\ (VariantOrder[m] = VariantOrder[n] => m = n)
  /\ NoValue \notin Int \X Int

VARIABLES
  outcome,    \* how each sample of each model has ended so far
  charged,    \* the line items of the export: the samples' and, as 0, a stray one
  settled,    \* those that are settled
  completed   \* the models whose log has a completion time

reportVars == <<outcome, charged, settled, completed>>

Models == Fixed \cup Fusion

ReportInit ==
  /\ outcome = [m \in Models |-> [s \in Samples |-> "missing"]]
  /\ charged = [m \in Models |-> {}]
  /\ settled = [m \in Models |-> {}]
  /\ completed = {}

\* A sample is scored or fails; a request that fails upstream is billed too.
Finish(m, s, end) ==
  /\ m \notin completed /\ outcome[m][s] = "missing" /\ end \in Ends[m][s]
  /\ outcome' = [outcome EXCEPT ![m][s] = end]
  /\ charged' = [charged EXCEPT ![m] = @ \cup {s}]
  /\ UNCHANGED <<settled, completed>>

\* Another client's request for the model, within the window of the run.
Stray(m) ==
  /\ m \in DOMAIN Strays /\ m \notin completed /\ 0 \notin charged[m]
  /\ charged' = [charged EXCEPT ![m] = @ \cup {0}]
  /\ UNCHANGED <<outcome, settled, completed>>

\* The platform settles what it can; a connection that was cut never settles.
SettleCharges(m) ==
  /\ LET due == {i \in charged[m] : i = 0 \/ outcome[m][i] /= "cut"} IN
       /\ due /= settled[m]
       /\ settled' = [settled EXCEPT ![m] = due]
  /\ UNCHANGED <<outcome, charged, completed>>

CompleteLog(m) ==
  /\ m \notin completed
  /\ completed' = completed \cup {m}
  /\ UNCHANGED <<outcome, charged, settled>>

ReportNext ==
  \E m \in Models :
    \/ \E s \in Samples, end \in {"right", "wrong", "failed", "cut"} : Finish(m, s, end)
    \/ Stray(m)
    \/ SettleCharges(m)
    \/ CompleteLog(m)

ReportSpec == ReportInit /\ [][ReportNext]_reportVars

(* Quotients *)

Q(n, d) == IF d = 0 THEN NoValue ELSE <<n, d>>
Less(a, b) == a[1] * b[2] < b[1] * a[2]
AtMost(a, b) == ~Less(b, a)
Plus(a, b) == <<a[1] * b[2] + b[1] * a[2], a[2] * b[2]>>
Minus(a, b) == <<a[1] * b[2] - b[1] * a[2], a[2] * b[2]>>
Times(a, b) == <<a[1] * b[1], a[2] * b[2]>>
Over(a, b) == IF b[1] > 0 THEN <<a[1] * b[2], a[2] * b[1]>>
                          ELSE <<-(a[1] * b[2]), -(a[2] * b[1])>>

\* The mean of the values of f.
Mean(f) ==
  IF DOMAIN f = {} THEN NoValue
  ELSE Over(FoldSet(LAMBDA x, sum : Plus(f[x], sum), <<0, 1>>, DOMAIN f),
            <<Cardinality(DOMAIN f), 1>>)

Smallest(S) == CHOOSE a \in S : \A b \in S : AtMost(a, b)

(* The samples of a model *)

Recorded(m) == {s \in Samples : outcome[m][s] /= "missing"}
Right(m)    == {s \in Samples : outcome[m][s] = "right"}
Scored(m)   == {s \in Samples : outcome[m][s] \in {"right", "wrong"}}
Erred(m)    == Recorded(m) \ Scored(m)

\* The planned set is that of the log's header, or what the log shows.
Planned(m) == IF Samples = {} THEN Cardinality(Recorded(m)) ELSE Cardinality(Samples)

Missing(m) == Max({Planned(m) - Cardinality(Scored(m)) - Cardinality(Erred(m)), 0})

ErrorKind(end) == CASE end = "cut" -> "connection" [] end = "failed" -> "upstream"
               [] OTHER -> end

ErrorKinds(m) ==
  [k \in {ErrorKind(outcome[m][s]) : s \in Erred(m)}
           \cup (IF Missing(m) > 0 THEN {"missing"} ELSE {}) |->
     IF k = "missing" THEN Missing(m)
     ELSE Cardinality({s \in Erred(m) : ErrorKind(outcome[m][s]) = k})]

\* Nearest rank.
Percentile(f, num, den) ==
  LET n == Cardinality(DOMAIN f)
      ordered == CHOOSE o \in [1 .. n -> DOMAIN f] : \A i, j \in 1 .. n :
                   i < j => \/ f[o[i]] < f[o[j]]
                            \/ f[o[i]] = f[o[j]] /\ o[i] < o[j]
      rank == Max({1, (num * n + den - 1) \div den})
  IN IF n = 0 THEN NoValue ELSE f[ordered[Min({rank, n})]]

Latency(m, num, den) == Percentile([s \in Scored(m) |-> Took[m][s]], num, den)

(* The money of a model *)

ItemCost(m, i) == IF i = 0 THEN Strays[m].cost ELSE Price[m][i]
ItemLasted(m, i) == IF i = 0 THEN Strays[m].lasted ELSE Lasted[m][i]

\* Without a completion time there is no window, and no line item is within.
EntriesForRun(m) == IF m \in completed THEN charged[m] ELSE {}

Billed(m) == EntriesForRun(m) \cap settled[m]

SettledCost(m) ==
  IF Billed(m) = {} THEN NoValue
  ELSE <<SumFunctionOnSet([i \in Billed(m) |-> ItemCost(m, i)], Billed(m)), 1>>

\* A sample and a settled item whose durations differ by 2 s or 15 % at most.
Candidates(m) ==
  {c \in {[sample |-> s, item |-> i,
           delta |-> LET d == Took[m][s] - ItemLasted(m, i) IN Max({d, -d})]
            : s \in Recorded(m), i \in Billed(m)} :
     100 * c.delta <= Max({200, 15 * Took[m][c.sample]})}

Before(c, d) ==
  \/ c.delta < d.delta
  \/ c.delta = d.delta /\ c.sample < d.sample
  \/ c.delta = d.delta /\ c.sample = d.sample /\ c.item < d.item

ReusingItems(c, d) == d.sample /= c.sample

Pairable(c, d) == d.sample /= c.sample /\ d.item /= c.item

\* The nearest pair first, and again among the pairs that still can be.
MatchSampleCosts(m) ==
  LET Greedy[cs \in SUBSET Candidates(m)] ==
        IF cs = {} THEN {}
        ELSE LET c == CHOOSE c \in cs : \A d \in cs \ {c} : Before(c, d)
             IN {c} \cup Greedy[{d \in cs : Pairable(c, d)}]
  IN Greedy[Candidates(m)]

(* One row of the report *)

Accuracy(m) == Q(Cardinality(Right(m)), Cardinality(Scored(m)))

CostPer(m, n) == IF SettledCost(m) = NoValue \/ n = 0 THEN NoValue
                 ELSE Over(SettledCost(m), <<n, 1>>)

Row(m) ==
  [planned |-> Planned(m), scored |-> Cardinality(Scored(m)),
   correct |-> Cardinality(Right(m)), error |-> Cardinality(Erred(m)),
   missing |-> Missing(m), kinds |-> ErrorKinds(m), accuracy |-> Accuracy(m),
   settled |-> SettledCost(m), billed |-> Cardinality(Billed(m)),
   perSample  |-> CostPer(m, Cardinality(Scored(m))),
   perPlanned |-> CostPer(m, Planned(m)),
   perCorrect |-> CostPer(m, Cardinality(Right(m))),
   p50 |-> Latency(m, 50, 100), p95 |-> Latency(m, 95, 100)]

(* The baselines *)

\* The cost of each scored sample: the matched item's, or the run's average.
SampleCosts(m) ==
  LET matched == MatchSampleCosts(m)
      average == CostPer(m, Cardinality(Scored(m)))
      Matching(s) == {c \in matched : c.sample = s}
  IN [s \in {s \in Scored(m) : Matching(s) /= {} \/ average /= NoValue} |->
        IF Matching(s) = {} THEN average
        ELSE <<ItemCost(m, (CHOOSE c \in Matching(s) : TRUE).item), 1>>]

SampleCostTable == [m \in Models |-> SampleCosts(m)]

PoolCost(table, m) == Mean(table[m])

\* Samples that some model of the pool has scored.
Evaluable == UNION {Scored(m) : m \in Fixed}

\* The most accurate model; of equals the cheapest; of equals the first.
BestSingle(table) ==
  LET Ahead(m, n) ==   \* by accuracy
        IF Accuracy(m) = NoValue THEN FALSE
        ELSE Accuracy(n) = NoValue \/ Less(Accuracy(n), Accuracy(m))
      Cheaper(m, n) ==
        IF PoolCost(table, m) = NoValue THEN FALSE
        ELSE PoolCost(table, n) = NoValue \/ Less(PoolCost(table, m), PoolCost(table, n))
  IN CHOOSE m \in Fixed : \A n \in Fixed \ {m} :
       \/ Ahead(m, n)
       \/ ~Ahead(n, m) /\ Cheaper(m, n)
       \/ ~Ahead(n, m) /\ ~Cheaper(n, m) /\ VariantOrder[m] < VariantOrder[n]

Winners(s) == {m \in Fixed : s \in Right(m)}

Priced(table, s) == {m \in Fixed : s \in DOMAIN table[m]}

CheapestOf(table, s, ms) == Smallest({table[m][s] : m \in ms})

OracleAccuracy ==
  Q(Cardinality({s \in Evaluable : Winners(s) /= {}}), Cardinality(Evaluable))

\* The cheapest right answer, or else the cheapest; unknown if one is unknown.
OracleCost(table) ==
  LET Choice(s) == IF Winners(s) = {} THEN Priced(table, s)
                                      ELSE Winners(s) \cap Priced(table, s)
  IN IF \E s \in Evaluable : Choice(s) = {} THEN NoValue
     ELSE Mean([s \in Evaluable |-> CheapestOf(table, s, Choice(s))])

\* Samples that the cheapest model gets wrong and another one right.
Routable(table) ==
  {s \in Evaluable : /\ Winners(s) /= {} /\ Priced(table, s) /= {}
                     /\ LET cheapest == CHOOSE m \in Priced(table, s) :
                               /\ table[m][s] = CheapestOf(table, s, Priced(table, s))
                               /\ \A n \in Priced(table, s) : VariantOrder[n] < VariantOrder[m]
                                     => table[n][s] /= CheapestOf(table, s, Priced(table, s))
                        IN cheapest \notin Winners(s)}

RandomAccuracy == Mean([m \in {m \in Fixed : Accuracy(m) /= NoValue} |-> Accuracy(m)])

RandomCost(table) ==
  IF \E m \in Fixed : PoolCost(table, m) = NoValue THEN NoValue
  ELSE Mean([m \in Fixed |-> PoolCost(table, m)])

(* The Pareto front of the pool, and the line of its random mixes *)

Points(table) ==
  {[model |-> m, cost |-> PoolCost(table, m), accuracy |-> Accuracy(m)]
     : m \in {m \in Fixed : PoolCost(table, m) /= NoValue /\ Accuracy(m) /= NoValue}}

Precedes(p, q) ==
  \/ Less(p.cost, q.cost)
  \/ AtMost(p.cost, q.cost) /\ Less(q.accuracy, p.accuracy)
  \/ /\ AtMost(p.cost, q.cost) /\ AtMost(q.accuracy, p.accuracy)
     /\ VariantOrder[p.model] < VariantOrder[q.model]

\* Cheapest first, each more accurate than all before it.
ParetoFront(table) ==
  LET best == {p \in Points(table) : \A q \in Points(table) \ {p} :
                 Precedes(q, p) => Less(q.accuracy, p.accuracy)}
      n    == Cardinality(best)
  IN CHOOSE f \in [1 .. n -> best] : \A i, j \in 1 .. n : i < j => Precedes(f[i], f[j])

\* The segment between two points of the front, at x on the one axis.
Between(x, low, high, from, to) ==
  Plus(from, Times(Over(Minus(x, low), Minus(high, low)), Minus(to, from)))

RandomMixAccuracy(front, cost) ==
  IF AtMost(cost, Head(front).cost) THEN Head(front).accuracy
  ELSE IF AtMost(Last(front).cost, cost) THEN Last(front).accuracy
  ELSE LET i == Min({i \in 2 .. Len(front) : AtMost(cost, front[i].cost)})
       IN Between(cost, front[i - 1].cost, front[i].cost,
                  front[i - 1].accuracy, front[i].accuracy)

RandomMixCost(front, accuracy) ==
  IF AtMost(accuracy, Head(front).accuracy) THEN Head(front).cost
  ELSE IF Less(Last(front).accuracy, accuracy) THEN NoValue
  ELSE LET i == Min({i \in 2 .. Len(front) : AtMost(accuracy, front[i].accuracy)})
       IN Between(accuracy, front[i - 1].accuracy, front[i].accuracy,
                  front[i - 1].cost, front[i].cost)

\* Above the line, or left of it; below, or right of it; on it.
ClassifyVsMix(front, cost, accuracy) ==
  IF cost = NoValue \/ accuracy = NoValue \/ front = <<>> THEN "unknown"
  ELSE LET line  == RandomMixAccuracy(front, cost)
           price == RandomMixCost(front, accuracy)
       IN IF price = NoValue \/ Less(line, accuracy) \/ Less(cost, price) THEN "above"
          ELSE IF Less(accuracy, line) \/ Less(price, cost) THEN "below"
          ELSE "on"

AboveRandomMix(front, v) ==
  ClassifyVsMix(front, CostPer(v, Cardinality(Scored(v))), Accuracy(v))

\* The share of the way from the best single model to the oracle.
HeadroomCaptured(table, v) ==
  LET best == Accuracy(BestSingle(table))
      unusable == NoValue \in {best, OracleAccuracy, Accuracy(v)}
  IN IF unusable THEN NoValue
     ELSE LET span == Minus(OracleAccuracy, best)
          IN IF span[1] = 0 THEN NoValue ELSE Over(Minus(Accuracy(v), best), span)

-----------------------------------------------------------------------------
(* Properties *)

\* Every planned sample is scored, erred or missing, and each loss has its kind;
\* the latencies are those of the answers.
SamplesAddUp ==
  \A m \in Models : LET r == Row(m) IN
    /\ r.scored + r.error + r.missing = r.planned
    /\ SumFunctionOnSet(r.kinds, DOMAIN r.kinds) = r.error + r.missing
    /\ r.scored > 0 => r.p50 <= r.p95

\* No item pays two samples and no sample is paid twice; no sample and item that
\* were not matched are nearer to each other than each is to its match; and the
\* samples together are given no more than the model was billed.
CostsAreAttributedOnce ==
  \A m \in Models : LET matched == MatchSampleCosts(m) IN
    /\ \A c, d \in matched : c.sample = d.sample <=> c.item = d.item
    /\ \A c \in Candidates(m) : \E d \in matched :
          (d.sample = c.sample \/ d.item = c.item) /\ d.delta <= c.delta
    /\ matched /= {} =>
         AtMost(<<SumFunctionOnSet([c \in matched |-> ItemCost(m, c.item)], matched), 1>>,
                SettledCost(m))

\* No fixed model that is as accurate at no more cost stands behind a variant
\* shown above the line, and one shown below it is no cheaper than all of them.
VerdictsAreFair ==
  \A table \in {SampleCostTable} : \A front \in {ParetoFront(table)} :
  \A v \in Fusion, p \in Points(table) :
    LET cost == CostPer(v, Cardinality(Scored(v))) IN
    /\ AboveRandomMix(front, v) = "above"
         => ~(AtMost(p.cost, cost) /\ AtMost(Accuracy(v), p.accuracy))
    /\ AboveRandomMix(front, v) = "below" => \E q \in Points(table) : AtMost(q.cost, cost)

\* The oracle is an upper bound of the single models where none lost a sample that
\* another one scored, and costs no more than a model that is always right;
\* what it gains over a model that is always the cheapest are the routable samples;
\* and the random choice is no cheaper than the cheapest point of the front.
OracleIsAchievable ==
  \A table \in {SampleCostTable} :
  /\ (\A m \in Fixed : Scored(m) = Evaluable) /\ Evaluable /= {}
       => AtMost(Accuracy(BestSingle(table)), OracleAccuracy)
  /\ RandomAccuracy /= NoValue => AtMost(RandomAccuracy, Accuracy(BestSingle(table)))
  /\ \A m \in Fixed : Right(m) = Evaluable /\ Evaluable /= {}
       /\ OracleCost(table) /= NoValue /\ DOMAIN table[m] = Evaluable
         => AtMost(OracleCost(table), PoolCost(table, m))
  /\ (\A m \in Fixed : Scored(m) = Evaluable)
       => \A v \in Fusion : HeadroomCaptured(table, v) /= NoValue =>
            (Less(<<1, 1>>, HeadroomCaptured(table, v)) <=> Less(OracleAccuracy, Accuracy(v)))
  /\ \A m \in Fixed :
       (/\ Scored(m) = Evaluable /\ Evaluable = DOMAIN table[m] /\ Evaluable /= {}
        /\ \A s \in Evaluable : \A n \in Priced(table, s) \ {m} : Less(table[m][s], table[n][s]))
       => OracleAccuracy[1] = Cardinality(Right(m)) + Cardinality(Routable(table))
  /\ RandomCost(table) /= NoValue
       => AtMost(Head(ParetoFront(table)).cost, RandomCost(table))

\* The four together (inspect_report.py:319-350, 462-567, 677-914).
InspectAddsUp == SamplesAddUp /\ CostsAreAttributedOnce /\ VerdictsAreFair /\ OracleIsAchievable
=============================================================================
