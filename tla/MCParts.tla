------------------------------ MODULE MCParts ------------------------------
(***************************************************************************)
(* Eight parts of the project that share no state with each other, checked *)
(* in one run: a behaviour is that of one part, the others rest in one of  *)
(* their initial states.  The instances are below.                         *)
(***************************************************************************)
EXTENDS Commands, Audits, Budgets, Datasets, Campaign, InspectReport,
        ConsoleResults, Sampling

CONSTANT Parts      \* the parts to check

VARIABLE part       \* the part of this behaviour

others == <<auditVars, budgetVars, datasetVars, campaignVars, reportVars,
            resultVars, samplingVars>>

\* Any initial state of its own part, one of the others.
PartsInit ==
  /\ part \in Parts
  /\ Init /\ AuditsInit /\ BudgetsInit /\ DatasetsInit /\ CampaignInit
  /\ ReportInit /\ ResultsInit /\ SamplingInit
  /\ part /= "audits" => old = {} /\ envFile = 0 /\ environ = 0 /\ mustSettle
  /\ part /= "campaign" => payload = [s \in Suites |-> {}]
  /\ part /= "sampling" => source = [s \in Sampled |-> "frozen"]
  /\ part /= "results" => job.live /\ answer = CHOOSE a \in Answers : TRUE

PartsNext ==
  /\ UNCHANGED part
  /\ \/ part = "commands" /\ Next /\ UNCHANGED others
     \/ /\ part /= "commands" /\ UNCHANGED vars
        /\ \/ part = "audits" /\ AuditsNext
              /\ UNCHANGED <<budgetVars, datasetVars, campaignVars, reportVars, resultVars, samplingVars>>
           \/ part = "budgets" /\ BudgetsNext
              /\ UNCHANGED <<auditVars, datasetVars, campaignVars, reportVars, resultVars, samplingVars>>
           \/ part = "datasets" /\ DatasetsNext
              /\ UNCHANGED <<auditVars, budgetVars, campaignVars, reportVars, resultVars, samplingVars>>
           \/ part = "campaign" /\ CampaignNext
              /\ UNCHANGED <<auditVars, budgetVars, datasetVars, reportVars, resultVars, samplingVars>>
           \/ part = "inspect" /\ ReportNext
              /\ UNCHANGED <<auditVars, budgetVars, datasetVars, campaignVars, resultVars, samplingVars>>
           \/ part = "results" /\ ResultsNext
              /\ UNCHANGED <<auditVars, budgetVars, datasetVars, campaignVars, reportVars, samplingVars>>
           \/ part = "sampling" /\ SamplingNext
              /\ UNCHANGED <<auditVars, budgetVars, datasetVars, campaignVars, reportVars, resultVars>>

PartsSpec == PartsInit /\ [][PartsNext]_<<part, vars, others>>

-----------------------------------------------------------------------------
\* Commands: a run of two cases, of which one needs the judge, a recovery of its
\* first case, and its rescoring.
MCRuns == {"S", "R1", "D"}
MCKind == [S |-> "run", R1 |-> "recovery", D |-> "rescore"]
MCSource == [r \in MCRuns |-> "S"]
MCSelected == [r \in MCRuns |-> IF r = "R1" THEN {"c1"} ELSE {}]

\* Budgets: no amount is no number.
MCNoAmount == -1

\* Campaign: one connection, with or without a price cap, and a plan of two efforts
\* over both suites, whose budget covers the episodes or also the simulator.
MCConnections ==
  {[family |-> "lyra", protocol |-> "anthropic_messages", cap |-> c] : c \in {0, 1}}
MCRequests ==
  {[suites |-> {"tau2", "swebench"},
    choices |-> {[target |-> "t1", harness |-> "claude_agent", efforts |-> {"low", "high"},
                  budget |-> 1, deadline |-> 600]},
    trials |-> 1, sample |-> 2, simulator |-> "t1", simulatorBudget |-> 1,
    budget |-> b, policy |-> "equal_cost"] : b \in {8, 12}}
MCSize == [v \in Versions |-> 2]

\* Datasets
MCResources == <<"punkt", "punkt_tab">>

\* Inspect: a cheap and a dear model and one that routes between them, two samples,
\* a stray request as long as the first of A's.
MCEnds ==
  [A |-> << {"right", "wrong"}, {"right", "cut"} >>,
   B |-> << {"right"}, {"wrong", "failed"} >>,
   F |-> << {"right"}, {"wrong"} >>]
MCTook   == [m \in {"A", "B", "F"} |-> <<100, 104>>]
MCLasted == [m \in {"A", "B", "F"} |-> <<98, 101>>]
MCPrice  == [A |-> <<4, 6>>, B |-> <<1, 2>>, F |-> <<2, 3>>]
MCStrays == [A |-> [cost |-> 1, lasted |-> 100]]
MCVariantOrder == [A |-> 1, B |-> 2, F |-> 3]

\* Results: two cases, an answer with a loose reading, evidence of up to two requests.
MCInstructionsOf == [c1 |-> {"i1", "i2"}, c2 |-> {"i1"}]
Graded(whole, revised) == [whole |-> whole, revised |-> revised]
MCAnswers ==
  [c1 : {Graded({"i1", "i2"}, {}), Graded({"i1"}, {"i2"}),
         Graded({"i1"}, {})},
   c2 : {Graded({"i1"}, {"i1"}), Graded({}, {"i1"})}]
MCRequestsOf == {<<>>, <<3>>, <<3, Unpriced>>}
MCCost == <<2, 1>>

\* Sampling: a suite whose case ids are other ids in another order, in two strata,
\* and one with a row without a label.
PackRow(case, official, label) == [case |-> case, official |-> official, label |-> label]
MCPackRows ==
  [gpqa   |-> {PackRow(1, 2, "bio"), PackRow(2, 3, "bio"), PackRow(3, 1, "bio"),
               PackRow(4, 4, "phys")},
   ifeval |-> {PackRow(1, 1, "one"), PackRow(2, 2, NoLabel)}]
MCSuiteList == <<"gpqa", "ifeval">>
MCLabelRank == [bio |-> 1, phys |-> 2, one |-> 3, uniform |-> 4]
MCSizes == {<<1, 1>>}
=============================================================================
