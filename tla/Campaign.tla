------------------------------ MODULE Campaign ------------------------------
(***************************************************************************)
(* From model connections and frozen packs to an admitted run              *)
(* (console/contracts.py, store.py, planner.py, preparation.py, the        *)
(* preparation in live_scheduler.py; suites/packs.py, swe_live.py).  An    *)
(* operator edits connections, freezes packs again and prepares SWE        *)
(* environments at any time: between the checks of a creation, which       *)
(* awaits the price catalog and the container engine, and between its end  *)
(* and the start of a job, which loads its pack anew.  A process that      *)
(* freezes a pack may die between its two renames.                         *)
(***************************************************************************)
EXTENDS Integers, FiniteSets, Functions

CONSTANTS
  TargetIds,      \* model connections the operator adds
  Connections,    \* what one may be: model family, protocol, price cap
  Requests,       \* the plan inputs the operator submits
  Versions,       \* contents a pack is frozen with
  First,          \* those of the packs that are there at first
  Size,           \* the number of cases of each
  Suites,         \* the suites packs exist for
  MaxFreezes, MaxEdits, MaxRuns,  \* bounds
  Nothing

ASSUME CampaignAssumption ==
  /\ Size \in [Versions -> Nat \ {0}]
  /\ {"tau2", "swebench"} \subseteq Suites /\ IsFiniteSet(Suites)
  \* what PlanInput validates
  /\ \A q \in Requests :
       /\ {q.trials, q.sample, q.simulatorBudget} \subseteq Nat
       /\ IsFiniteSet(q.choices) /\ \A c \in q.choices : c.budget \in Nat
  /\ Nothing \notin Connections

VARIABLES
  payload,      \* the versions of each suite's pack on disk
  manifest,     \* the version its manifest.json names
  freezing,     \* processes in freeze_pack
  targets,      \* the targets table
  plans,        \* the plans table
  environments, \* the versions whose SWE environments are prepared
  preparing,    \* the preparation that holds the lock, with the rows it read
  creating,     \* the run in _create
  admitted,     \* the runs
  executed,     \* history: the versions that the jobs of each run have loaded
  refrozen,     \* history: runs whose packs were frozen again after their check
  edits, freezes

packVars == <<payload, manifest, freezing, freezes>>
runVars  == <<creating, admitted, executed>>
campaignVars == <<packVars, runVars, targets, plans, environments, preparing,
                  refrozen, edits>>

CampaignInit ==
  /\ manifest \in [Suites -> {Nothing} \cup First]
  /\ payload = [s \in Suites |-> {manifest[s]} \ {Nothing}]
  /\ freezing = {} /\ freezes = 0
  /\ targets = [t \in TargetIds |-> Nothing]
  /\ plans = {} /\ environments = {} /\ preparing = Nothing
  /\ creating = Nothing /\ admitted = {}
  /\ executed = {} /\ refrozen = {}
  /\ edits = 0

-----------------------------------------------------------------------------
(***************************************************************************)
(* Packs.                                                                  *)
(***************************************************************************)

\* freeze_pack: the payload takes its place under its hash,
Freeze(s, v) ==
  /\ freezes < MaxFreezes
  /\ freezes' = freezes + 1
  /\ payload' = [payload EXCEPT ![s] = @ \cup {v}]
  /\ freezing' = freezing \cup {[suite |-> s, version |-> v]}
  /\ UNCHANGED <<manifest, runVars, targets, plans, environments, preparing, refrozen, edits>>

Using(s) == {r \in admitted : s \in r.plan.request.suites}

\* then the manifest that names it.
Name(f) ==
  /\ manifest' = [manifest EXCEPT ![f.suite] = f.version]
  /\ payload' = [payload EXCEPT ![f.suite] = @ \cup {f.version}]
  /\ freezing' = freezing \ {f}
  /\ refrozen' = refrozen \cup {[run |-> r.id, suite |-> f.suite] : r \in Using(f.suite)}
  /\ UNCHANGED <<freezes, runVars, targets, plans, environments, preparing, edits>>

DieFreezing(f) ==
  /\ freezing' = freezing \ {f}
  /\ UNCHANGED <<payload, manifest, freezes, runVars, targets, plans, environments,
                 preparing, refrozen, edits>>

\* load_pack finds what the manifest names, and its hash and count are right.
Loadable(s) == manifest[s] /= Nothing /\ manifest[s] \in payload[s]

-----------------------------------------------------------------------------
(***************************************************************************)
(* Connections and plans: each request to the server is one step.          *)
(***************************************************************************)

\* add_target, set_price_cap, delete_target
EditTarget(t, c) ==
  /\ edits < MaxEdits /\ targets[t] /= c
  /\ \/ targets[t] = Nothing \/ c = Nothing
     \/ /\ targets[t] /= Nothing /\ c /= Nothing
        /\ c.cap > 0 /\ c = [targets[t] EXCEPT !.cap = c.cap]
  /\ edits' = edits + 1
  /\ targets' = [targets EXCEPT ![t] = c]
  /\ UNCHANGED <<packVars, runVars, plans, environments, preparing, refrozen>>

\* capabilities
Harnesses(c) ==
  {h \in {"codex", "claude_agent"} :
     /\ h = "codex" <=> c.protocol = "openai_responses"
     /\ h = "claude_agent" <=> c.protocol = "anthropic_messages"
     /\ c.family = "gpt" => h = "codex"
     /\ c.family = "claude" => h = "claude_agent"}

CandidateEfforts(h) ==
  {"provider_default", "low", "medium", "high"}
    \cup (IF h = "codex" THEN {"xhigh"} ELSE {"max"})

\* PlanInput.valid_matrix
ValidMatrix(q) ==
  /\ q.suites \subseteq Suites /\ q.suites /= {} /\ q.choices /= {}
  /\ q.policy = "equal_cost" => Cardinality({c.budget : c \in q.choices}) <= 1
  /\ q.policy = "equal_time" => Cardinality({c.deadline : c \in q.choices}) <= 1

Compatible(c) ==
  /\ targets[c.target] /= Nothing
  /\ c.harness \in Harnesses(targets[c.target])
  /\ c.efforts \subseteq CandidateEfforts(c.harness)

\* Choices that differ in nothing but the order of their efforts are one variant.
Variants(q) ==
  UNION {{[target |-> c.target, harness |-> c.harness, effort |-> e, budget |-> c.budget,
           deadline |-> c.deadline, connection |-> targets[c.target]] : e \in c.efforts} :
         c \in q.choices}

Jobs(q, variants) == q.suites \X variants \X (1 .. q.trials)

\* episode_caps_total
CapsTotal(q, variants) ==
  SumFunctionOnSet([v \in variants |-> v.budget], variants) * Cardinality(q.suites) * q.trials * q.sample
    + IF "tau2" \in q.suites
      THEN q.simulatorBudget * Cardinality(variants) * q.trials * q.sample ELSE 0

\* build_plan and save_plan; a suite without a pack is named a blocker, a plan of
\* the same content is the same plan.
Plan(q) ==
  LET variants == Variants(q) IN
  /\ ValidMatrix(q) /\ \A c \in q.choices : Compatible(c)
  /\ "tau2" \in q.suites => q.simulator \in TargetIds /\ targets[q.simulator] /= Nothing
  /\ Cardinality(Jobs(q, variants)) * q.sample <= 10000
  /\ \A s \in q.suites : Loadable(s) => q.sample <= Size[manifest[s]]
  /\ plans' = plans \cup
       {[request |-> q, variants |-> variants,
         data |-> [s \in q.suites |-> IF Loadable(s) THEN manifest[s] ELSE Nothing],
         simulator |-> IF "tau2" \in q.suites THEN targets[q.simulator] ELSE Nothing,
         caps |-> CapsTotal(q, variants)]}
  /\ UNCHANGED <<packVars, runVars, targets, environments, preparing, refrozen, edits>>

-----------------------------------------------------------------------------
(***************************************************************************)
(* SWE environments: one preparation at a time, over the selected rows.    *)
(***************************************************************************)
StartPreparing(p) ==
  /\ preparing = Nothing /\ "swebench" \in p.request.suites
  /\ Loadable("swebench") /\ manifest["swebench"] = p.data["swebench"]
  /\ preparing' = p.data["swebench"]
  /\ UNCHANGED <<packVars, runVars, targets, plans, environments, refrozen, edits>>

\* It is done, or it fails: what is prepared is kept by the hash of its row.
EndPreparing ==
  /\ preparing /= Nothing
  /\ environments' \in {environments, environments \cup {preparing}}
  /\ preparing' = Nothing
  /\ UNCHANGED <<packVars, runVars, targets, plans, refrozen, edits>>

-----------------------------------------------------------------------------
(***************************************************************************)
(* Creation: _create's checks, the awaits of prepare, the comparison.      *)
(***************************************************************************)
Unchanged(p) ==
  /\ \A v \in p.variants : targets[v.target] = v.connection
  /\ p.simulator /= Nothing => targets[p.request.simulator] = p.simulator

\* The authorized budget is the plan's and covers every episode; the environments
\* of the rows that are frozen now are prepared.
Create(p) ==
  /\ creating = Nothing /\ Cardinality(admitted) < MaxRuns
  /\ Unchanged(p)
  /\ p.caps <= p.request.budget
  /\ "swebench" \in p.request.suites =>
       Loadable("swebench") /\ manifest["swebench"] \in environments
  /\ creating' = [id |-> Cardinality(admitted) + 1, plan |-> p]
  /\ UNCHANGED <<packVars, admitted, executed, targets, plans, environments, preparing,
                 refrozen, edits>>

\* Mutant: the packs are not compared again.
PacksLoadable(p) == \A s \in p.request.suites : Loadable(s)

\* Every pack is the one the plan froze.
PacksAreThePlans(p) ==
  \A s \in p.request.suites : Loadable(s) /\ manifest[s] = p.data[s]

\* price_bound: the public rates bound a model, else the operator's cap does.
Bounded(c, public) == c.family \in public \/ c.cap > 0

\* The price catalog has arrived, the images are there, the packs are compared;
\* nothing is awaited between that and the admission.
Admit(public) ==
  LET p == creating.plan IN
  /\ creating /= Nothing
  /\ creating' = Nothing
  /\ IF /\ PacksAreThePlans(p)
        /\ \A v \in p.variants : Bounded(v.connection, public)
        /\ p.simulator /= Nothing => Bounded(p.simulator, public)
     THEN admitted' = admitted \cup {creating}
     ELSE UNCHANGED admitted
  /\ UNCHANGED <<packVars, executed, targets, plans, environments, preparing, refrozen, edits>>

\* A job loads its pack when it starts.
StartJob(r, s) ==
  /\ Loadable(s)
  /\ executed' = executed \cup {[run |-> r.id, suite |-> s, version |-> manifest[s]]}
  /\ UNCHANGED <<packVars, creating, admitted, targets, plans, environments, preparing,
                 refrozen, edits>>

CampaignNext ==
  \/ \E s \in Suites, v \in Versions : Freeze(s, v)
  \/ \E f \in freezing : Name(f) \/ DieFreezing(f)
  \/ \E t \in TargetIds, c \in Connections \cup {Nothing} : EditTarget(t, c)
  \/ \E q \in Requests : Plan(q)
  \/ \E p \in plans : StartPreparing(p) \/ Create(p)
  \/ EndPreparing
  \/ \E public \in SUBSET {c.family : c \in Connections} : Admit(public)
  \/ \E r \in admitted : \E s \in r.plan.request.suites : StartJob(r, s)

CampaignSpec == CampaignInit /\ [][CampaignNext]_campaignVars

-----------------------------------------------------------------------------
\* What a run's relays may reserve: the budget of the variant for each episode, and
\* the simulator's for each of tau2.
Reservable(p) ==
  LET q    == p.request
      jobs == Jobs(q, p.variants)
      tau(j) == IF j[1] = "tau2" THEN q.simulatorBudget ELSE 0 IN
  q.sample * SumFunctionOnSet([j \in jobs |-> j[2].budget + tau(j)], jobs)

\* All the relays of an admitted run together cannot reserve more than the operator
\* authorized; its jobs run on the rows its plan froze unless a pack was frozen
\* again after the run was checked; and no reader is ever sent to a payload that is
\* not there (planner.py:221-234, live_scheduler.py:107-113, packs.py:46-51).
FrozenPlansAreKept ==
  /\ \A r \in admitted : Reservable(r.plan) <= r.plan.request.budget
  /\ \A e \in executed : \A r \in admitted : e.run = r.id =>
       \/ e.version = r.plan.data[e.suite]
       \/ [run |-> e.run, suite |-> e.suite] \in refrozen
  /\ \A s \in Suites : manifest[s] /= Nothing => Loadable(s)
=============================================================================
