------------------------------- MODULE Billing -------------------------------
(***************************************************************************)
(* The console's account invoices (console/billing.py): once a live run is *)
(* over, a loop every minute and the user at any time ask the platform for *)
(* the invoice of each request of each episode, one after the other under  *)
(* scheduler.billing_lock.  Every request to the platform is an await: in  *)
(* between, other handlers may create a run, and the controller may die.   *)
(* Everything between two awaits is one step.                              *)
(*                                                                         *)
(* The run has one job; further runs matter here only as entries of the    *)
(* dictionary scheduler.runs, over which reconcile iterates.               *)
(***************************************************************************)
EXTENDS Integers, FiniteSets, FiniteSetsExt

CONSTANTS
  Receipts,     \* the requests of all episodes
  Charge,       \* what the platform charges for each of them
  Episodes,     \* the episodes of the job
  MaxCreated,   \* bound: runs created meanwhile
  MaxCrashes,   \* bound: how often the controller dies
  None          \* no value

ASSUME BillingAssumption ==
  /\ IsFiniteSet(Receipts) /\ Charge \in [Receipts -> Nat]
  /\ IsFiniteSet(Episodes)
  /\ {MaxCreated, MaxCrashes} \subseteq Nat
  /\ None \notin Nat

Callers == {"loop", "manual"}

VARIABLES
  run,      \* the run in memory: its final requests and invoices, see RunType
  stored,   \* the same run in the store
  task,     \* what each caller of reconcile waits for
  asked,    \* the request whose invoice the holder of the lock has asked for
  todo,     \* the requests of the iteration that are still to be visited
  refreshed,\* the token was refreshed once in this reconciliation
  created,  \* runs created since the start of the controller
  seen,     \* those of them the dictionary's iterator started with
  crashes

billingVars == <<run, stored, task, asked, todo, refreshed, created, seen, crashes>>

Holding == {"detail", "list"}

(***************************************************************************)
(* A run is over when its final status is saved.  An episode then has the  *)
(* requests of its evidence file, or none if that file is missing.  known  *)
(* are the requests with an id, without which no invoice can be asked for. *)
(***************************************************************************)
RunType ==
  [over : BOOLEAN,
   requests : [Episodes -> {None} \cup SUBSET Receipts],
   known : SUBSET Receipts,
   billed : [Receipts -> {None} \cup Nat],   \* billed_cost_usd_exact
   episodeCost : [Episodes -> {None} \cup Nat],
   cost : {None} \cup Nat]                   \* None: billing_status pending

NewRun == [over |-> FALSE, requests |-> [e \in Episodes |-> None], known |-> {},
           billed |-> [q \in Receipts |-> None],
           episodeCost |-> [e \in Episodes |-> None], cost |-> None]

BillingTypeOK ==
  /\ run \in RunType /\ stored \in RunType
  /\ task \in [Callers -> {"idle", "lock", "dead"} \cup Holding]
  /\ asked \in Receipts \cup {None}
  /\ todo \subseteq Receipts
  /\ refreshed \in BOOLEAN
  /\ created \in 0 .. MaxCreated /\ seen \in 0 .. created
  /\ crashes \in 0 .. MaxCrashes
  /\ Cardinality({c \in Callers : task[c] \in Holding}) <= 1

BillingInit ==
  /\ run = NewRun /\ stored = NewRun
  /\ task = [c \in Callers |-> "idle"]
  /\ asked = None /\ todo = {} /\ refreshed = FALSE
  /\ created = 0 /\ seen = 0 /\ crashes = 0

-----------------------------------------------------------------------------
(***************************************************************************)
(* aggregate_billing.                                                      *)
(***************************************************************************)
Sum(f, S) == SumFunctionOnSet(f, S)

\* Mutant: an episode without evidence counts as one without requests.
AggregateMissing(r) ==
  LET Of(e) == IF r.requests[e] = None THEN {} ELSE r.requests[e]
      episodeCost == [e \in Episodes |->
        IF \A q \in Of(e) : r.billed[q] /= None THEN Sum(r.billed, Of(e))
                                                ELSE r.episodeCost[e]]
  IN [r EXCEPT !.episodeCost = episodeCost,
       !.cost = IF \A e \in Episodes : episodeCost[e] /= None
                THEN Sum(episodeCost, Episodes) ELSE @]

\* An episode is settled when all its requests are, the job when all planned
\* episodes are there and settled.
Aggregate(r) ==
  LET Settled(e) == r.requests[e] /= None /\ \A q \in r.requests[e] : r.billed[q] /= None
      episodeCost == [e \in Episodes |-> IF Settled(e) THEN Sum(r.billed, r.requests[e])
                                                      ELSE r.episodeCost[e]]
  IN [r EXCEPT !.episodeCost = episodeCost,
       !.cost = IF \A e \in Episodes : episodeCost[e] /= None
                THEN Sum(episodeCost, Episodes) ELSE @]

-----------------------------------------------------------------------------
(***************************************************************************)
(* reconcile.                                                              *)
(***************************************************************************)
Free == \A c \in Callers : task[c] \notin Holding

\* Unsettled requests; those without an id are only counted as pending.
Askable(r) == {q \in UNION {r.requests[e] : e \in {e \in Episodes : r.requests[e] /= None}} :
                 q \in r.known /\ r.billed[q] = None}

\* The minute is over, or the user asks; billing is configured.
Begin(c) ==
  /\ task[c] = "idle"
  /\ task' = [task EXCEPT ![c] = "lock"]
  /\ UNCHANGED <<run, stored, asked, todo, refreshed, created, seen, crashes>>

(***************************************************************************)
(* The iterator of a dictionary raises RuntimeError at its next use, the   *)
(* last one included, if an entry was added since.  A user is told that    *)
(* billing is unavailable.  The loop does not catch it, and ends.          *)
(***************************************************************************)
Iterator(c, entries) == IF c = "loop" /\ created /= entries THEN "dead" ELSE "idle"

\* The lock is free.  ensure_fresh logs in without an await, and fails or
\* succeeds; a run that is not over is skipped; the first request is visited.
Acquire(c) ==
  /\ task[c] = "lock" /\ Free
  /\ refreshed' = FALSE
  /\ \/ /\ task' = [task EXCEPT ![c] = "idle"]
        /\ asked' = None /\ todo' = {} /\ seen' = 0
        /\ LET after == IF run.over THEN Aggregate(run) ELSE run IN
             /\ \/ run' = run           \* no token
                \/ run' = after /\ (~run.over \/ Askable(run) = {})
             /\ stored' = IF run' /= run THEN run' ELSE stored
     \/ /\ run.over
        /\ \E q \in Askable(run) : asked' = q /\ todo' = Askable(run) \ {q}
        /\ task' = [task EXCEPT ![c] = "detail"]
        /\ seen' = created
        /\ UNCHANGED <<run, stored>>
  /\ UNCHANGED <<created, crashes>>

\* What follows a visit: the next request, or the aggregation of the job and
\* the event that saves the run, and the next entry of the dictionary.
Advance(c, after) ==
  IF todo /= {}
  THEN /\ \E q \in todo : asked' = q /\ todo' = todo \ {q}
       /\ task' = [task EXCEPT ![c] = "detail"]
       /\ run' = after
       /\ UNCHANGED <<refreshed, seen>>
  ELSE /\ run' = Aggregate(after)
       /\ task' = [task EXCEPT ![c] = Iterator(c, seen)]
       /\ asked' = None /\ refreshed' = FALSE /\ seen' = 0
       /\ UNCHANGED todo

\* The first 401 logs in again and repeats the question, or fails there.
Unauthorized(c) ==
  /\ task[c] \in Holding /\ ~refreshed
  /\ refreshed' = TRUE
  /\ UNCHANGED <<run, stored, task, asked, todo, created, seen, crashes>>

\* A second 401, a 403, any other HTTP error, an answer that is no JSON or is
\* about another request, an invalid amount: an error both callers catch.
Error(c) ==
  /\ task[c] \in Holding
  /\ task' = [task EXCEPT ![c] = "idle"]
  /\ asked' = None /\ todo' = {} /\ refreshed' = FALSE /\ seen' = 0
  /\ UNCHANGED <<run, stored, created, crashes>>

\* Settled, but without the exact amount: the list has it.
Inexact(c) ==
  /\ task[c] = "detail"
  /\ task' = [task EXCEPT ![c] = "list"]
  /\ UNCHANGED <<run, stored, asked, todo, refreshed, created, seen, crashes>>

\* Unknown to the platform, not in the list exactly once, or not settled: the
\* request stays pending.
Pending(c) ==
  /\ task[c] \in Holding
  /\ Advance(c, run)
  /\ stored' = IF run' /= run THEN run' ELSE stored
  /\ UNCHANGED <<created, crashes>>

\* Mutant: the run is saved once its last request was visited.
InvoiceSavedLate(c) ==
  /\ task[c] \in Holding
  /\ Advance(c, Aggregate([run EXCEPT !.billed[asked] = Charge[asked]]))
  /\ stored' = IF task'[c] \in Holding THEN stored ELSE run'
  /\ UNCHANGED <<created, crashes>>

\* The invoice with its exact amount: each receipt is saved at once.
Invoice(c) ==
  /\ task[c] \in Holding
  /\ Advance(c, Aggregate([run EXCEPT !.billed[asked] = Charge[asked]]))
  /\ stored' = run'
  /\ UNCHANGED <<created, crashes>>

-----------------------------------------------------------------------------
\* The scheduler adds a run to the dictionary.
Create ==
  /\ created < MaxCreated
  /\ created' = created + 1
  /\ UNCHANGED <<run, stored, task, asked, todo, refreshed, seen, crashes>>

\* The controller dies and starts again from its store.
Restart ==
  /\ crashes < MaxCrashes
  /\ crashes' = crashes + 1
  /\ run' = stored
  /\ task' = [c \in Callers |-> "idle"]
  /\ asked' = None /\ todo' = {} /\ refreshed' = FALSE /\ seen' = 0
  /\ UNCHANGED <<stored, created>>

BillingNext ==
  \/ \E c \in Callers : \/ Begin(c) \/ Acquire(c) \/ Unauthorized(c) \/ Error(c)
                        \/ Inexact(c) \/ Pending(c) \/ Invoice(c)
  \/ Create \/ Restart

\* The run ends: its final status and the episodes' requests are saved.
Finish(requests, known) ==
  /\ ~run.over
  /\ run' = [run EXCEPT !.over = TRUE, !.requests = requests, !.known = known]
  /\ stored' = run'
  /\ UNCHANGED <<task, asked, todo, refreshed, created, seen, crashes>>

(***************************************************************************)
(* results.py: the cost a result row shows.                                *)
(***************************************************************************)
ShownCost(r) == r.cost

=============================================================================
