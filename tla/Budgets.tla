------------------------------ MODULE Budgets ------------------------------
(***************************************************************************)
(* The reservation ledger (console/budget.py): workers, each with a        *)
(* connection of its own, reserve the upper bound of a request against a   *)
(* frozen budget before it is sent and settle it to what it cost.  Only    *)
(* the tests use it; the episodes reserve in the relay's own ledger.  A    *)
(* transaction opened by BEGIN IMMEDIATE holds the write lock of the       *)
(* database until COMMIT or ROLLBACK; a worker may die inside one.  Amounts *)
(* are micro-USD already.                                                  *)
(***************************************************************************)
EXTENDS Integers, FiniteSets, FiniteSetsExt

CONSTANTS Workers, BudgetIds, RequestIds, EventIds,
          Amounts,      \* caps, bounds and settlements the callers name
          NoWorker, NoAmount

ASSUME BudgetsAssumption ==
  /\ Amounts \subseteq Nat /\ NoAmount \notin Nat
  /\ NoWorker \notin Workers /\ IsFiniteSet(RequestIds)

VARIABLES
  cap,       \* budgets.cap, 0 if there is no row
  rows,      \* the reservations: request, budget, reserved, settled, event
  lock,      \* the worker that holds the write lock
  call       \* what each worker is doing

budgetVars == <<cap, rows, lock, call>>

Waiting == [do |-> "none"]

BudgetsInit ==
  /\ cap = [b \in BudgetIds |-> 0]
  /\ rows = {}
  /\ lock = NoWorker
  /\ call = [w \in Workers |-> Waiting]

RowsFor(q) == {r \in rows : r.request = q}

Held(r) == IF r.settled = NoAmount THEN r.reserved ELSE r.settled

HeldBy(S) == SumFunctionOnSet([r \in S |-> Held(r)], S)

Committed(b) == HeldBy({r \in rows : r.budget = b})

\* An event id is taken by one reservation (event_id TEXT UNIQUE).
EventFree(e, q) == \A r \in rows : r.event = e => r.request = q

\* INSERT OR IGNORE, a transaction of its own; the comparison that follows only
\* tells the caller.
Define(b, a) ==
  /\ lock = NoWorker /\ a > 0
  /\ cap' = IF cap[b] = 0 THEN [cap EXCEPT ![b] = a] ELSE cap
  /\ UNCHANGED <<rows, lock, call>>

\* Mutant: no transaction, each statement commits on its own.
Autocommit(w, work) ==
  /\ call[w] = Waiting
  /\ call' = [call EXCEPT ![w] = work]
  /\ UNCHANGED <<cap, rows, lock>>

\* BEGIN IMMEDIATE
BeginImmediate(w, work) ==
  /\ call[w] = Waiting /\ lock = NoWorker
  /\ lock' = w
  /\ call' = [call EXCEPT ![w] = work]
  /\ UNCHANGED <<cap, rows>>

Begin(w) ==
  \/ \E q \in RequestIds, b \in BudgetIds, a \in Amounts \ {0} :
       BeginImmediate(w, [do |-> "reserve", request |-> q, budget |-> b,
                          amount |-> a, may |-> FALSE])
  \/ \E q \in RequestIds, e \in EventIds, a \in Amounts :
       BeginImmediate(w, [do |-> "settle", request |-> q, event |-> e,
                          amount |-> a, may |-> FALSE])

\* The SELECTs: a new reservation must fit, a settlement needs its reservation
\* and an event that is new; anything else leaves the ledger as it is.
Fits(k) ==
  IF k.do = "reserve"
  THEN /\ RowsFor(k.request) = {}
       /\ cap[k.budget] > 0
       /\ Committed(k.budget) + k.amount <= cap[k.budget]
  ELSE /\ \E r \in RowsFor(k.request) : r.settled = NoAmount
       /\ EventFree(k.event, k.request)

Select(w) ==
  /\ call[w].do \in {"reserve", "settle"} /\ ~call[w].may
  /\ IF Fits(call[w])
     THEN call' = [call EXCEPT ![w].may = TRUE] /\ UNCHANGED lock
     ELSE /\ call' = [call EXCEPT ![w] = Waiting]
          /\ lock' = IF lock = w THEN NoWorker ELSE lock
  /\ UNCHANGED <<cap, rows>>

\* INSERT or UPDATE, and COMMIT
Commit(w) ==
  LET k == call[w] IN
  /\ k.do \in {"reserve", "settle"} /\ k.may
  /\ rows' = IF k.do = "reserve"
             THEN rows \cup {[request |-> k.request, budget |-> k.budget,
                              reserved |-> k.amount, settled |-> NoAmount, event |-> "none"]}
             ELSE {IF r.request = k.request
                   THEN [r EXCEPT !.settled = k.amount, !.event = k.event] ELSE r : r \in rows}
  /\ call' = [call EXCEPT ![w] = Waiting]
  /\ lock' = IF lock = w THEN NoWorker ELSE lock
  /\ UNCHANGED cap

\* A worker dies, or its statement fails: SQLite rolls back.
Rollback(w) ==
  /\ call[w] /= Waiting
  /\ call' = [call EXCEPT ![w] = Waiting]
  /\ lock' = IF lock = w THEN NoWorker ELSE lock
  /\ UNCHANGED <<cap, rows>>

BudgetsNext ==
  \/ \E b \in BudgetIds, a \in Amounts : Define(b, a)
  \/ \E w \in Workers : Begin(w) \/ Select(w) \/ Commit(w) \/ Rollback(w)

BudgetsSpec == BudgetsInit /\ [][BudgetsNext]_budgetVars

\* summary
OverBudget(b) == Committed(b) > cap[b]

-----------------------------------------------------------------------------
Excess(r) == IF r.settled = NoAmount \/ r.settled < r.reserved
             THEN 0 ELSE r.settled - r.reserved

ExcessOf(S) == SumFunctionOnSet([r \in S |-> Excess(r)], S)

\* However the workers' calls interleave, are repeated or die, what is held
\* against a budget exceeds its cap at most by what settlements cost more than
\* their reservations, a request is reserved once and an event settles one
\* request (budget.py:46-104).
ReservationsHold ==
  /\ \A b \in BudgetIds :
       OverBudget(b) =>
         Committed(b) - ExcessOf({r \in rows : r.budget = b}) <= cap[b]
  /\ \A q \in RequestIds : Cardinality(RowsFor(q)) <= 1
  /\ \A r, s \in rows : r.event = s.event /\ r.event /= "none" => r = s
=============================================================================
