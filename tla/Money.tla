-------------------------------- MODULE Money --------------------------------
(***************************************************************************)
(* What a live run costs, from the request an agent sends to the cost the  *)
(* console shows: the relay of an episode under test, whose ledger file    *)
(* survives it as the requests of the episode (live.py, live_scheduler.py; *)
(* module Episode has how), and the invoices the platform has for them.    *)
(* The other episodes of the job ended before: with a requests file or, if *)
(* their clean-up was cut short, without one.                              *)
(***************************************************************************)
EXTENDS Relay, Billing

CONSTANTS
  Tested,     \* the episode whose relay is modelled
  Earlier     \* the requests of each other episode

ASSUME MoneyAssumption ==
  /\ Tested \in Episodes /\ Requests \subseteq Receipts
  /\ DOMAIN Earlier = Episodes \ {Tested}
  /\ UNION {Earlier[e] : e \in DOMAIN Earlier} = Receipts \ Requests
  \* a request is in the file of one relay
  /\ \A d, e \in DOMAIN Earlier : d /= e => Earlier[d] \cap Earlier[e] = {}

VARIABLES
  evidence,   \* what the other episodes have of their requests
  paid        \* history: the requests of the tested episode that were sent

vars == <<relayVars, billingVars, evidence, paid>>

Init ==
  /\ RelayInit /\ BillingInit
  /\ evidence \in {f \in [DOMAIN Earlier -> {None} \cup SUBSET Receipts] :
                     \A e \in DOMAIN Earlier : f[e] \in {None, Earlier[e]}}
  /\ paid = {}

\* The container is gone; its file, if the clean-up got to copy it, becomes the
\* episode's requests, and the run ends.
Collect ==
  /\ ~up /\ ~run.over
  /\ LET ofTested == {r \in Requests : disk.requests[r] /= NoRecord} IN
     \E kept \in {None, ofTested} :
       Finish([e \in Episodes |-> IF e = Tested THEN kept ELSE evidence[e]],
              {r \in ofTested : disk.requests[r].id} \cup (Receipts \ Requests))
  /\ paid' = {r \in Requests : Sent(r)}
  /\ pc' = [r \in Requests |-> "body"]
  /\ reserved' = 0
  /\ record' = [r \in Requests |-> NoRecord]
  /\ signal' = [r \in Requests |-> Absent]
  /\ response' = [r \in Requests |->
       [kind |-> Absent, parsed |-> 0, completed |-> FALSE]]
  /\ disk' = [reserved |-> 0, requests |-> record']
  /\ UNCHANGED <<up, evidence>>

Next ==
  \/ ~run.over /\ RelayNext /\ UNCHANGED <<billingVars, evidence, paid>>
  \/ Collect
  \/ run.over /\ BillingNext /\ UNCHANGED <<relayVars, evidence, paid>>

Spec == Init /\ [][Next]_vars /\ RelayFairness

-----------------------------------------------------------------------------
TypeOK == RelayTypeOK /\ BillingTypeOK /\ paid \subseteq Requests

\* A cost is shown only if it is what the platform charges for every request of
\* every episode, whatever was answered, cut off, lost, saved or asked again
\* (billing.py:60-73, proxy.mjs:27-29, results.py:81-82, 133).
ShownCostIsCharged ==
  ShownCost(run) /= None =>
    ShownCost(run) = Sum(Charge, paid \cup (Receipts \ Requests))

\* Receipts never get lost: neither an error nor a crash takes one back, or asks
\* for it again (billing.py:178-182).
ReceiptsAreFinal ==
  [][\A q \in Receipts : run.billed[q] /= None => run'.billed[q] = run.billed[q]]_vars

\* The console synchronises invoices every minute (deploy/suites/README.md:24),
\* so the loop that does so lives as long as the controller.
LoopLives == task["loop"] /= "dead"
=============================================================================
