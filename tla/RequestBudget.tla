---------------------------- MODULE RequestBudget ----------------------------
(***************************************************************************)
(* What the evaluation kernel promises about paid target requests, with no *)
(* threads, retries, crashes or clocks: under a limit frozen once, each    *)
(* request is reserved before it is issued, no reservation is issued       *)
(* twice, none is issued for a case that is already settled, a case stays  *)
(* settled, and the run closes only when every case is.                    *)
(***************************************************************************)
EXTENDS Integers, FiniteSets

CONSTANTS Cases, Specs, None

VARIABLES frozen, reserved, issued, settled, closed

budgetVars == <<frozen, reserved, issued, settled, closed>>

Init ==
  /\ frozen \in Specs \cup {None}
  /\ issued = {} /\ closed = FALSE
  /\ settled \subseteq Cases
  /\ IF frozen = None
       THEN reserved = {} /\ settled = {}
       ELSE /\ reserved \subseteq settled \X (0 .. frozen.maxRetries)
            /\ Cardinality(reserved) <= frozen.maxRequests

Freeze(s) ==
  /\ frozen = None
  /\ frozen' = s
  /\ UNCHANGED <<reserved, issued, settled, closed>>

Reserve(c) ==
  /\ frozen # None
  /\ c \notin settled
  /\ Cardinality(reserved) < frozen.maxRequests
  /\ \E n \in 0 .. frozen.maxRetries :
       /\ <<c, n>> \notin reserved
       /\ reserved' = reserved \cup {<<c, n>>}
  /\ UNCHANGED <<frozen, issued, settled, closed>>

Issue(c) ==
  /\ c \notin settled
  /\ \E a \in reserved \ issued :
       /\ a[1] = c
       /\ issued' = issued \cup {a}
  /\ UNCHANGED <<frozen, reserved, settled, closed>>

Settle(c) ==
  /\ c \notin settled
  /\ \E a \in reserved : a[1] = c
  /\ settled' = settled \cup {c}
  /\ UNCHANGED <<frozen, reserved, issued, closed>>

Close ==
  /\ settled = Cases
  /\ closed' = TRUE
  /\ UNCHANGED <<frozen, reserved, issued, settled>>

Next ==
  \/ \E s \in Specs : Freeze(s)
  \/ \E c \in Cases : Reserve(c) \/ Issue(c) \/ Settle(c)
  \/ Close

Spec == Init /\ [][Next]_budgetVars

=============================================================================
