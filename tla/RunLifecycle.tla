---------------------------- MODULE RunLifecycle ----------------------------
(***************************************************************************)
(* What the console promises about the runs in its store, with no tasks,   *)
(* semaphores, cancellations or crashes: a run goes forward only, gathers  *)
(* one result for an episode and keeps it, ends once with a status its     *)
(* results justify, and is never taken up again.                           *)
(***************************************************************************)
CONSTANTS Runs, Workload

VARIABLES status, results

lifecycleVars == <<status, results>>

Init ==
  /\ status = [r \in Runs |-> "absent"]
  /\ results = [r \in Runs |-> [e \in Workload[r] |-> "none"]]

Create(r) ==
  /\ status[r] = "absent"
  /\ status' = [status EXCEPT ![r] = "queued"]
  /\ UNCHANGED results

Begin(r) ==
  /\ status[r] = "queued"
  /\ status' = [status EXCEPT ![r] = "running"]
  /\ UNCHANGED results

Report(r, e) ==
  /\ status[r] = "running"
  /\ results[r][e] = "none"
  /\ \E v \in {"accepted", "rejected"} : results' = [results EXCEPT ![r][e] = v]
  /\ UNCHANGED status

\* "completed" means that every episode was accepted, "failed" that one was
\* not; a run that never began can only be cancelled or interrupted.
End(r, s) ==
  /\ \/ status[r] = "running"
     \/ status[r] = "queued" /\ s \in {"cancelled", "interrupted"}
  /\ s = "completed" => \A e \in Workload[r] : results[r][e] = "accepted"
  /\ s = "failed"    => \E e \in Workload[r] : results[r][e] # "accepted"
  /\ status' = [status EXCEPT ![r] = s]
  /\ UNCHANGED results

Next ==
  \E r \in Runs :
    \/ Create(r) \/ Begin(r)
    \/ \E e \in Workload[r] : Report(r, e)
    \/ \E s \in {"completed", "failed", "cancelled", "interrupted"} : End(r, s)

Spec == Init /\ [][Next]_lifecycleVars

=============================================================================
