------------------------------ MODULE Scheduler ------------------------------
(***************************************************************************)
(* The console's Scheduler (console/scheduler.py, live_scheduler.py) over  *)
(* its store: runs are admitted under a lock, each is one asyncio task     *)
(* holding a task group of jobs, each a task group of episodes behind      *)
(* three nested semaphores.  A user may cancel a run and the controller    *)
(* may crash between any two awaits; the next start marks what was active  *)
(* as interrupted.  Everything between two awaits is one step.             *)
(*                                                                         *)
(* A real ("live") and a synthetic ("smoke") run differ in what they       *)
(* record under cancellation and in when they save.  An episode result is  *)
(* "accepted" when it lets its job complete: graded (live), self-check     *)
(* passed (smoke).                                                         *)
(***************************************************************************)
EXTENDS Integers, FiniteSets

CONSTANTS
  Runs,         \* the runs users ask for
  LiveRuns,     \* those of them with mode "live"
  Workload,     \* the episodes of each run, as pairs <<job, case>>
  MaxActive,    \* queued or running runs admitted at once (4 in the code)
  GlobalLimit,  \* global_limit
  MaxJobs, PerJob, MaxEpisodes,  \* the limits a run was created with
  MaxCrashes    \* bound: how often the controller dies

ASSUME SchedulerAssumption ==
  /\ IsFiniteSet(Runs) /\ LiveRuns \subseteq Runs
  /\ \A r \in Runs : IsFiniteSet(Workload[r]) /\ Workload[r] # {}
  /\ {MaxActive, GlobalLimit, MaxJobs, PerJob, MaxEpisodes} \subseteq Nat \ {0}
  /\ MaxCrashes \in Nat

Active == {"queued", "running"}
Final  == {"completed", "failed", "cancelled", "interrupted"}

(***************************************************************************)
(* Where the task of an episode stands: waiting for the job's, the run's,  *)
(* the global semaphore with those before it held; executing with all      *)
(* three; or over: normally, while executing, or before it executed.       *)
(***************************************************************************)
Waiting == {"caseWait", "slotWait", "globalWait"}
Alive   == Waiting \cup {"executing"}
Stages  == {"none"} \cup Alive \cup {"returned", "aborted", "dropped"}

VARIABLES
  serving,    \* the controller is up
  creating,   \* runs whose create request passed admission and is preparing
  runStatus, jobStatus,  \* run["status"], job["status"] in memory
  result,     \* what job["episodes"] says of each episode, in memory
  stage,      \* the task of each episode
  task,       \* the task of each run
  cancel,     \* the user's cancel request of each run
  errored,    \* the jobs of each run that an exception escaped from
  stored,     \* the runs table
  crashes

memory == <<runStatus, jobStatus, result>>
vars == <<serving, creating, memory, stage, task, cancel, errored, stored,
          crashes>>

JobsOf(r)        == {e[1] : e \in Workload[r]}
EpisodesOf(r, j) == {e \in Workload[r] : e[1] = j}

\* What save_run writes: the whole run.
View(r) == [run |-> runStatus[r], jobs |-> jobStatus[r], results |-> result[r]]

Save(r) == stored' = [stored EXCEPT ![r] = View(r)']

ActiveRuns == {r \in Runs : runStatus[r] \in Active}

Views(r) ==
  [run : {"absent"} \cup Active \cup Final,
   jobs : [JobsOf(r) -> Active \cup Final],
   results : [Workload[r] -> {"none", "accepted", "rejected"}]]

TypeOK ==
  /\ serving \in BOOLEAN
  /\ creating \subseteq {r \in Runs : runStatus[r] = "absent"}
  /\ \A r \in Runs : View(r) \in Views(r) /\ stored[r] \in Views(r)
  /\ \A r \in Runs : stage[r] \in [Workload[r] -> Stages]
  /\ task \in [Runs -> {"none", "scheduled", "running", "done"}]
  /\ cancel \in [Runs -> {"none", "waiting", "returned"}]
  /\ \A r \in Runs : errored[r] \subseteq JobsOf(r)
  /\ crashes \in 0 .. MaxCrashes

Init ==
  /\ serving = TRUE
  /\ creating = {}
  /\ runStatus = [r \in Runs |-> "absent"]
  /\ jobStatus = [r \in Runs |-> [j \in JobsOf(r) |-> "queued"]]
  /\ result = [r \in Runs |-> [e \in Workload[r] |-> "none"]]
  /\ stage = [r \in Runs |-> [e \in Workload[r] |-> "none"]]
  /\ task = [r \in Runs |-> "none"]
  /\ cancel = [r \in Runs |-> "none"]
  /\ errored = [r \in Runs |-> {}]
  /\ stored = [r \in Runs |-> View(r)]
  /\ crashes = 0

-----------------------------------------------------------------------------
(***************************************************************************)
(* create: the creation lock is held over the awaits of the preparation.   *)
(***************************************************************************)

\* Mutant: admission without the creation lock.
BeginCreateUnlocked(r) ==
  /\ serving
  /\ runStatus[r] = "absent" /\ r \notin creating
  /\ Cardinality(ActiveRuns) < MaxActive
  /\ creating' = creating \cup {r}
  /\ UNCHANGED <<serving, memory, stage, task, cancel, errored, stored, crashes>>

\* Take the lock, count the active runs, start to prepare.
BeginCreate(r) ==
  /\ serving
  /\ creating = {}
  /\ runStatus[r] = "absent"
  /\ Cardinality(ActiveRuns) < MaxActive
  /\ creating' = {r}
  /\ UNCHANGED <<serving, memory, stage, task, cancel, errored, stored, crashes>>

\* The frozen run enters runs and the store, its task is scheduled.
FinishCreate(r) ==
  /\ r \in creating
  /\ creating' = creating \ {r}
  /\ runStatus' = [runStatus EXCEPT ![r] = "queued"]
  /\ task' = [task EXCEPT ![r] = "scheduled"]
  /\ UNCHANGED <<serving, jobStatus, result, stage, cancel, errored, crashes>>
  /\ Save(r)

\* A missing image, price or data set refuses the run; nothing is kept.
PrepareFails(r) ==
  /\ r \in creating
  /\ creating' = creating \ {r}
  /\ UNCHANGED <<serving, memory, stage, task, cancel, errored, stored, crashes>>

-----------------------------------------------------------------------------
(***************************************************************************)
(* execute: the task of a run and of its jobs.                             *)
(***************************************************************************)

Start(r) ==
  /\ task[r] = "scheduled"
  /\ task' = [task EXCEPT ![r] = "running"]
  /\ runStatus' = [runStatus EXCEPT ![r] = "running"]
  /\ UNCHANGED <<serving, creating, jobStatus, result, stage, cancel, errored,
                 crashes>>
  /\ Save(r)

JobOver(r, j) == \A e \in EpisodesOf(r, j) : stage[r][e] \notin Alive

\* Jobs whose task holds the run's job semaphore.
RunningJobs(r) ==
  {j \in JobsOf(r) : jobStatus[r][j] = "running"
                       /\ (j \in errored[r] => ~JobOver(r, j))}

\* A job gets the semaphore and starts its episodes.  This can still happen
\* after a sibling failed: its release wakes the next job before the task
\* group cancels the rest.  A live job may fail to load its data.
StartJob(r, j) ==
  /\ task[r] = "running"
  /\ jobStatus[r][j] = "queued"
  /\ Cardinality(RunningJobs(r)) < MaxJobs
  /\ jobStatus' = [jobStatus EXCEPT ![r][j] = "running"]
  /\ \/ /\ stage' = [stage EXCEPT ![r] =
                       [e \in Workload[r] |-> IF e[1] = j THEN "caseWait"
                                                          ELSE stage[r][e]]]
        /\ UNCHANGED errored
     \/ /\ r \in LiveRuns
        /\ errored' = [errored EXCEPT ![r] = @ \cup {j}]
        /\ UNCHANGED stage
  /\ UNCHANGED <<serving, creating, runStatus, result, task, cancel, crashes>>
  /\ Save(r)

Verdict(r, j) ==
  IF \A e \in EpisodesOf(r, j) : result[r][e] = "accepted"
    THEN "completed" ELSE "failed"

\* Mutant: one accepted episode is enough.
LenientJobEnds(r, j) ==
  /\ jobStatus[r][j] = "running" /\ j \notin errored[r]
  /\ \A e \in EpisodesOf(r, j) : stage[r][e] = "returned"
  /\ jobStatus' = [jobStatus EXCEPT ![r][j] =
                     IF \E e \in EpisodesOf(r, j) : result[r][e] = "accepted"
                       THEN "completed" ELSE "failed"]
  /\ UNCHANGED <<serving, creating, runStatus, result, stage, task, cancel,
                 errored, crashes>>
  /\ IF r \in LiveRuns THEN UNCHANGED stored ELSE Save(r)

\* Every episode returned.  A live job is not saved here.
JobEnds(r, j) ==
  /\ jobStatus[r][j] = "running" /\ j \notin errored[r]
  /\ \A e \in EpisodesOf(r, j) : stage[r][e] = "returned"
  /\ jobStatus' = [jobStatus EXCEPT ![r][j] = Verdict(r, j)]
  /\ UNCHANGED <<serving, creating, runStatus, result, stage, task, cancel,
                 errored, crashes>>
  /\ IF r \in LiveRuns THEN UNCHANGED stored ELSE Save(r)

\* How the outer task group ends, once every task in it is over: an exception
\* wins over a cancellation, a cancellation over the jobs' own verdicts.
Outcome(r) ==
  CASE errored[r] # {}         -> "failed"
    [] cancel[r] = "waiting"   -> "cancelled"
    [] \E j \in JobsOf(r) : jobStatus[r][j] = "failed" -> "failed"
    [] OTHER                   -> "completed"

\* Mutant: a cancelled group waits for the verdict of every job.
GroupOverWhenAllEnd(r) ==
  /\ \A e \in Workload[r] : stage[r][e] \notin Alive
  /\ \/ errored[r] # {}
     \/ \A j \in JobsOf(r) : jobStatus[r][j] \notin Active

\* Mutant: a failed group waits for the verdict of every job.
GroupOverUnlessFailed(r) ==
  /\ \A e \in Workload[r] : stage[r][e] \notin Alive
  /\ \/ cancel[r] = "waiting"
     \/ \A j \in JobsOf(r) : jobStatus[r][j] \notin Active

GroupOver(r) ==
  /\ \A e \in Workload[r] : stage[r][e] \notin Alive
  /\ \/ errored[r] # {} \/ cancel[r] = "waiting"
     \/ \A j \in JobsOf(r) : jobStatus[r][j] \notin Active

\* Mutant: the end is saved before the jobs get their final status.
RunEndsSavedEarly(r) ==
  /\ task[r] = "running"
  /\ GroupOver(r)
  /\ runStatus' = [runStatus EXCEPT ![r] = Outcome(r)]
  /\ jobStatus' = [jobStatus EXCEPT ![r] =
                     [j \in JobsOf(r) |-> IF @[j] \in Active THEN Outcome(r)
                                                             ELSE @[j]]]
  /\ stored' = [stored EXCEPT ![r] = [View(r) EXCEPT !.run = Outcome(r)]]
  /\ task' = [task EXCEPT ![r] = "done"]
  /\ UNCHANGED <<serving, creating, result, stage, cancel, errored, crashes>>

\* The outcome, the final status of the jobs left active, the save, the pop.
RunEnds(r) ==
  /\ task[r] = "running"
  /\ GroupOver(r)
  /\ runStatus' = [runStatus EXCEPT ![r] = Outcome(r)]
  /\ jobStatus' = [jobStatus EXCEPT ![r] =
                     [j \in JobsOf(r) |-> IF @[j] \in Active THEN Outcome(r)
                                                             ELSE @[j]]]
  /\ task' = [task EXCEPT ![r] = "done"]
  /\ UNCHANGED <<serving, creating, result, stage, cancel, errored, crashes>>
  /\ Save(r)

-----------------------------------------------------------------------------
(***************************************************************************)
(* The task of an episode.                                                 *)
(***************************************************************************)

Count(r, es, stages) == Cardinality({e \in es : stage[r][e] \in stages})

Executing == {re \in UNION {{r} \X Workload[r] : r \in Runs} :
                stage[re[1]][re[2]] = "executing"}

Advance(r, e, from, to) ==
  /\ stage[r][e] = from
  /\ stage' = [stage EXCEPT ![r][e] = to]
  /\ UNCHANGED <<serving, creating, memory, task, cancel, errored, stored,
                 crashes>>

AcquireCaseSlot(r, e) ==
  /\ Count(r, EpisodesOf(r, e[1]), Alive \ {"caseWait"}) < PerJob
  /\ Advance(r, e, "caseWait", "slotWait")

AcquireRunSlot(r, e) ==
  /\ Count(r, Workload[r], {"globalWait", "executing"}) < MaxEpisodes
  /\ Advance(r, e, "slotWait", "globalWait")

AcquireGlobalSlot(r, e) ==
  /\ Cardinality(Executing) < GlobalLimit
  /\ Advance(r, e, "globalWait", "executing")

\* The episode ends with a result, which is recorded and saved.
Finish(r, e) ==
  /\ stage[r][e] = "executing"
  /\ stage' = [stage EXCEPT ![r][e] = "returned"]
  /\ \E v \in {"accepted", "rejected"} : result' = [result EXCEPT ![r][e] = v]
  /\ UNCHANGED <<serving, creating, runStatus, jobStatus, task, cancel,
                 errored, crashes>>
  /\ Save(r)

\* An exception the handler does not name escapes.  The finally of a live
\* episode records it all the same, unless reading the evidence file raised.
Break(r, e) ==
  /\ stage[r][e] = "executing"
  /\ stage' = [stage EXCEPT ![r][e] = "aborted"]
  /\ errored' = [errored EXCEPT ![r] = @ \cup {e[1]}]
  /\ UNCHANGED <<serving, creating, runStatus, jobStatus, task, cancel, crashes>>
  /\ \/ /\ r \in LiveRuns
        /\ result' = [result EXCEPT ![r][e] = "rejected"]
        /\ Save(r)
     \/ UNCHANGED <<result, stored>>

\* The job's task group is being cancelled: by its own failure, by the user,
\* or because a sibling job's task has failed.
Aborting(r, j) ==
  \/ j \in errored[r]
  \/ cancel[r] = "waiting"
  \/ \E k \in errored[r] : JobOver(r, k)

DropWaiting(r, e) ==
  /\ Aborting(r, e[1])
  /\ stage[r][e] \in Waiting
  /\ stage' = [stage EXCEPT ![r][e] = "dropped"]
  /\ UNCHANGED <<serving, creating, memory, task, cancel, errored, stored,
                 crashes>>

\* Mutant: a cancelled live episode records nothing.
AbortSilently(r, e) ==
  /\ Aborting(r, e[1])
  /\ stage[r][e] = "executing"
  /\ stage' = [stage EXCEPT ![r][e] = "aborted"]
  /\ UNCHANGED <<serving, creating, memory, task, cancel, errored, stored,
                 crashes>>

\* CancelledError inside an episode: a live one records its evidence in its
\* finally, a smoke one has no handler for it.
AbortExecuting(r, e) ==
  /\ Aborting(r, e[1])
  /\ stage[r][e] = "executing"
  /\ stage' = [stage EXCEPT ![r][e] = "aborted"]
  /\ UNCHANGED <<serving, creating, runStatus, jobStatus, task, cancel,
                 errored, crashes>>
  /\ IF r \in LiveRuns
       THEN /\ result' = [result EXCEPT ![r][e] = "rejected"]
            /\ Save(r)
       ELSE UNCHANGED <<result, stored>>

-----------------------------------------------------------------------------
(***************************************************************************)
(* cancel, and the end and the restart of the controller.                  *)
(***************************************************************************)

\* Cancel the task and wait for it.  One that has not had its first step is
\* dropped without running any of execute.
Cancel(r) ==
  /\ task[r] \in {"scheduled", "running"}
  /\ cancel[r] = "none"
  /\ cancel' = [cancel EXCEPT ![r] = "waiting"]
  /\ task' = [task EXCEPT ![r] = IF @ = "scheduled" THEN "done" ELSE @]
  /\ UNCHANGED <<serving, creating, memory, stage, errored, stored, crashes>>

\* Mutant: the handler trusts the task to have settled the run.
CancelReturnsBlindly(r) ==
  /\ cancel[r] = "waiting" /\ task[r] = "done"
  /\ cancel' = [cancel EXCEPT ![r] = "returned"]
  /\ UNCHANGED <<serving, creating, memory, stage, task, errored, stored,
                 crashes>>

\* The task is over; a run it did not settle is settled here.
CancelReturns(r) ==
  /\ cancel[r] = "waiting" /\ task[r] = "done"
  /\ cancel' = [cancel EXCEPT ![r] = "returned"]
  /\ UNCHANGED <<serving, creating, result, stage, task, errored, crashes>>
  /\ IF runStatus[r] \in Active
       THEN /\ runStatus' = [runStatus EXCEPT ![r] = "cancelled"]
            /\ jobStatus' = [jobStatus EXCEPT ![r] =
                               [j \in JobsOf(r) |-> "cancelled"]]
            /\ Save(r)
       ELSE UNCHANGED <<runStatus, jobStatus, stored>>

\* The process dies; the next one reads the runs table.
Crash ==
  /\ serving
  /\ crashes < MaxCrashes
  /\ crashes' = crashes + 1
  /\ serving' = FALSE
  /\ creating' = {}
  /\ runStatus' = [r \in Runs |-> stored[r].run]
  /\ jobStatus' = [r \in Runs |-> stored[r].jobs]
  /\ result' = [r \in Runs |-> stored[r].results]
  /\ stage' = [r \in Runs |-> [e \in Workload[r] |-> "none"]]
  /\ task' = [r \in Runs |-> "none"]
  /\ cancel' = [r \in Runs |-> "none"]
  /\ errored' = [r \in Runs |-> {}]
  /\ UNCHANGED stored

\* Mutant: the jobs of an interrupted run keep their status.
InterruptRunOnly(r) ==
  /\ ~serving
  /\ runStatus[r] \in Active
  /\ runStatus' = [runStatus EXCEPT ![r] = "interrupted"]
  /\ UNCHANGED <<serving, creating, jobStatus, result, stage, task, cancel,
                 errored, crashes>>
  /\ Save(r)

\* Scheduler.__init__, one run after the other.
Interrupt(r) ==
  /\ ~serving
  /\ runStatus[r] \in Active
  /\ runStatus' = [runStatus EXCEPT ![r] = "interrupted"]
  /\ jobStatus' = [jobStatus EXCEPT ![r] =
                     [j \in JobsOf(r) |-> IF @[j] \in Active THEN "interrupted"
                                                             ELSE @[j]]]
  /\ UNCHANGED <<serving, creating, result, stage, task, cancel, errored,
                 crashes>>
  /\ Save(r)

Serve ==
  /\ ~serving
  /\ ActiveRuns = {}
  /\ serving' = TRUE
  /\ UNCHANGED <<creating, memory, stage, task, cancel, errored, stored, crashes>>

-----------------------------------------------------------------------------
RunStep(r) ==
  \/ FinishCreate(r) \/ PrepareFails(r)
  \/ Start(r) \/ RunEnds(r) \/ CancelReturns(r) \/ Interrupt(r)
  \/ \E j \in JobsOf(r) : StartJob(r, j) \/ JobEnds(r, j)

EpisodeStep(r, e) ==
  \/ AcquireCaseSlot(r, e) \/ AcquireRunSlot(r, e) \/ AcquireGlobalSlot(r, e)
  \/ Finish(r, e) \/ Break(r, e) \/ DropWaiting(r, e) \/ AbortExecuting(r, e)

Next ==
  \/ \E r \in Runs :
       \/ BeginCreate(r) \/ Cancel(r)
       \/ RunStep(r)
       \/ \E e \in Workload[r] : EpisodeStep(r, e)
  \/ Crash \/ Serve

Spec == Init /\ [][Next]_vars

(***************************************************************************)
(* The event loop steps every ready task, the semaphores are FIFO, and     *)
(* each await of an episode has a deadline.  Users need not do anything,   *)
(* and nothing crashes by force.                                           *)
(***************************************************************************)
FairSpec ==
  /\ Spec
  /\ \A r \in Runs :
       /\ WF_vars(RunStep(r))
       /\ \A e \in Workload[r] : WF_vars(EpisodeStep(r, e))
  /\ WF_vars(Serve)

-----------------------------------------------------------------------------
\* The admission check counts active runs before a long preparation: the
\* creation lock must keep two requests from passing it together
\* (scheduler.py:81-83, 115, 158).
ActiveLimit == Cardinality(ActiveRuns) <= MaxActive

\* An active run is being driven by a task or by a cancel request that will
\* settle it: none is left active for ever, counting against MaxActive, also
\* when its task was cancelled before its first step (scheduler.py:294-306).
ActiveIsOwned ==
  serving => \A r \in ActiveRuns :
    task[r] \in {"scheduled", "running"} \/ cancel[r] = "waiting"

\* When a run is reported over, no episode of it waits or executes and none of
\* its jobs is shown as active (scheduler.py:273-293, live_scheduler.py:294-311).
FinalRunsAreQuiet ==
  \A r \in Runs : runStatus[r] \in Final =>
    /\ \A e \in Workload[r] : stage[r][e] \notin Alive
    /\ \A j \in JobsOf(r) : jobStatus[r][j] \in Final

\* What users see of a run that is over is what a restart would show
\* (scheduler.py:290-292, live_scheduler.py:305-311).
FinalIsDurable ==
  \A r \in Runs : runStatus[r] \in Final => stored[r] = View(r)

\* An executed episode of a live run, cancelled or not, leaves its result and
\* with it its request evidence in the store (live_scheduler.py:258-286),
\* unless an exception took the run down.
ExecutedIsRecorded ==
  \A r \in LiveRuns : errored[r] = {} =>
    \A e \in Workload[r] :
      stage[r][e] \in {"returned", "aborted"} => stored[r].results[e] # "none"

\* The store only ever shows what RunLifecycle allows: runs go forward, keep
\* their results over every crash, end with a status the results justify, and
\* are never taken up again (scheduler.py:33-39 promises no repeated requests).
Lifecycle == INSTANCE RunLifecycle WITH
  status  <- [r \in Runs |-> stored[r].run],
  results <- [r \in Runs |-> stored[r].results]

ImplementsRunLifecycle == Lifecycle!Spec

\* Every admitted run ends: the nested semaphores, the task groups, a failing
\* sibling, a cancellation and a crash leave none hanging.
RunsEnd == \A r \in Runs : (runStatus[r] \in Active) ~> (runStatus[r] \in Final)

\* A cancel request is answered, with the run over (scheduler.py:294-306).
CancelAnswered ==
  \A r \in Runs :
    (cancel[r] = "waiting") ~> (cancel[r] # "waiting" /\ runStatus[r] \in Final)

=============================================================================
