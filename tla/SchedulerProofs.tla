-------------------------- MODULE SchedulerProofs --------------------------
(***************************************************************************)
(* Theorems about Scheduler, for every finite set of runs, every workload, *)
(* every division into live and smoke runs, every limit and every number   *)
(* of crashes.                                                             *)
(***************************************************************************)
EXTENDS Scheduler, FiniteSetTheorems, TLAPS

(***************************************************************************)
(* The inductive invariant, in named parts.  All but the first two speak   *)
(* of one run.                                                             *)
(***************************************************************************)

\* What does not belong to a single run, and that every run has its state.
GlobalShape ==
  /\ serving \in BOOLEAN
  /\ crashes \in 0 .. MaxCrashes
  /\ runStatus = [r \in Runs |-> runStatus[r]]
  /\ jobStatus = [r \in Runs |-> jobStatus[r]]
  /\ result = [r \in Runs |-> result[r]] /\ stage = [r \in Runs |-> stage[r]]
  /\ task = [r \in Runs |-> task[r]] /\ cancel = [r \in Runs |-> cancel[r]]
  /\ errored = [r \in Runs |-> errored[r]]
  /\ stored = [r \in Runs |-> stored[r]]

\* The creation lock admits one run at a time, of a serving controller and
\* within the limit.
AdmissionShape ==
  /\ creating \subseteq {r \in Runs : runStatus[r] = "absent"}
  /\ \A r, q \in creating : r = q
  /\ creating # {} => serving
  /\ Cardinality(ActiveRuns \cup creating) <= MaxActive

TypeOfRun(r) ==
  /\ runStatus[r] \in {"absent"} \cup Active \cup Final
  /\ jobStatus[r] \in [JobsOf(r) -> Active \cup Final]
  /\ result[r] \in [Workload[r] -> {"none", "accepted", "rejected"}]
  /\ stored[r] \in Views(r)
  /\ stage[r] \in [Workload[r] -> Stages]
  /\ task[r] \in {"none", "scheduled", "running", "done"}
  /\ cancel[r] \in {"none", "waiting", "returned"}
  /\ errored[r] \subseteq JobsOf(r)

\* The statuses of the task and of the cancel request that go with a run's.
TaskShape(r) ==
  /\ task[r] = "scheduled" => runStatus[r] = "queued" /\ cancel[r] = "none"
  /\ task[r] = "running" => runStatus[r] = "running"
  /\ task[r] = "done" =>
       \/ runStatus[r] \in Final
       \/ runStatus[r] = "queued" /\ cancel[r] = "waiting"
  /\ cancel[r] = "waiting" => task[r] \in {"running", "done"}
  /\ cancel[r] = "returned" => runStatus[r] \in Final

\* While the controller serves, every active run has a task; while it does
\* not, none has.
OwnerShape(r) ==
  /\ serving /\ runStatus[r] = "queued" => task[r] \in {"scheduled", "done"}
  /\ serving /\ runStatus[r] = "running" => task[r] = "running"
  /\ task[r] # "none" => serving
  /\ task[r] = "none" => cancel[r] = "none"

\* The store follows the memory, but for the verdict of a live job, which is
\* saved with the end of its run.
StoreShape(r) ==
  /\ stored[r].run = runStatus[r]
  /\ stored[r].results = result[r]
  /\ runStatus[r] # "running" => stored[r].jobs = jobStatus[r]

\* Episodes run under a running task only, and a run that has not begun has
\* no job, episode or result to show.
FreshShape(r) ==
  /\ task[r] # "running" => \A e \in Workload[r] : stage[r][e] \notin Alive
  /\ runStatus[r] \in {"absent", "queued"} =>
       /\ errored[r] = {}
       /\ \A j \in JobsOf(r) : jobStatus[r][j] = "queued"
       /\ \A e \in Workload[r] : stage[r][e] = "none" /\ result[r][e] = "none"

\* The status of a job, while its run's task runs, agrees with the tasks of
\* its episodes; of an over run no job is active.
JobShape(r) ==
  /\ runStatus[r] \in Final => \A j \in JobsOf(r) : jobStatus[r][j] \in Final
  /\ task[r] = "running" =>
       \A j \in JobsOf(r) :
         /\ jobStatus[r][j] \in Active \cup {"completed", "failed"}
         /\ jobStatus[r][j] = "queued" =>
              /\ j \notin errored[r]
              /\ \A e \in EpisodesOf(r, j) : stage[r][e] = "none"
         /\ jobStatus[r][j] \in {"completed", "failed"} =>
              /\ \A e \in EpisodesOf(r, j) : stage[r][e] = "returned"
              /\ jobStatus[r][j] = Verdict(r, j)
         /\ j \in errored[r] =>
              \E e \in EpisodesOf(r, j) : stage[r][e] \in {"none", "aborted"}

\* An episode has a result when it returned, none before it is over, and a
\* rejected one at most when it was aborted.
EpisodeShape(r) ==
  \A e \in Workload[r] :
    /\ task[r] = "running" /\ stage[r][e] \in {"none", "dropped"} \cup Alive =>
         result[r][e] = "none"
    /\ stage[r][e] = "aborted" => result[r][e] # "accepted"
    /\ stage[r][e] = "returned" => result[r][e] # "none"
    /\ r \in LiveRuns /\ errored[r] = {} /\ stage[r][e] = "aborted" =>
         result[r][e] # "none"

RunInv(r) ==
  /\ TypeOfRun(r)
  /\ TaskShape(r)
  /\ OwnerShape(r)
  /\ StoreShape(r)
  /\ FreshShape(r)
  /\ JobShape(r)
  /\ EpisodeShape(r)

IInv ==
  /\ GlobalShape
  /\ AdmissionShape
  /\ \A r \in Runs : RunInv(r)

-----------------------------------------------------------------------------
(***************************************************************************)
(* Type correctness and the frame of a step.                               *)
(***************************************************************************)

\* The invariant contains the type invariant.
LEMMA IInvTypes == IInv => TypeOK
BY DEF IInv, GlobalShape, AdmissionShape, RunInv, TypeOfRun, TypeOK, View,
       Views

\* What a step that works on another run leaves of this one.
Untouched(q) ==
  /\ serving' = serving
  /\ runStatus'[q] = runStatus[q]
  /\ jobStatus'[q] = jobStatus[q]
  /\ result'[q] = result[q]
  /\ stage'[q] = stage[q]
  /\ task'[q] = task[q]
  /\ cancel'[q] = cancel[q]
  /\ errored'[q] = errored[q]
  /\ stored'[q] = stored[q]

\* A run that a step leaves alone keeps its part of the invariant.
LEMMA UntouchedRun ==
  ASSUME NEW q, RunInv(q), Untouched(q)
  PROVE  RunInv(q)'
BY DEF RunInv, Untouched, TypeOfRun, TaskShape, OwnerShape, StoreShape,
       FreshShape, JobShape, EpisodeShape, Verdict, Views, JobsOf, EpisodesOf

\* The parts that a step on one run must keep are what it does to that run
\* and to admission.
LEMMA OneRunStep ==
  ASSUME IInv, NEW r \in Runs, GlobalShape', AdmissionShape', RunInv(r)',
         \A q \in Runs \ {r} : Untouched(q)
  PROVE  IInv'
<1>1. ASSUME NEW q \in Runs \ {r} PROVE RunInv(q)'
  BY <1>1, UntouchedRun DEF IInv
<1>. QED
  BY <1>1 DEF IInv

\* Active runs are finitely many.
LEMMA ActiveFinite == IsFiniteSet(ActiveRuns)
<1>1. ActiveRuns \subseteq Runs
  BY DEF ActiveRuns
<1>. QED
  BY <1>1, SchedulerAssumption, FS_Subset

\* Admission survives a step that admits no run.
LEMMA AdmissionKept ==
  ASSUME IInv, creating' \subseteq creating, serving' = serving,
         ActiveRuns' \cup creating' \subseteq ActiveRuns \cup creating,
         \A r \in creating' : runStatus'[r] = "absent"
  PROVE  AdmissionShape'
<1>. USE DEF IInv, AdmissionShape
<1>1. IsFiniteSet(ActiveRuns \cup creating)
  <2>1. ActiveRuns \cup creating \subseteq Runs
    BY DEF ActiveRuns
  <2>. QED
    BY <2>1, SchedulerAssumption, FS_Subset
<1>2. /\ Cardinality(ActiveRuns' \cup creating')
           <= Cardinality(ActiveRuns \cup creating)
      /\ Cardinality(ActiveRuns \cup creating) \in Nat
      /\ Cardinality(ActiveRuns' \cup creating') \in Nat
  BY <1>1, FS_Subset, FS_CardinalityType
<1>3. Cardinality(ActiveRuns' \cup creating') <= MaxActive
  BY <1>2, SchedulerAssumption
<1>. QED
  BY <1>3

\* The invariant holds initially: nothing was created yet.
LEMMA InitInv == Init => IInv
<1>. SUFFICES ASSUME Init PROVE IInv
  OBVIOUS
<1>1. GlobalShape
  BY SchedulerAssumption DEF Init, GlobalShape
<1>2. AdmissionShape
  <2>1. ActiveRuns = {} /\ creating = {}
    BY DEF Init, ActiveRuns, Active
  <2>2. Cardinality(ActiveRuns \cup creating) = 0
    BY <2>1, FS_EmptySet
  <2>. QED
    BY <2>1, <2>2, SchedulerAssumption DEF AdmissionShape
<1>3. ASSUME NEW r \in Runs PROVE RunInv(r)
  <2>. USE DEF Init
  <2>1. TypeOfRun(r)
    BY DEF TypeOfRun, View, Views, Active, Final, Stages, JobsOf
  <2>2. TaskShape(r) /\ OwnerShape(r) /\ StoreShape(r)
    BY DEF TaskShape, OwnerShape, StoreShape, View
  <2>3. FreshShape(r)
    BY DEF FreshShape, Alive, Waiting
  <2>4. JobShape(r) /\ EpisodeShape(r)
    BY DEF JobShape, EpisodeShape, Final
  <2>. QED
    BY <2>1, <2>2, <2>3, <2>4 DEF RunInv
<1>. QED
  BY <1>1, <1>2, <1>3 DEF IInv

-----------------------------------------------------------------------------
(***************************************************************************)
(* One lemma per action.                                                   *)
(***************************************************************************)

\* Taking the lock counts the active runs; the lock is free, so that the new
\* run is the only one being prepared.
LEMMA BeginCreateStep ==
  ASSUME IInv, NEW r \in Runs, BeginCreate(r)
  PROVE  IInv'
<1>. USE DEF BeginCreate, memory, IInv
<1>1. GlobalShape'
  BY DEF GlobalShape
<1>2. AdmissionShape'
  <2>1. ActiveRuns' = ActiveRuns
    BY DEF ActiveRuns
  <2>2. Cardinality(ActiveRuns) \in Nat
    BY ActiveFinite, FS_CardinalityType
  <2>3. r \notin ActiveRuns
    BY DEF ActiveRuns, Active
  <2>4. Cardinality(ActiveRuns \cup {r}) = Cardinality(ActiveRuns) + 1
    BY <2>3, ActiveFinite, FS_AddElement
  <2>5. Cardinality(ActiveRuns \cup {r}) <= MaxActive
    BY <2>2, <2>4, SchedulerAssumption
  <2>. QED
    BY <2>1, <2>5 DEF AdmissionShape
<1>3. \A q \in Runs : Untouched(q)
  BY DEF Untouched
<1>. QED
  BY <1>1, <1>2, <1>3, UntouchedRun, OneRunStep

\* A run enters the store as it is in memory, with a task and nothing done.
LEMMA FinishCreateStep ==
  ASSUME IInv, NEW r \in Runs, FinishCreate(r)
  PROVE  IInv'
<1>. USE DEF FinishCreate, Save
<1>1. GlobalShape'
  BY DEF IInv, GlobalShape
<1>2. AdmissionShape'
  <2>1. ActiveRuns' = ActiveRuns \cup {r}
    BY DEF ActiveRuns, Active, IInv, GlobalShape
  <2>2. \A q \in creating' : runStatus'[q] = "absent"
    BY DEF IInv, AdmissionShape, GlobalShape
  <2>. QED
    BY <2>1, <2>2, AdmissionKept
<1>3. RunInv(r)'
  <2>1. /\ runStatus[r] = "absent" /\ runStatus'[r] = "queued"
        /\ task'[r] = "scheduled" /\ serving /\ serving' = serving
        /\ stored'[r] = View(r)'
    BY DEF IInv, GlobalShape, AdmissionShape
  <2>2. RunInv(r) /\ cancel[r] = "none" /\ task[r] = "none"
    BY <2>1 DEF IInv, RunInv, TypeOfRun, TaskShape, OwnerShape, Final
  <2>3. TypeOfRun(r)' /\ TaskShape(r)' /\ OwnerShape(r)' /\ StoreShape(r)'
    BY <2>1, <2>2
       DEF RunInv, TypeOfRun, TaskShape, OwnerShape, StoreShape, View, Views,
           JobsOf, Active, Final
  <2>4. FreshShape(r)' /\ JobShape(r)' /\ EpisodeShape(r)'
    BY <2>1, <2>2
       DEF RunInv, FreshShape, JobShape, EpisodeShape, JobsOf, Final
  <2>. QED
    BY <2>3, <2>4 DEF RunInv
<1>4. \A q \in Runs \ {r} : Untouched(q)
  BY DEF Untouched, IInv, GlobalShape
<1>. QED
  BY <1>1, <1>2, <1>3, <1>4, OneRunStep

\* A refused request leaves nothing behind but the free lock.
LEMMA PrepareFailsStep ==
  ASSUME IInv, NEW r \in Runs, PrepareFails(r)
  PROVE  IInv'
<1>. USE DEF PrepareFails, memory
<1>1. GlobalShape'
  BY DEF IInv, GlobalShape
<1>2. AdmissionShape'
  BY AdmissionKept DEF ActiveRuns, IInv, AdmissionShape
<1>3. \A q \in Runs : Untouched(q)
  BY DEF Untouched
<1>4. RunInv(r)'
  BY <1>3, UntouchedRun DEF IInv
<1>. QED
  BY <1>1, <1>2, <1>3, <1>4, OneRunStep

\* The first step of a run's task: all its episodes are still ahead.
LEMMA StartStep ==
  ASSUME IInv, NEW r \in Runs, Start(r)
  PROVE  IInv'
<1>. USE DEF Start, Save
<1>1. GlobalShape'
  BY DEF IInv, GlobalShape
<1>2. runStatus[r] = "queued" /\ runStatus'[r] = "running"
      /\ \A q \in Runs \ {r} : runStatus'[q] = runStatus[q]
  BY DEF IInv, GlobalShape, RunInv, TaskShape
<1>3. AdmissionShape'
  BY <1>2, AdmissionKept DEF ActiveRuns, Active, IInv, AdmissionShape
<1>4. RunInv(r)'
  <2>1. RunInv(r) /\ task'[r] = "running" /\ stored'[r] = View(r)'
    BY DEF IInv, GlobalShape
  <2>2. /\ errored'[r] = {}
        /\ \A j \in JobsOf(r) : jobStatus'[r][j] = "queued"
        /\ \A e \in Workload[r] : stage'[r][e] = "none" /\ result'[r][e] = "none"
    BY <1>2, <2>1 DEF RunInv, FreshShape
  <2>3. TypeOfRun(r)' /\ TaskShape(r)' /\ OwnerShape(r)' /\ StoreShape(r)'
    BY <1>2, <2>1
       DEF RunInv, TypeOfRun, TaskShape, OwnerShape, StoreShape, View, Views,
           JobsOf, Active, Final
  <2>4. FreshShape(r)' /\ JobShape(r)' /\ EpisodeShape(r)'
    BY <1>2, <2>1, <2>2
       DEF FreshShape, JobShape, EpisodeShape, EpisodesOf, JobsOf, Active, Final
  <2>. QED
    BY <2>3, <2>4 DEF RunInv
<1>5. \A q \in Runs \ {r} : Untouched(q)
  BY DEF Untouched, IInv, GlobalShape
<1>. QED
  BY <1>1, <1>3, <1>4, <1>5, OneRunStep

\* Admission does not look at anything but statuses.
LEMMA SameAdmission ==
  ASSUME IInv, UNCHANGED <<serving, creating, runStatus>>
  PROVE  AdmissionShape'
BY DEF IInv, AdmissionShape, ActiveRuns

\* A job starts all its episodes, or records that it could not load its data
\* before any of them was started.
LEMMA StartJobStep ==
  ASSUME IInv, NEW r \in Runs, NEW j \in JobsOf(r), StartJob(r, j)
  PROVE  IInv'
<1>. USE DEF StartJob, Save
<1>1. GlobalShape'
  BY DEF IInv, GlobalShape
<1>2. AdmissionShape'
  BY SameAdmission
<1>3. RunInv(r)'
  <2>1. RunInv(r) /\ stored'[r] = View(r)'
    BY DEF IInv, GlobalShape
  <2>2. /\ jobStatus'[r] \in [JobsOf(r) -> Active \cup Final]
        /\ jobStatus'[r][j] = "running"
        /\ \A k \in JobsOf(r) \ {j} : jobStatus'[r][k] = jobStatus[r][k]
    BY <2>1 DEF IInv, GlobalShape, RunInv, TypeOfRun, Active
  <2>3. /\ runStatus[r] = "running" /\ j \notin errored[r]
        /\ \A e \in EpisodesOf(r, j) : stage[r][e] = "none"
    BY <2>1 DEF RunInv, TaskShape, JobShape
  <2>4. \E e \in Workload[r] : e \in EpisodesOf(r, j)
    BY DEF JobsOf, EpisodesOf
  <2>5. /\ stage'[r] \in [Workload[r] -> Stages]
        /\ \A e \in Workload[r] : stage'[r][e] # stage[r][e] =>
             e \in EpisodesOf(r, j) /\ stage'[r][e] = "caseWait"
        /\ errored'[r] \subseteq JobsOf(r)
        /\ \/ stage'[r] = stage[r] /\ errored'[r] = errored[r] \cup {j}
           \/ errored'[r] = errored[r]
    BY <2>1 DEF IInv, GlobalShape, RunInv, TypeOfRun, Stages, Alive, Waiting,
                EpisodesOf
  <2>6. TypeOfRun(r)' /\ TaskShape(r)' /\ OwnerShape(r)' /\ StoreShape(r)'
    BY <2>1, <2>2, <2>5
       DEF RunInv, TypeOfRun, TaskShape, OwnerShape, StoreShape, View, Views,
           JobsOf
  <2>7. FreshShape(r)'
    BY <2>3 DEF FreshShape
  <2>8. JobShape(r)'
    <3>1. runStatus'[r] \notin Final
      BY <2>3 DEF Final
    <3>2. ASSUME NEW k \in JobsOf(r), k # j
          PROVE  /\ \A e \in EpisodesOf(r, k) : stage'[r][e] = stage[r][e]
                 /\ k \in errored'[r] => k \in errored[r]
                 /\ Verdict(r, k)' = Verdict(r, k)
      BY <2>5, <3>2 DEF EpisodesOf, Verdict
    <3>3. ASSUME NEW k \in JobsOf(r), k # j, jobStatus[r][k] \in {"completed", "failed"}
          PROVE  /\ \A e \in EpisodesOf(r, k) : stage'[r][e] = "returned"
                 /\ jobStatus'[r][k] = Verdict(r, k)'
      BY <2>1, <2>2, <3>2, <3>3 DEF RunInv, JobShape
    <3>4. ASSUME NEW k \in JobsOf(r), k # j, jobStatus[r][k] = "queued"
          PROVE  /\ k \notin errored'[r]
                 /\ \A e \in EpisodesOf(r, k) : stage'[r][e] = "none"
      BY <2>1, <2>2, <3>2, <3>4 DEF RunInv, JobShape
    <3>5. ASSUME NEW k \in JobsOf(r), k # j, k \in errored'[r]
          PROVE  \E e \in EpisodesOf(r, k) : stage'[r][e] \in {"none", "aborted"}
      BY <2>1, <2>2, <3>2, <3>5 DEF RunInv, JobShape
    <3>6. j \in errored'[r] =>
            \E e \in EpisodesOf(r, j) : stage'[r][e] \in {"none", "aborted"}
      BY <2>3, <2>4, <2>5
    <3>7. ASSUME NEW k \in JobsOf(r)
          PROVE  jobStatus'[r][k] \in Active \cup {"completed", "failed"}
      BY <2>1, <2>2, <3>7 DEF RunInv, JobShape, Active
    <3>. QED
      BY <2>2, <3>1, <3>3, <3>4, <3>5, <3>6, <3>7 DEF JobShape, JobsOf, EpisodesOf
  <2>9. EpisodeShape(r)'
    BY <2>1, <2>3, <2>5
       DEF RunInv, EpisodeShape, EpisodesOf, Alive, Waiting
  <2>. QED
    BY <2>6, <2>7, <2>8, <2>9 DEF RunInv
<1>4. \A q \in Runs \ {r} : Untouched(q)
  BY DEF Untouched, IInv, GlobalShape
<1>. QED
  BY <1>1, <1>2, <1>3, <1>4, OneRunStep

\* A job ends with the verdict its results give; nothing else moves.
LEMMA JobEndsStep ==
  ASSUME IInv, NEW r \in Runs, NEW j \in JobsOf(r), JobEnds(r, j)
  PROVE  IInv'
<1>. USE DEF JobEnds, Save
<1>1. GlobalShape'
  BY DEF IInv, GlobalShape
<1>2. AdmissionShape'
  BY SameAdmission
<1>3. RunInv(r)'
  <2>1. /\ RunInv(r)
        /\ stored'[r] = View(r)' \/ stored'[r] = stored[r]
    <3>1. CASE r \in LiveRuns
      BY <3>1 DEF IInv
    <3>2. CASE r \notin LiveRuns
      BY <3>2 DEF IInv, GlobalShape
    <3>. QED
      BY <3>1, <3>2
  <2>2. /\ jobStatus'[r] \in [JobsOf(r) -> Active \cup Final]
        /\ jobStatus'[r][j] = Verdict(r, j)
        /\ \A k \in JobsOf(r) \ {j} : jobStatus'[r][k] = jobStatus[r][k]
        /\ Verdict(r, j) \in {"completed", "failed"}
    BY <2>1 DEF IInv, GlobalShape, RunInv, TypeOfRun, Active, Final, Verdict
  <2>3. \A k \in JobsOf(r) : Verdict(r, k)' = Verdict(r, k)
    BY DEF Verdict
  <2>4. TypeOfRun(r)' /\ TaskShape(r)' /\ OwnerShape(r)'
    BY <2>1, <2>2
       DEF RunInv, TypeOfRun, TaskShape, OwnerShape, View, Views, JobsOf
  <2>5. runStatus[r] \in {"absent", "queued"} => FALSE
    BY <2>1 DEF RunInv, FreshShape
  <2>6. runStatus[r] \notin Final
    BY <2>1 DEF RunInv, JobShape, Final
  <2>7. FreshShape(r)' /\ EpisodeShape(r)'
    BY <2>1, <2>5 DEF RunInv, FreshShape, EpisodeShape
  <2>8. StoreShape(r)'
    BY <2>1, <2>5, <2>6 DEF RunInv, TypeOfRun, StoreShape, View, Active
  <2>9. JobShape(r)'
    <3>1. ASSUME NEW k \in JobsOf(r), task'[r] = "running"
          PROVE /\ jobStatus'[r][k] \in Active \cup {"completed", "failed"}
                /\ jobStatus'[r][k] = "queued" =>
                     /\ k \notin errored'[r]
                     /\ \A e \in EpisodesOf(r, k) : stage'[r][e] = "none"
                /\ jobStatus'[r][k] \in {"completed", "failed"} =>
                     /\ \A e \in EpisodesOf(r, k) : stage'[r][e] = "returned"
                     /\ jobStatus'[r][k] = Verdict(r, k)'
                /\ k \in errored'[r] =>
                     \E e \in EpisodesOf(r, k) : stage'[r][e] \in {"none", "aborted"}
      <4>1. CASE k = j
        BY <2>2, <2>3, <3>1, <4>1
      <4>2. CASE k # j
        BY <2>1, <2>2, <2>3, <3>1, <4>2 DEF RunInv, JobShape
      <4>. QED
        BY <4>1, <4>2
    <3>. QED
      BY <2>6, <3>1 DEF JobShape, JobsOf, EpisodesOf
  <2>. QED
    BY <2>4, <2>7, <2>8, <2>9 DEF RunInv
<1>4. \A q \in Runs \ {r} : Untouched(q)
  BY DEF Untouched, IInv, GlobalShape
<1>. QED
  BY <1>1, <1>2, <1>3, <1>4, OneRunStep

\* The end of a run settles every job that is still active, and is saved.
LEMMA RunEndsStep ==
  ASSUME IInv, NEW r \in Runs, RunEnds(r)
  PROVE  IInv'
<1>. USE DEF RunEnds, Save
<1>1. GlobalShape'
  BY DEF IInv, GlobalShape
<1>2. Outcome(r) \in Final
  BY DEF Outcome, Final
<1>3. /\ runStatus'[r] = Outcome(r)
      /\ \A q \in Runs \ {r} : runStatus'[q] = runStatus[q]
  BY DEF IInv, GlobalShape
<1>4. AdmissionShape'
  <2>1. ActiveRuns' \subseteq ActiveRuns
    BY <1>2, <1>3 DEF ActiveRuns, Active, Final
  <2>2. r \notin creating
    BY DEF IInv, AdmissionShape, RunInv, TaskShape
  <2>. QED
    BY <1>3, <2>1, <2>2, AdmissionKept DEF IInv, AdmissionShape
<1>5. RunInv(r)'
  <2>1. /\ RunInv(r) /\ stored'[r] = View(r)' /\ task'[r] = "done"
        /\ jobStatus'[r] = [j \in JobsOf(r) |->
             IF jobStatus[r][j] \in Active THEN Outcome(r) ELSE jobStatus[r][j]]
    BY DEF IInv, GlobalShape
  <2>2. \A j \in JobsOf(r) : jobStatus'[r][j] \in Final
    BY <1>2, <2>1 DEF RunInv, TypeOfRun
  <2>3. jobStatus'[r] \in [JobsOf(r) -> Active \cup Final]
    BY <2>1, <2>2
  <2>4. TypeOfRun(r)' /\ TaskShape(r)' /\ OwnerShape(r)' /\ StoreShape(r)'
    BY <1>2, <1>3, <2>1, <2>3
       DEF RunInv, TypeOfRun, TaskShape, OwnerShape, StoreShape, View, Views,
           JobsOf, Final
  <2>5. FreshShape(r)' /\ JobShape(r)'
    BY <1>2, <1>3, <2>1, <2>2 DEF FreshShape, JobShape, GroupOver, Final, JobsOf
  <2>6. EpisodeShape(r)'
    BY <2>1 DEF RunInv, EpisodeShape
  <2>. QED
    BY <2>4, <2>5, <2>6 DEF RunInv
<1>6. \A q \in Runs \ {r} : Untouched(q)
  BY DEF Untouched, IInv, GlobalShape
<1>. QED
  BY <1>1, <1>4, <1>5, <1>6, OneRunStep

\* An episode's own step leaves the other episodes' tasks and results.
OnlyEpisode(r, e) ==
  /\ \A d \in Workload[r] \ {e} :
       stage'[r][d] = stage[r][d] /\ result'[r][d] = result[r][d]
  /\ stage'[r] \in [Workload[r] -> Stages]
  /\ result'[r] \in [Workload[r] -> {"none", "accepted", "rejected"}]
  /\ UNCHANGED <<serving, creating, runStatus, jobStatus, task, cancel, crashes>>
  /\ stored'[r] = View(r)' \/ UNCHANGED <<stored, result>>

\* Moving one live episode on keeps the invariant, provided what its new stage
\* says of its result and of an exception is true.
LEMMA EpisodeMoves ==
  ASSUME IInv, NEW r \in Runs, NEW e \in Workload[r], OnlyEpisode(r, e),
         GlobalShape', \A q \in Runs \ {r} : Untouched(q),
         stage[r][e] \in Alive, stage'[r][e] \notin {"none"},
         \/ errored'[r] = errored[r]
         \/ errored'[r] = errored[r] \cup {e[1]} /\ stage'[r][e] = "aborted",
         stage'[r][e] \in Alive \cup {"dropped"} => result'[r][e] = "none",
         stage'[r][e] = "returned" => result'[r][e] # "none",
         stage'[r][e] = "aborted" =>
           /\ result'[r][e] # "accepted"
           /\ r \in LiveRuns /\ errored'[r] = {} => result'[r][e] # "none"
  PROVE  IInv'
<1>. USE DEF OnlyEpisode
<1>1. RunInv(r) /\ e[1] \in JobsOf(r) /\ e \in EpisodesOf(r, e[1])
  BY DEF IInv, JobsOf, EpisodesOf
<1>2. task[r] = "running" /\ runStatus[r] = "running" /\ serving
  BY <1>1 DEF RunInv, FreshShape, TaskShape, OwnerShape
<1>3. jobStatus[r][e[1]] \notin {"queued", "completed", "failed"}
  BY <1>1, <1>2 DEF RunInv, JobShape, Alive, Waiting
<1>4. /\ TypeOfRun(r)' /\ TaskShape(r)' /\ OwnerShape(r)'
  BY <1>1, <1>2
     DEF RunInv, TypeOfRun, TaskShape, OwnerShape, View, Views, JobsOf
<1>5. StoreShape(r)'
  BY <1>1, <1>2 DEF RunInv, StoreShape, View
<1>6. FreshShape(r)'
  BY <1>2 DEF FreshShape
<1>7. JobShape(r)'
  <2>1. ASSUME NEW k \in JobsOf(r)
        PROVE /\ jobStatus'[r][k] \in Active \cup {"completed", "failed"}
              /\ jobStatus'[r][k] = "queued" =>
                   /\ k \notin errored'[r]
                   /\ \A d \in EpisodesOf(r, k) : stage'[r][d] = "none"
              /\ jobStatus'[r][k] \in {"completed", "failed"} =>
                   /\ \A d \in EpisodesOf(r, k) : stage'[r][d] = "returned"
                   /\ jobStatus'[r][k] = Verdict(r, k)'
              /\ k \in errored'[r] =>
                   \E d \in EpisodesOf(r, k) : stage'[r][d] \in {"none", "aborted"}
    <3>1. CASE k = e[1]
      <4>1. jobStatus'[r][k] = "running"
        BY <1>1, <1>2, <1>3, <3>1 DEF RunInv, JobShape, Active
      <4>2. k \in errored'[r] =>
              \E d \in EpisodesOf(r, k) : stage'[r][d] \in {"none", "aborted"}
        <5>1. CASE stage'[r][e] = "aborted"
          BY <1>1, <3>1, <5>1
        <5>2. CASE errored'[r] = errored[r] /\ k \in errored[r]
          <6>1. PICK d \in EpisodesOf(r, k) : stage[r][d] \in {"none", "aborted"}
            BY <1>1, <1>2, <5>2, <2>1 DEF RunInv, JobShape
          <6>2. d # e /\ d \in Workload[r]
            BY <6>1 DEF Alive, Waiting, EpisodesOf
          <6>. QED
            BY <6>1, <6>2
        <5>. QED
          BY <5>1, <5>2
      <4>. QED
        BY <4>1, <4>2 DEF Active
    <3>2. CASE k # e[1]
      <4>1. /\ \A d \in EpisodesOf(r, k) :
                 stage'[r][d] = stage[r][d] /\ result'[r][d] = result[r][d]
            /\ k \in errored'[r] <=> k \in errored[r]
        BY <3>2 DEF EpisodesOf
      <4>2. Verdict(r, k)' = Verdict(r, k)
        BY <4>1 DEF Verdict, EpisodesOf
      <4>. QED
        BY <1>1, <1>2, <4>1, <4>2 DEF RunInv, JobShape
    <3>. QED
      BY <3>1, <3>2
  <2>. QED
    BY <1>2, <2>1 DEF JobShape, JobsOf, EpisodesOf, Final
<1>8. EpisodeShape(r)'
  <2>1. ASSUME NEW d \in Workload[r]
        PROVE  /\ stage'[r][d] \in {"none", "dropped"} \cup Alive =>
                    result'[r][d] = "none"
               /\ stage'[r][d] = "aborted" => result'[r][d] # "accepted"
               /\ stage'[r][d] = "returned" => result'[r][d] # "none"
               /\ r \in LiveRuns /\ errored'[r] = {} /\ stage'[r][d] = "aborted" =>
                    result'[r][d] # "none"
    BY <1>1, <1>2, <2>1 DEF RunInv, EpisodeShape
  <2>. QED
    BY <2>1 DEF EpisodeShape
<1>. QED
  BY <1>4, <1>5, <1>6, <1>7, <1>8, SameAdmission, OneRunStep DEF RunInv

\* Every step of an episode's task moves its own episode only.
LEMMA EpisodeStepInv ==
  ASSUME IInv, NEW r \in Runs, NEW e \in Workload[r], EpisodeStep(r, e)
  PROVE  IInv'
<1>. USE DEF Save, Stages, Alive, Waiting
<1>1. /\ RunInv(r)
      /\ stage[r] \in [Workload[r] -> Stages]
      /\ result[r] \in [Workload[r] -> {"none", "accepted", "rejected"}]
  BY DEF IInv, RunInv, TypeOfRun
<1>2. stage[r][e] \in Alive => result[r][e] = "none"
  BY <1>1 DEF RunInv, FreshShape, EpisodeShape
<1>3. ASSUME NEW from \in Alive, NEW to \in Alive \cup {"dropped"},
             Advance(r, e, from, to)
      PROVE  IInv'
  <2>. USE <1>3 DEF Advance, memory
  <2>1. GlobalShape' /\ \A q \in Runs \ {r} : Untouched(q)
    BY DEF IInv, GlobalShape, Untouched
  <2>2. stage'[r] = [stage[r] EXCEPT ![e] = to]
    BY DEF IInv, GlobalShape
  <2>3. OnlyEpisode(r, e) /\ stage'[r][e] = to /\ stage[r][e] = from
    BY <1>1, <2>2 DEF OnlyEpisode
  <2>. QED
    BY <1>2, <2>1, <2>3, EpisodeMoves
<1>4. ASSUME AcquireCaseSlot(r, e) \/ AcquireRunSlot(r, e)
               \/ AcquireGlobalSlot(r, e)
      PROVE  IInv'
  BY <1>3, <1>4 DEF AcquireCaseSlot, AcquireRunSlot, AcquireGlobalSlot
<1>5. CASE DropWaiting(r, e)
  <2>1. Advance(r, e, stage[r][e], "dropped") /\ stage[r][e] \in Alive
    BY <1>5 DEF DropWaiting, Advance
  <2>. QED
    BY <1>3, <2>1
<1>6. CASE Finish(r, e)
  <2>. USE <1>6 DEF Finish
  <2>1. GlobalShape' /\ \A q \in Runs \ {r} : Untouched(q)
    BY DEF IInv, GlobalShape, Untouched
  <2>2. PICK v \in {"accepted", "rejected"} :
          result' = [result EXCEPT ![r][e] = v]
    OBVIOUS
  <2>3. /\ stage'[r] = [stage[r] EXCEPT ![e] = "returned"]
        /\ result'[r] = [result[r] EXCEPT ![e] = v]
        /\ stored'[r] = View(r)'
    BY <2>2 DEF IInv, GlobalShape
  <2>4. OnlyEpisode(r, e) /\ stage'[r][e] = "returned" /\ result'[r][e] = v
    BY <1>1, <2>3 DEF OnlyEpisode
  <2>. QED
    BY <2>1, <2>4, EpisodeMoves
<1>7. CASE Break(r, e)
  <2>. USE <1>7 DEF Break
  <2>1. GlobalShape' /\ \A q \in Runs \ {r} : Untouched(q)
    BY DEF IInv, GlobalShape, Untouched
  <2>2. /\ stage'[r] = [stage[r] EXCEPT ![e] = "aborted"]
        /\ errored'[r] = errored[r] \cup {e[1]}
        /\ \/ /\ result'[r] = [result[r] EXCEPT ![e] = "rejected"]
              /\ stored'[r] = View(r)'
           \/ UNCHANGED <<result, stored>>
    BY DEF IInv, GlobalShape
  <2>3. /\ OnlyEpisode(r, e) /\ stage'[r][e] = "aborted"
        /\ result'[r][e] # "accepted" /\ errored'[r] # {}
    BY <1>1, <1>2, <2>2 DEF OnlyEpisode
  <2>. QED
    BY <2>1, <2>2, <2>3, EpisodeMoves
<1>8. CASE AbortExecuting(r, e)
  <2>. USE <1>8 DEF AbortExecuting
  <2>1. GlobalShape' /\ \A q \in Runs \ {r} : Untouched(q)
    <3>1. CASE r \in LiveRuns
      BY <3>1 DEF IInv, GlobalShape, Untouched
    <3>2. CASE r \notin LiveRuns
      BY <3>2 DEF IInv, GlobalShape, Untouched
    <3>. QED
      BY <3>1, <3>2
  <2>2. stage'[r] = [stage[r] EXCEPT ![e] = "aborted"]
    BY DEF IInv, GlobalShape
  <2>3. \/ /\ result'[r] = [result[r] EXCEPT ![e] = "rejected"]
           /\ stored'[r] = View(r)'
        \/ UNCHANGED <<result, stored>> /\ r \notin LiveRuns
    <3>1. CASE r \in LiveRuns
      BY <3>1 DEF IInv, GlobalShape
    <3>2. CASE r \notin LiveRuns
      BY <3>2
    <3>. QED
      BY <3>1, <3>2
  <2>4. /\ OnlyEpisode(r, e) /\ stage'[r][e] = "aborted"
        /\ result'[r][e] # "accepted"
        /\ r \in LiveRuns => result'[r][e] # "none"
    BY <1>1, <1>2, <2>2, <2>3 DEF OnlyEpisode
  <2>. QED
    BY <2>1, <2>4, EpisodeMoves
<1>. QED
  BY <1>4, <1>5, <1>6, <1>7, <1>8 DEF EpisodeStep

\* A cancel request waits for the task, or drops one that never ran.
LEMMA CancelStep ==
  ASSUME IInv, NEW r \in Runs, Cancel(r)
  PROVE  IInv'
<1>. USE DEF Cancel, memory
<1>1. GlobalShape'
  BY DEF IInv, GlobalShape
<1>2. AdmissionShape'
  BY SameAdmission
<1>3. RunInv(r)'
  <2>1. /\ RunInv(r) /\ cancel'[r] = "waiting"
        /\ task'[r] = IF task[r] = "scheduled" THEN "done" ELSE task[r]
    BY DEF IInv, GlobalShape
  <2>2. TypeOfRun(r)' /\ TaskShape(r)' /\ OwnerShape(r)' /\ StoreShape(r)'
    BY <2>1
       DEF RunInv, TypeOfRun, TaskShape, OwnerShape, StoreShape, Views, JobsOf
  <2>3. FreshShape(r)'
    BY <2>1 DEF RunInv, FreshShape, JobsOf
  <2>4. JobShape(r)' /\ EpisodeShape(r)'
    BY <2>1 DEF RunInv, JobShape, EpisodeShape, JobsOf, EpisodesOf, Verdict
  <2>. QED
    BY <2>2, <2>3, <2>4 DEF RunInv
<1>4. \A q \in Runs \ {r} : Untouched(q)
  BY DEF Untouched, IInv, GlobalShape
<1>. QED
  BY <1>1, <1>2, <1>3, <1>4, OneRunStep

\* The answer to a cancel request settles the run if its task did not.
LEMMA CancelReturnsStep ==
  ASSUME IInv, NEW r \in Runs, CancelReturns(r)
  PROVE  IInv'
<1>. USE DEF CancelReturns, Save
<1>1. RunInv(r)
  BY DEF IInv
<1>2. CASE runStatus[r] \in Active
  <2>. USE <1>2
  <2>1. GlobalShape' /\ \A q \in Runs \ {r} : Untouched(q)
    BY DEF Untouched, IInv, GlobalShape
  <2>2. /\ runStatus'[r] = "cancelled" /\ stored'[r] = View(r)'
        /\ jobStatus'[r] = [j \in JobsOf(r) |-> "cancelled"]
        /\ cancel'[r] = "returned"
        /\ \A q \in Runs \ {r} : runStatus'[q] = runStatus[q]
    BY DEF IInv, GlobalShape
  <2>3. AdmissionShape'
    <3>1. ActiveRuns' \subseteq ActiveRuns /\ r \notin creating
      BY <2>2 DEF ActiveRuns, Active, IInv, AdmissionShape
    <3>. QED
      BY <2>2, <3>1, AdmissionKept DEF IInv, AdmissionShape
  <2>4. RunInv(r)'
    <3>1. TypeOfRun(r)' /\ TaskShape(r)' /\ OwnerShape(r)' /\ StoreShape(r)'
      BY <1>1, <2>2
         DEF RunInv, TypeOfRun, TaskShape, OwnerShape, StoreShape, View, Views,
             JobsOf, Final
    <3>2. FreshShape(r)' /\ JobShape(r)'
      BY <1>1, <2>2 DEF RunInv, FreshShape, JobShape, JobsOf, Final
    <3>3. EpisodeShape(r)'
      BY <1>1 DEF RunInv, EpisodeShape
    <3>. QED
      BY <3>1, <3>2, <3>3 DEF RunInv
  <2>. QED
    BY <2>1, <2>3, <2>4, OneRunStep
<1>3. CASE runStatus[r] \notin Active
  <2>. USE <1>3
  <2>1. GlobalShape' /\ \A q \in Runs \ {r} : Untouched(q)
    BY DEF Untouched, IInv, GlobalShape
  <2>2. AdmissionShape'
    BY SameAdmission
  <2>3. RunInv(r)'
    <3>1. runStatus[r] \in Final /\ cancel'[r] = "returned"
      BY <1>1 DEF RunInv, TaskShape, Active, IInv, GlobalShape
    <3>2. TypeOfRun(r)' /\ TaskShape(r)' /\ OwnerShape(r)' /\ StoreShape(r)'
      BY <1>1, <3>1
         DEF RunInv, TypeOfRun, TaskShape, OwnerShape, StoreShape, Views, JobsOf
    <3>3. FreshShape(r)' /\ JobShape(r)' /\ EpisodeShape(r)'
      BY <1>1 DEF RunInv, FreshShape, JobShape, EpisodeShape, JobsOf,
                  EpisodesOf, Verdict
    <3>. QED
      BY <3>2, <3>3 DEF RunInv
  <2>. QED
    BY <2>1, <2>2, <2>3, OneRunStep
<1>. QED
  BY <1>2, <1>3

\* A crash puts the stored runs, stripped of their tasks, in place of those
\* in memory.
LEMMA CrashStep == ASSUME IInv, Crash PROVE IInv'
<1>. USE DEF Crash
<1>1. GlobalShape'
  <2>1. crashes' \in 0 .. MaxCrashes
    BY SchedulerAssumption DEF IInv, GlobalShape
  <2>2. stored' = [r \in Runs |-> stored'[r]]
    BY DEF IInv, GlobalShape
  <2>. QED
    BY <2>1, <2>2 DEF GlobalShape
<1>2. \A r \in Runs : runStatus'[r] = runStatus[r]
  BY DEF IInv, RunInv, StoreShape
<1>3. AdmissionShape'
  <2>1. ActiveRuns' = ActiveRuns
    BY <1>2 DEF ActiveRuns
  <2>2. ActiveRuns \subseteq Runs /\ ActiveRuns \cup creating \subseteq Runs
    BY DEF ActiveRuns, IInv, AdmissionShape
  <2>3. IsFiniteSet(ActiveRuns \cup creating)
    BY <2>2, SchedulerAssumption, FS_Subset
  <2>4. /\ Cardinality(ActiveRuns) <= Cardinality(ActiveRuns \cup creating)
        /\ Cardinality(ActiveRuns \cup creating) \in Nat
        /\ Cardinality(ActiveRuns) \in Nat
    BY <2>3, FS_Subset, FS_CardinalityType
  <2>5. Cardinality(ActiveRuns) <= MaxActive
    BY <2>4, SchedulerAssumption DEF IInv, AdmissionShape
  <2>6. ActiveRuns' \cup creating' = ActiveRuns
    BY <2>1
  <2>. QED
    BY <2>5, <2>6 DEF AdmissionShape
<1>4. ASSUME NEW r \in Runs PROVE RunInv(r)'
  <2>1. RunInv(r)
    BY DEF IInv
  <2>2. /\ runStatus'[r] = runStatus[r] /\ result'[r] = result[r]
        /\ jobStatus'[r] = stored[r].jobs /\ stored'[r] = stored[r]
        /\ stage'[r] = [e \in Workload[r] |-> "none"]
        /\ task'[r] = "none" /\ cancel'[r] = "none" /\ errored'[r] = {}
        /\ serving' = FALSE
        /\ runStatus[r] # "running" => jobStatus'[r] = jobStatus[r]
    BY <2>1, <1>2 DEF RunInv, StoreShape
  <2>3. TypeOfRun(r)' /\ TaskShape(r)' /\ OwnerShape(r)' /\ StoreShape(r)'
    BY <2>1, <2>2
       DEF RunInv, TypeOfRun, TaskShape, OwnerShape, StoreShape, Views, Stages,
           JobsOf
  <2>4. FreshShape(r)' /\ JobShape(r)' /\ EpisodeShape(r)'
    BY <2>1, <2>2
       DEF RunInv, FreshShape, JobShape, EpisodeShape, JobsOf, Alive, Waiting,
           Final
  <2>. QED
    BY <2>3, <2>4 DEF RunInv
<1>. QED
  BY <1>1, <1>3, <1>4 DEF IInv

\* The next controller settles what it finds active.
LEMMA InterruptStep ==
  ASSUME IInv, NEW r \in Runs, Interrupt(r)
  PROVE  IInv'
<1>. USE DEF Interrupt, Save
<1>1. GlobalShape' /\ \A q \in Runs \ {r} : Untouched(q)
  BY DEF Untouched, IInv, GlobalShape
<1>2. /\ runStatus'[r] = "interrupted" /\ stored'[r] = View(r)'
      /\ jobStatus'[r] = [j \in JobsOf(r) |->
           IF jobStatus[r][j] \in Active THEN "interrupted" ELSE jobStatus[r][j]]
      /\ \A q \in Runs \ {r} : runStatus'[q] = runStatus[q]
  BY DEF IInv, GlobalShape
<1>3. AdmissionShape'
  <2>1. ActiveRuns' \subseteq ActiveRuns /\ r \notin creating
    BY <1>2 DEF ActiveRuns, Active, IInv, AdmissionShape
  <2>. QED
    BY <1>2, <2>1, AdmissionKept DEF IInv, AdmissionShape
<1>4. RunInv(r)'
  <2>1. RunInv(r) /\ task[r] = "none" /\ cancel[r] = "none"
    BY DEF IInv, RunInv, OwnerShape
  <2>2. /\ \A j \in JobsOf(r) : jobStatus'[r][j] \in Final
        /\ jobStatus'[r] \in [JobsOf(r) -> Active \cup Final]
    BY <1>2, <2>1 DEF RunInv, TypeOfRun, Final
  <2>3. TypeOfRun(r)' /\ TaskShape(r)' /\ OwnerShape(r)' /\ StoreShape(r)'
    BY <1>2, <2>1, <2>2
       DEF RunInv, TypeOfRun, TaskShape, OwnerShape, StoreShape, View, Views,
           JobsOf, Final
  <2>4. FreshShape(r)' /\ JobShape(r)' /\ EpisodeShape(r)'
    BY <1>2, <2>1, <2>2
       DEF RunInv, FreshShape, JobShape, EpisodeShape, JobsOf
  <2>. QED
    BY <2>3, <2>4 DEF RunInv
<1>. QED
  BY <1>1, <1>3, <1>4, OneRunStep

\* The controller serves again only when nothing is active.
LEMMA ServeStep == ASSUME IInv, Serve PROVE IInv'
<1>. USE DEF Serve, memory
<1>1. GlobalShape' /\ AdmissionShape'
  BY DEF IInv, GlobalShape, AdmissionShape, ActiveRuns
<1>2. ASSUME NEW r \in Runs PROVE RunInv(r)'
  <2>1. RunInv(r) /\ runStatus[r] \notin Active
    BY DEF IInv, ActiveRuns
  <2>2. OwnerShape(r)'
    BY <2>1 DEF RunInv, OwnerShape, Active
  <2>. QED
    BY <2>1, <2>2
       DEF RunInv, TypeOfRun, TaskShape, StoreShape, FreshShape, JobShape,
           EpisodeShape, Verdict, Views, JobsOf, EpisodesOf
<1>. QED
  BY <1>1, <1>2 DEF IInv

-----------------------------------------------------------------------------
(***************************************************************************)
(* The theorems.                                                           *)
(***************************************************************************)

\* Every step keeps the inductive invariant.
LEMMA NextInv == ASSUME IInv, [Next]_vars PROVE IInv'
<1>1. ASSUME NEW r \in Runs, RunStep(r) PROVE IInv'
  BY <1>1, FinishCreateStep, PrepareFailsStep, StartStep, RunEndsStep,
     CancelReturnsStep, InterruptStep, StartJobStep, JobEndsStep DEF RunStep
<1>2. CASE UNCHANGED vars
  <2>1. GlobalShape' /\ AdmissionShape'
    BY <1>2 DEF vars, memory, IInv, GlobalShape, AdmissionShape, ActiveRuns
  <2>2. \A q \in Runs : Untouched(q)
    BY <1>2 DEF vars, memory, Untouched
  <2>. QED
    BY <2>1, <2>2, UntouchedRun DEF IInv
<1>. QED
  BY <1>1, <1>2, BeginCreateStep, CancelStep, EpisodeStepInv, CrashStep,
     ServeStep DEF Next

\* The inductive invariant holds of every reachable state of the console's
\* scheduler (scheduler.py, live_scheduler.py).
THEOREM SchedulerInvariant == Spec => []IInv
<1>. QED
  BY InitInv, NextInv, PTL DEF Spec

\* Every variable keeps its type, over crashes and restarts too.
THEOREM SchedulerTypeCorrect == Spec => []TypeOK
<1>. QED
  BY SchedulerInvariant, IInvTypes, PTL

\* However many create requests race, the creation lock keeps the active runs
\* within the limit (scheduler.py:81-83, 115, 158).
THEOREM ActiveRunsWithinLimit == Spec => []ActiveLimit
<1>1. IInv => ActiveLimit
  <2>. SUFFICES ASSUME IInv PROVE ActiveLimit
    OBVIOUS
  <2>1. ActiveRuns \cup creating \subseteq Runs
    BY DEF ActiveRuns, IInv, AdmissionShape
  <2>2. IsFiniteSet(ActiveRuns \cup creating)
    BY <2>1, SchedulerAssumption, FS_Subset
  <2>3. /\ Cardinality(ActiveRuns) <= Cardinality(ActiveRuns \cup creating)
        /\ Cardinality(ActiveRuns \cup creating) \in Nat
        /\ Cardinality(ActiveRuns) \in Nat
    BY <2>2, FS_Subset, FS_CardinalityType
  <2>. QED
    BY <2>3, SchedulerAssumption DEF ActiveLimit, IInv, AdmissionShape
<1>. QED
  BY <1>1, SchedulerInvariant, PTL

\* No run is left active with neither a task nor a cancel request that will
\* settle it (scheduler.py:294-306).
THEOREM ActiveRunsAreOwned == Spec => []ActiveIsOwned
<1>1. IInv => ActiveIsOwned
  BY DEF IInv, RunInv, OwnerShape, TaskShape, ActiveIsOwned, ActiveRuns,
         Active, Final
<1>. QED
  BY <1>1, SchedulerInvariant, PTL

\* A run that is reported over has no live episode and no active job
\* (scheduler.py:273-293, live_scheduler.py:294-311).
THEOREM OverRunsAreQuiet == Spec => []FinalRunsAreQuiet
<1>1. IInv => FinalRunsAreQuiet
  BY DEF IInv, RunInv, TaskShape, FreshShape, JobShape, FinalRunsAreQuiet, Final
<1>. QED
  BY <1>1, SchedulerInvariant, PTL

\* A run that is over in memory is over, job by job and result by result, in
\* the store (scheduler.py:290-292, live_scheduler.py:305-311).
THEOREM OverRunsAreDurable == Spec => []FinalIsDurable
<1>1. IInv => FinalIsDurable
  BY DEF IInv, RunInv, TypeOfRun, StoreShape, Views, View, FinalIsDurable, Final
<1>. QED
  BY <1>1, SchedulerInvariant, PTL

\* The result of an executed live episode, cancelled or not, is in the store
\* (live_scheduler.py:258-286).
THEOREM ExecutedEpisodesRecorded == Spec => []ExecutedIsRecorded
<1>1. IInv => ExecutedIsRecorded
  BY SchedulerAssumption
     DEF IInv, RunInv, StoreShape, EpisodeShape, ExecutedIsRecorded
<1>. QED
  BY <1>1, SchedulerInvariant, PTL

-----------------------------------------------------------------------------
(***************************************************************************)
(* Scheduler implements RunLifecycle.                                      *)
(***************************************************************************)

\* The store shows the statuses and the results that are in memory.
StoreShows ==
  /\ [r \in Runs |-> stored[r].run] = runStatus
  /\ [r \in Runs |-> stored[r].results] = result

LEMMA StoredView == IInv => StoreShows
<1>. SUFFICES ASSUME IInv PROVE StoreShows
  BY DEF StoreShows
<1>. USE DEF StoreShows
<1>1. \A r \in Runs : stored[r].run = runStatus[r]
                      /\ stored[r].results = result[r]
  BY DEF IInv, RunInv, StoreShape
<1>2. runStatus = [r \in Runs |-> runStatus[r]] /\ result = [r \in Runs |-> result[r]]
  BY DEF IInv, GlobalShape
<1>. QED
  BY <1>1, <1>2

\* A running run ends with a status that its results justify.
LEMMA OutcomeJustified ==
  ASSUME IInv, NEW r \in Runs, RunEnds(r)
  PROVE  /\ Outcome(r) = "completed" =>
              \A e \in Workload[r] : result[r][e] = "accepted"
         /\ Outcome(r) = "failed" =>
              \E e \in Workload[r] : result[r][e] # "accepted"
<1>. USE DEF RunEnds
<1>1. RunInv(r) /\ task[r] = "running"
  BY DEF IInv
<1>2. ASSUME Outcome(r) = "completed", NEW e \in Workload[r]
      PROVE  result[r][e] = "accepted"
  <2>1. e[1] \in JobsOf(r) /\ e \in EpisodesOf(r, e[1])
    BY DEF JobsOf, EpisodesOf
  <2>2. jobStatus[r][e[1]] = "completed"
    BY <1>1, <1>2, <2>1
       DEF Outcome, GroupOver, RunInv, JobShape, Active
  <2>3. Verdict(r, e[1]) = "completed"
    BY <1>1, <2>1, <2>2 DEF RunInv, JobShape
  <2>. QED
    BY <2>1, <2>3 DEF Verdict
<1>3. ASSUME Outcome(r) = "failed"
      PROVE  \E e \in Workload[r] : result[r][e] # "accepted"
  <2>1. CASE errored[r] # {}
    <3>1. PICK j \in errored[r] : j \in JobsOf(r)
      BY <1>1, <2>1 DEF RunInv, TypeOfRun
    <3>2. PICK e \in EpisodesOf(r, j) : stage[r][e] \in {"none", "aborted"}
      BY <1>1, <3>1 DEF RunInv, JobShape
    <3>. QED
      BY <1>1, <3>2 DEF RunInv, EpisodeShape, EpisodesOf
  <2>2. CASE errored[r] = {}
    <3>1. PICK j \in JobsOf(r) : jobStatus[r][j] = "failed"
      BY <1>3, <2>2 DEF Outcome
    <3>2. Verdict(r, j) = "failed"
      BY <1>1, <3>1 DEF RunInv, JobShape
    <3>. QED
      BY <3>2 DEF Verdict, EpisodesOf
  <2>. QED
    BY <2>1, <2>2
<1>. QED
  BY <1>2, <1>3

\* The steps of the abstract specification, over what is in memory.
Created(r) ==
  /\ runStatus[r] = "absent"
  /\ runStatus' = [runStatus EXCEPT ![r] = "queued"]
  /\ result' = result

Begun(r) ==
  /\ runStatus[r] = "queued"
  /\ runStatus' = [runStatus EXCEPT ![r] = "running"]
  /\ result' = result

Reported(r, e, v) ==
  /\ runStatus[r] = "running" /\ result[r][e] = "none"
  /\ result' = [result EXCEPT ![r][e] = v]
  /\ runStatus' = runStatus

Ended(r, s) ==
  /\ \/ runStatus[r] = "running"
     \/ runStatus[r] = "queued" /\ s \in {"cancelled", "interrupted"}
  /\ s = "completed" => \A e \in Workload[r] : result[r][e] = "accepted"
  /\ s = "failed" => \E e \in Workload[r] : result[r][e] # "accepted"
  /\ runStatus' = [runStatus EXCEPT ![r] = s]
  /\ result' = result

LifecycleStep ==
  \/ runStatus' = runStatus /\ result' = result
  \/ \E r \in Runs :
       \/ Created(r) \/ Begun(r)
       \/ \E e \in Workload[r], v \in {"accepted", "rejected"} : Reported(r, e, v)
       \/ \E s \in Final : Ended(r, s)

\* Each action of the scheduler creates, begins, reports or ends one run, or
\* shows nothing new.
LEMMA StepIsLifecycleStep == ASSUME IInv, [Next]_vars PROVE LifecycleStep
<1>1. CASE UNCHANGED <<runStatus, result>>
  BY <1>1 DEF LifecycleStep
<1>2. ASSUME NEW r \in Runs,
             BeginCreate(r) \/ Cancel(r) \/ PrepareFails(r)
               \/ \E j \in JobsOf(r) : StartJob(r, j) \/ JobEnds(r, j)
      PROVE  LifecycleStep
  BY <1>1, <1>2
     DEF BeginCreate, Cancel, PrepareFails, StartJob, JobEnds, memory
<1>3. ASSUME NEW r \in Runs, FinishCreate(r) PROVE LifecycleStep
  BY <1>3 DEF FinishCreate, LifecycleStep, Created, IInv, AdmissionShape
<1>4. ASSUME NEW r \in Runs, Start(r) PROVE LifecycleStep
  BY <1>4 DEF Start, LifecycleStep, Begun, IInv, RunInv, TaskShape
<1>5. ASSUME NEW r \in Runs, RunEnds(r) PROVE LifecycleStep
  <2>1. runStatus[r] = "running" /\ Outcome(r) \in Final
    BY <1>5 DEF RunEnds, IInv, RunInv, TaskShape, Outcome, Final
  <2>. QED
    BY <1>5, <2>1, OutcomeJustified DEF RunEnds, LifecycleStep, Ended
<1>6. ASSUME NEW r \in Runs, CancelReturns(r) PROVE LifecycleStep
  <2>1. CASE runStatus[r] \in Active
    <3>1. runStatus[r] = "queued"
      BY <1>6, <2>1 DEF CancelReturns, IInv, RunInv, TaskShape, Active, Final
    <3>. QED
      BY <1>6, <2>1, <3>1 DEF CancelReturns, LifecycleStep, Ended, Final
  <2>2. CASE runStatus[r] \notin Active
    BY <1>1, <1>6, <2>2 DEF CancelReturns
  <2>. QED
    BY <2>1, <2>2
<1>7. ASSUME NEW r \in Runs, Interrupt(r) PROVE LifecycleStep
  BY <1>7 DEF Interrupt, LifecycleStep, Ended, Active, Final
<1>8. ASSUME NEW r \in Runs, NEW e \in Workload[r], EpisodeStep(r, e)
      PROVE  LifecycleStep
  <2>1. ASSUME stage[r][e] = "executing", runStatus' = runStatus,
               NEW v \in {"accepted", "rejected"},
               result' = [result EXCEPT ![r][e] = v]
        PROVE  LifecycleStep
    <3>1. RunInv(r)
      BY DEF IInv
    <3>2. task[r] = "running"
      BY <2>1, <3>1 DEF RunInv, FreshShape, Alive
    <3>3. runStatus[r] = "running" /\ result[r][e] = "none"
      BY <2>1, <3>1, <3>2 DEF RunInv, TaskShape, EpisodeShape, Alive
    <3>. QED
      BY <2>1, <3>3 DEF LifecycleStep, Reported
  <2>2. CASE Finish(r, e)
    BY <2>1, <2>2 DEF Finish
  <2>3. CASE Break(r, e)
    BY <1>1, <2>1, <2>3 DEF Break
  <2>4. CASE AbortExecuting(r, e)
    <3>1. CASE r \in LiveRuns
      BY <2>1, <2>4, <3>1 DEF AbortExecuting
    <3>2. CASE r \notin LiveRuns
      BY <1>1, <2>4, <3>2 DEF AbortExecuting
    <3>. QED
      BY <3>1, <3>2
  <2>. QED
    BY <1>1, <1>8, <2>2, <2>3, <2>4
       DEF EpisodeStep, AcquireCaseSlot, AcquireRunSlot, AcquireGlobalSlot,
           DropWaiting, Advance, memory
<1>9. CASE Crash
  <2>1. \A r \in Runs : runStatus'[r] = runStatus[r] /\ result'[r] = result[r]
    BY <1>9 DEF Crash, IInv, RunInv, StoreShape
  <2>2. runStatus' = runStatus /\ result' = result
    BY <1>9, StoredView DEF Crash, StoreShows
  <2>. QED
    BY <1>1, <2>2
<1>. QED
  BY <1>1, <1>2, <1>3, <1>4, <1>5, <1>6, <1>7, <1>8, <1>9
     DEF Next, RunStep, Serve, vars, memory

\* What the store shows of the runs, over cancellations, failures and crashes,
\* is a behaviour of RunLifecycle: forward only, one result for an episode and
\* kept, an end the results justify (scheduler.py:33-39).
THEOREM SchedulerImplementsRunLifecycle == Spec => ImplementsRunLifecycle
<1>1. Init => Lifecycle!Init
  BY DEF Init, Lifecycle!Init, View
<1>2. ASSUME IInv, IInv', [Next]_vars
      PROVE  [Lifecycle!Next]_(Lifecycle!lifecycleVars)
  <2>a. StoreShows
    BY <1>2, StoredView
  <2>b. StoreShows'
    BY <1>2, StoredView, PTL
  <2>1. /\ [r \in Runs |-> stored[r].run] = runStatus
        /\ [r \in Runs |-> stored[r].results] = result
        /\ [r \in Runs |-> stored'[r].run] = runStatus'
        /\ [r \in Runs |-> stored'[r].results] = result'
    BY <2>a, <2>b DEF StoreShows
  <2>2. LifecycleStep
    BY <1>2, StepIsLifecycleStep
  <2>3. CASE runStatus' = runStatus /\ result' = result
    BY <2>1, <2>3 DEF Lifecycle!lifecycleVars
  <2>4. ASSUME NEW r \in Runs, Created(r) PROVE Lifecycle!Next
    BY <2>1, <2>4 DEF Created, Lifecycle!Next, Lifecycle!Create
  <2>5. ASSUME NEW r \in Runs, Begun(r) PROVE Lifecycle!Next
    BY <2>1, <2>5 DEF Begun, Lifecycle!Next, Lifecycle!Begin
  <2>6. ASSUME NEW r \in Runs, NEW e \in Workload[r], NEW v \in {"accepted", "rejected"},
               Reported(r, e, v)
        PROVE  Lifecycle!Next
    BY <2>1, <2>6 DEF Reported, Lifecycle!Next, Lifecycle!Report
  <2>7. ASSUME NEW r \in Runs, NEW s \in Final, Ended(r, s) PROVE Lifecycle!Next
    <3>1. Lifecycle!End(r, s)
      BY <2>1, <2>7 DEF Ended, Lifecycle!End
    <3>. QED
      BY <3>1 DEF Final, Lifecycle!Next
  <2>. QED
    BY <2>2, <2>3, <2>4, <2>5, <2>6, <2>7 DEF LifecycleStep
<1>. QED
  BY <1>1, <1>2, SchedulerInvariant, PTL
     DEF Spec, ImplementsRunLifecycle, Lifecycle!Spec

=============================================================================
