---------------------------- MODULE RunnerProofs ----------------------------
(***************************************************************************)
(* Theorems about Runner, for every finite set of cases, every set of      *)
(* specs, every set of fault models and every number of launches.          *)
(***************************************************************************)
EXTENDS Runner, FiniteSetTheorems, TLAPS

(***************************************************************************)
(* The inductive invariant, in named parts.                                *)
(***************************************************************************)

\* Stages in which the case of a future is not settled yet.
Unsettled == {"submitted", "check", "reserve", "call", "awaiting", "audit",
              "score", "judging", "complete", "backoff"}

\* Stages in which retry_count is the number of the attempt being worked on.
Holding == {"call", "awaiting", "audit", "score", "judging", "complete",
            "backoff"}

\* Rows exist once the manifest does, and a closed run has none pending.
LedgerShape ==
  /\ manifest = None =>
       /\ attempts = {} /\ main = "off" /\ runStatus = "absent"
       /\ \A c \in Cases : status[c] = "absent"
  /\ manifest # None => \A c \in Cases : status[c] # "absent"
  /\ runStatus = "completed" => PendingCases = {}
  /\ main = "settled" => runStatus = "completed"

\* Futures belong to a running process that uses the frozen spec; a future's
\* stage tells whether its case is settled; the driver forgets no case.
FutureShape ==
  /\ Running => manifest # None /\ spec = manifest
  /\ \A c \in Cases :
       /\ pc[c] # "idle" => Running
       /\ c \in todo => Running /\ pc[c] = "idle" /\ status[c] = "pending"
       /\ pc[c] \in Unsettled => status[c] = "pending"
       /\ pc[c] \in {"cooldown", "returned"} => status[c] \in Terminal
       /\ main = "driving" /\ status[c] = "pending" =>
            c \in todo \/ pc[c] # "idle"

\* The attempts of a case are 0 .. n-1, within the retries of the spec.
AttemptShape ==
  \A c \in Cases :
    /\ AttemptsOf(c) = {c} \X (0 .. NextAttempt(c) - 1)
    /\ manifest # None => NextAttempt(c) <= manifest.maxRetries + 1

\* The local retry_count agrees with the ledger's attempts of the case.
RetryShape ==
  \A c \in Cases :
    /\ pc[c] \in {"check", "reserve"} =>
         retry[c] = NextAttempt(c) /\ retry[c] <= spec.maxRetries
    /\ pc[c] \in Holding => NextAttempt(c) = retry[c] + 1
    /\ pc[c] = "backoff" => retry[c] < spec.maxRetries

\* What was sent and answered, for a future and for a settled row.
RequestShape ==
  /\ answered \subseteq sent /\ sent \subseteq attempts
  /\ \A c \in Cases :
       /\ pc[c] = "call" => Attempt(c) \notin sent
       /\ pc[c] = "awaiting" => Attempt(c) \in sent
       /\ pc[c] \in {"audit", "score", "judging", "complete"} =>
            Attempt(c) \in answered
  /\ SettledRowIsLastAttempt

\* The counted requests are finitely many and within the frozen limit.
BudgetShape ==
  /\ IsFiniteSet(CountedRequests)
  /\ manifest # None => RequestCount <= manifest.maxRequests

IInv ==
  /\ TypeOK
  /\ LedgerShape
  /\ FutureShape
  /\ AttemptShape
  /\ RetryShape
  /\ RequestShape
  /\ BudgetShape
  /\ ScoringSerialized

-----------------------------------------------------------------------------
(***************************************************************************)
(* Type correctness.                                                       *)
(***************************************************************************)

\* A case's attempts are finitely many, so their count is a number.
LEMMA AttemptsFinite ==
  ASSUME IsFiniteSet(attempts), NEW c
  PROVE  IsFiniteSet(AttemptsOf(c)) /\ NextAttempt(c) \in Nat
<1>1. AttemptsOf(c) \in SUBSET attempts
  BY DEF AttemptsOf
<1>2. IsFiniteSet(AttemptsOf(c))
  BY <1>1, FS_Subset
<1>. QED
  BY <1>2, FS_CardinalityType DEF NextAttempt

\* Initialization keeps the ledger's types.
LEMMA LedgerInitType == LedgerInit => LedgerTypeOK
<1>. SUFFICES ASSUME LedgerInit PROVE LedgerTypeOK
  OBVIOUS
<1>. USE LedgerAssumption DEF LedgerTypeOK, Terminal
<1>1. CASE FreshLedger
  BY <1>1, FS_EmptySet DEF FreshLedger
<1>2. CASE LegacyLedger
  <2>1. manifest.maxRetries \in Nat
    BY <1>2 DEF LegacyLedger
  <2>2. PICK settled \in [LegacyCases -> Terminal] :
          /\ status = [c \in Cases |->
                         IF c \in LegacyCases THEN settled[c] ELSE "pending"]
          /\ cost = [c \in Cases |->
                       IF status[c] = "completed" THEN 1 ELSE 0]
    BY <1>2 DEF LegacyLedger
  <2>3. status \in [Cases -> {"absent", "pending"} \cup Terminal]
    BY <2>2
  <2>4. cost \in [Cases -> {0, 1}]
    BY <2>2
  <2>5. retryCount \in [Cases -> Nat]
    BY <1>2, <2>1 DEF LegacyLedger
  <2>. QED
    BY <1>2, <2>3, <2>4, <2>5, FS_EmptySet DEF LegacyLedger
<1>. QED
  BY <1>1, <1>2 DEF LedgerInit

\* Each writing method keeps the ledger's types.
LEMMA LedgerMethodsType ==
  ASSUME LedgerTypeOK
  PROVE  /\ \A s \in Specs : Initialize(s) => LedgerTypeOK'
         /\ \A limit : \A c \in Cases : ReserveAttempt(c, limit) => LedgerTypeOK'
         /\ \A c \in Cases, r \in Nat : Complete(c, r) => LedgerTypeOK'
         /\ \A c \in Cases, t \in Terminal, r \in Nat :
              Fail(c, t, r) => LedgerTypeOK'
         /\ MarkCompletedIfSettled => LedgerTypeOK'
         /\ UNCHANGED ledgerVars => LedgerTypeOK'
<1>. USE DEF LedgerTypeOK, Terminal
<1>1. ASSUME NEW s \in Specs, Initialize(s) PROVE LedgerTypeOK'
  BY <1>1 DEF Initialize
<1>2. ASSUME NEW c \in Cases, NEW limit, ReserveAttempt(c, limit)
      PROVE  LedgerTypeOK'
  <2>1. NextAttempt(c) \in Nat
    BY AttemptsFinite
  <2>2. IsFiniteSet(attempts')
    BY <1>2, FS_AddElement DEF ReserveAttempt
  <2>. QED
    BY <1>2, <2>1, <2>2 DEF ReserveAttempt
<1>3. ASSUME NEW c \in Cases, NEW r \in Nat, Complete(c, r)
      PROVE  LedgerTypeOK'
  BY <1>3 DEF Complete
<1>4. ASSUME NEW c \in Cases, NEW t \in Terminal, NEW r \in Nat,
             Fail(c, t, r)
      PROVE  LedgerTypeOK'
  BY <1>4 DEF Fail
<1>5. MarkCompletedIfSettled => LedgerTypeOK'
  BY DEF MarkCompletedIfSettled
<1>6. UNCHANGED ledgerVars => LedgerTypeOK'
  BY DEF ledgerVars
<1>. QED
  BY <1>1, <1>2, <1>3, <1>4, <1>5, <1>6

\* Every step keeps the types: the future of a case changes its stage, its
\* retry_count or what was sent, and the ledger through its methods only.
LEMMA TypeStep == TypeOK /\ [Next]_vars => TypeOK'
<1>. SUFFICES ASSUME TypeOK, [Next]_vars PROVE TypeOK'
  OBVIOUS
<1>. USE DEF TypeOK, history, Running
<1>l. /\ \A s \in Specs : Initialize(s) => LedgerTypeOK'
      /\ \A limit : \A c \in Cases : ReserveAttempt(c, limit) => LedgerTypeOK'
      /\ \A c \in Cases, r \in Nat : Complete(c, r) => LedgerTypeOK'
      /\ \A c \in Cases, t \in Terminal, r \in Nat :
           Fail(c, t, r) => LedgerTypeOK'
      /\ MarkCompletedIfSettled => LedgerTypeOK'
      /\ UNCHANGED ledgerVars => LedgerTypeOK'
  BY LedgerMethodsType
<1>n. \A c \in Cases : NextAttempt(c) \in Nat
  BY AttemptsFinite DEF LedgerTypeOK
<1>e. ASSUME NEW how \in {"off", "settled", "failed"}, Exit(how),
             LedgerTypeOK'
      PROVE  TypeOK'
  BY <1>e DEF Exit, Stages
<1>1. ASSUME NEW s \in Specs, Launch(s) PROVE TypeOK'
  <2>1. LedgerTypeOK'
    BY <1>1, <1>l DEF Launch
  <2>2. launches' \in 0 .. MaxLaunches
    BY <1>1, RunnerAssumption DEF Launch
  <2>3. todo' \subseteq Cases
    BY <1>1 DEF Launch, PendingCases
  <2>. QED
    BY <1>1, <2>1, <2>2, <2>3 DEF Launch, Stages
<1>2. ASSUME NEW c \in Cases, Submit(c) PROVE TypeOK'
  BY <1>2, <1>l DEF Submit, Stages
<1>3. CASE Collect
  BY <1>3, <1>l DEF Collect, Stages
<1>4. CASE Finish
  BY <1>4, <1>l, <1>e DEF Finish
<1>5. CASE Abort
  BY <1>5, <1>l, <1>e DEF Abort
<1>6. CASE Crash
  BY <1>6, <1>l, <1>e DEF Crash
<1>7. CASE WallExpires
  BY <1>7, <1>l DEF WallExpires
<1>8. ASSUME NEW c \in Cases, CaseStep(c) PROVE TypeOK'
  <2>. USE DEF ProcUnchanged, Goto, Stages, Working, Finished, Terminal
  <2>1. CASE Begin(c)
    <3>1. PICK stage \in Stages : pc' = [pc EXCEPT ![c] = stage]
      BY <2>1 DEF Begin
    <3>2. retry' = [retry EXCEPT ![c] = NextAttempt(c)]
      BY <2>1 DEF Begin, NextAttempt
    <3>3. LedgerTypeOK'
      <4>1. CASE UNCHANGED ledgerVars
        BY <4>1, <1>l
      <4>2. CASE Fail(c, "system_failed", spec.maxRetries)
        <5>1. spec.maxRetries \in Nat
          BY <2>1, LedgerAssumption DEF Begin
        <5>. QED
          BY <4>2, <5>1, <1>l
      <4>. QED
        BY <2>1, <4>1, <4>2 DEF Begin
    <3>. QED
      BY <2>1, <3>1, <3>2, <3>3, <1>n DEF Begin
  <2>2. CASE CheckBudget(c)
    BY <2>2, <1>l DEF CheckBudget
  <2>3. CASE Reserve(c)
    BY <2>3, <1>l, <1>n DEF Reserve
  <2>4. CASE Send(c)
    BY <2>4, <1>l DEF Send, Attempt
  <2>5. CASE Answer(c)
    BY <2>5, <1>l DEF Answer, HandleGatewayError, Attempt
  <2>6. CASE Audit(c)
    BY <2>6, <1>l DEF Audit
  <2>7. CASE AcquireScoreLock(c)
    BY <2>7, <1>l DEF AcquireScoreLock
  <2>8. CASE Score(c)
    BY <2>8, <1>l DEF Score, HandleGatewayError, ReleaseScoreLock
  <2>9. CASE Settle(c)
    BY <2>9, <1>l DEF Settle
  <2>10. CASE Backoff(c)
    BY <2>10, <1>l DEF Backoff
  <2>11. CASE Cooldown(c)
    BY <2>11, <1>l DEF Cooldown
  <2>. QED
    BY <1>8, <2>1, <2>2, <2>3, <2>4, <2>5, <2>6, <2>7, <2>8, <2>9, <2>10,
       <2>11 DEF CaseStep
<1>9. CASE UNCHANGED vars
  BY <1>9, <1>l DEF vars, procVars
<1>. QED
  BY <1>1, <1>2, <1>3, <1>4, <1>5, <1>6, <1>7, <1>8, <1>9
     DEF Next, DriverStep

-----------------------------------------------------------------------------
(***************************************************************************)
(* Facts about attempts and counted requests.                              *)
(***************************************************************************)

\* A case with n attempts numbered from 0 has n of them.
LEMMA PrefixCardinality ==
  ASSUME NEW c, NEW n \in Nat
  PROVE  Cardinality({c} \X (0 .. n - 1)) = n
<1>1. IsFiniteSet({c}) /\ Cardinality({c}) = 1
  BY FS_Singleton
<1>2. IsFiniteSet(0 .. n - 1) /\ Cardinality(0 .. n - 1) = n
  BY FS_Interval
<1>3. Cardinality({c} \X (0 .. n - 1))
        = Cardinality({c}) * Cardinality(0 .. n - 1)
  BY <1>1, <1>2, FS_Product
<1>. QED
  BY <1>1, <1>2, <1>3

\* reserve_attempt extends the case's numbering by one and no other case's.
LEMMA ReserveEffect ==
  ASSUME LedgerTypeOK, AttemptShape, NEW c \in Cases, NEW limit,
         ReserveAttempt(c, limit)
  PROVE  /\ <<c, NextAttempt(c)>> \notin attempts
         /\ NextAttempt(c)' = NextAttempt(c) + 1
         /\ AttemptsOf(c)' = {c} \X (0 .. NextAttempt(c))
         /\ \A d \in Cases \ {c} :
              /\ AttemptsOf(d)' = AttemptsOf(d)
              /\ NextAttempt(d)' = NextAttempt(d)
<1>. DEFINE n == NextAttempt(c)
<1>1. n \in Nat
  BY AttemptsFinite DEF LedgerTypeOK
<1>2. AttemptsOf(c) = {c} \X (0 .. n - 1)
  BY DEF AttemptShape
<1>3. attempts' = attempts \cup {<<c, n>>}
  BY DEF ReserveAttempt
<1>4. <<c, n>> \notin attempts
  <2>1. <<c, n>> \notin {c} \X (0 .. n - 1)
    BY <1>1
  <2>. QED
    BY <1>2, <2>1 DEF AttemptsOf
<1>5. AttemptsOf(c)' = {c} \X (0 .. n)
  <2>1. AttemptsOf(c)' = AttemptsOf(c) \cup {<<c, n>>}
    BY <1>3 DEF AttemptsOf
  <2>2. 0 .. n = (0 .. n - 1) \cup {n}
    BY <1>1
  <2>. QED
    BY <1>2, <2>1, <2>2
<1>6. NextAttempt(c)' = n + 1
  <2>1. Cardinality({c} \X (0 .. (n + 1) - 1)) = n + 1
    <3>1. n + 1 \in Nat
      BY <1>1
    <3>. HIDE DEF n
    <3>. QED
      BY <3>1, PrefixCardinality
  <2>2. (n + 1) - 1 = n
    BY <1>1
  <2>. QED
    BY <1>5, <2>1, <2>2 DEF NextAttempt
<1>7. ASSUME NEW d \in Cases \ {c}
      PROVE  AttemptsOf(d)' = AttemptsOf(d)
  BY <1>3, <1>7 DEF AttemptsOf
<1>. QED
  BY <1>4, <1>5, <1>6, <1>7 DEF NextAttempt

\* Without a reservation, the attempts of every case stay what they are.
LEMMA AttemptsFrame ==
  ASSUME attempts' = attempts
  PROVE  \A d : AttemptsOf(d)' = AttemptsOf(d) /\ NextAttempt(d)' = NextAttempt(d)
BY DEF AttemptsOf, NextAttempt

\* Settling cases that have attempts leaves the counted requests alone.
LEMMA CountedFrame ==
  ASSUME attempts' = attempts,
         \A d \in Cases :
           \/ status[d]' = status[d] /\ retryCount[d]' = retryCount[d]
           \/ AttemptsOf(d) # {}
           \/ {status[d], status[d]'} \cap Terminal = {}
  PROVE  CountedRequests' = CountedRequests
<1>1. \A d : AttemptsOf(d)' = AttemptsOf(d)
  BY AttemptsFrame
<1>2. LegacyRows' = LegacyRows
  BY <1>1 DEF LegacyRows
<1>3. \A d \in LegacyRows : retryCount'[d] = retryCount[d]
  BY DEF LegacyRows
<1>. QED
  BY <1>2, <1>3 DEF CountedRequests

-----------------------------------------------------------------------------
(***************************************************************************)
(* The invariant holds initially.                                          *)
(***************************************************************************)

\* Nothing is reserved at first, so only legacy rows are counted.
LEMMA InitInv == Init => IInv
<1>. SUFFICES ASSUME Init PROVE IInv
  OBVIOUS
<1>. USE LedgerAssumption, RunnerAssumption DEF Init
<1>1. LedgerTypeOK
  BY LedgerInitType
<1>2. TypeOK
  <2>1. launches \in 0 .. MaxLaunches
    OBVIOUS
  <2>2. pc \in [Cases -> Stages]
    BY DEF Stages
  <2>3. ~Running
    BY DEF Running
  <2>. QED
    BY <1>1, <2>1, <2>2, <2>3 DEF TypeOK
<1>3. attempts = {} /\ IsFiniteSet(attempts)
  BY FS_EmptySet DEF LedgerInit, FreshLedger, LegacyLedger
<1>4. \A c : AttemptsOf(c) = {} /\ NextAttempt(c) = 0
  BY <1>3, FS_EmptySet DEF AttemptsOf, NextAttempt
<1>5. \/ /\ manifest = None /\ runStatus = "absent"
         /\ \A c \in Cases : status[c] = "absent"
      \/ /\ manifest \in Specs /\ runStatus = "running"
         /\ \A c \in Cases :
              IF c \in LegacyCases THEN status[c] \in Terminal
                                   ELSE status[c] = "pending"
  BY DEF LedgerInit, FreshLedger, LegacyLedger
<1>6. LedgerShape
  BY <1>3, <1>5 DEF LedgerShape, Terminal
<1>7. FutureShape
  BY <1>5 DEF FutureShape, Running, Unsettled
<1>8. AttemptShape
  <2>1. ASSUME NEW c \in Cases
        PROVE  /\ AttemptsOf(c) = {c} \X (0 .. NextAttempt(c) - 1)
               /\ manifest # None => NextAttempt(c) <= manifest.maxRetries + 1
    <3>1. 0 .. NextAttempt(c) - 1 = {}
      BY <1>4
    <3>2. manifest # None => manifest.maxRetries \in Nat
      BY <1>5
    <3>. QED
      BY <3>1, <3>2, <1>4
  <2>. QED
    BY <2>1 DEF AttemptShape
<1>9. RetryShape
  BY DEF RetryShape, Holding
<1>10. RequestShape
  BY <1>3, <1>5 DEF RequestShape, SettledRowIsLastAttempt, Terminal
<1>11. BudgetShape
  <2>1. CASE manifest = None
    <3>1. LegacyRows = {}
      BY <2>1, <1>5 DEF LegacyRows, Terminal
    <3>2. CountedRequests = {}
      BY <3>1, <1>3 DEF CountedRequests
    <3>. QED
      BY <2>1, <3>2, FS_EmptySet DEF BudgetShape
  <2>2. CASE manifest # None
    <3>1. LegacyLedger
      BY <2>2 DEF LedgerInit, FreshLedger
    <3>2. manifest.maxRetries \in Nat /\ manifest \in Specs
      BY <3>1 DEF LegacyLedger
    <3>3. retryCount \in [Cases -> 0 .. manifest.maxRetries]
      BY <3>1 DEF LegacyLedger
    <3>4. CountedRequests \in SUBSET (Cases \X (0 .. manifest.maxRetries))
      <4>1. ASSUME NEW a \in CountedRequests
            PROVE  a \in Cases \X (0 .. manifest.maxRetries)
        <5>1. PICK c \in LegacyRows : a \in {c} \X (0 .. retryCount[c])
          BY <1>3 DEF CountedRequests
        <5>2. c \in Cases /\ retryCount[c] \in 0 .. manifest.maxRetries
          BY <3>3 DEF LegacyRows
        <5>3. a[1] = c /\ a[2] \in 0 .. retryCount[c] /\ a = <<a[1], a[2]>>
          BY <5>1
        <5>4. a[2] \in 0 .. manifest.maxRetries
          BY <5>2, <5>3, <3>2
        <5>. QED
          BY <5>2, <5>3, <5>4
      <4>. QED
        BY <4>1
    <3>5. IsFiniteSet(0 .. manifest.maxRetries)
      BY <3>2, FS_Interval
    <3>6. IsFiniteSet(Cases \X (0 .. manifest.maxRetries))
      BY <3>5, FS_Product
    <3>7. IsFiniteSet(CountedRequests)
      BY <3>4, <3>6, FS_Subset
    <3>. QED
      BY <3>1, <3>7 DEF BudgetShape, LegacyLedger
  <2>. QED
    BY <2>1, <2>2
<1>12. ScoringSerialized
  BY DEF ScoringSerialized
<1>. QED
  BY <1>2, <1>6, <1>7, <1>8, <1>9, <1>10, <1>11, <1>12 DEF IInv

-----------------------------------------------------------------------------
(***************************************************************************)
(* Every step keeps the invariant, shape by shape.                         *)
(***************************************************************************)

\* What the step of a future does to the process around it.
LEMMA CaseStepFrame ==
  ASSUME TypeOK, NEW c \in Cases, CaseStep(c)
  PROVE  /\ ProcUnchanged
         /\ UNCHANGED <<manifest, runStatus>>
         /\ \A d \in Cases \ {c} :
              /\ pc'[d] = pc[d] /\ retry'[d] = retry[d]
              /\ status'[d] = status[d] /\ retryCount'[d] = retryCount[d]
<1>. USE DEF TypeOK, LedgerTypeOK, Goto, ledgerVars
<1>1. CASE Begin(c)
  BY <1>1 DEF Begin, Fail
<1>2. CASE CheckBudget(c)
  BY <1>2 DEF CheckBudget
<1>3. CASE Reserve(c)
  BY <1>3 DEF Reserve, ReserveAttempt
<1>4. CASE Send(c)
  BY <1>4 DEF Send
<1>5. CASE Answer(c)
  BY <1>5 DEF Answer, HandleGatewayError, Fail
<1>6. CASE Audit(c)
  BY <1>6 DEF Audit, Fail
<1>7. CASE AcquireScoreLock(c)
  BY <1>7 DEF AcquireScoreLock
<1>8. CASE Score(c)
  BY <1>8 DEF Score, HandleGatewayError, Fail
<1>9. CASE Settle(c)
  BY <1>9 DEF Settle, Complete
<1>10. CASE Backoff(c)
  BY <1>10 DEF Backoff
<1>11. CASE Cooldown(c)
  BY <1>11 DEF Cooldown
<1>. QED
  BY <1>1, <1>2, <1>3, <1>4, <1>5, <1>6, <1>7, <1>8, <1>9, <1>10, <1>11
     DEF CaseStep

\* A future's step starts in a running process and leaves its case settled
\* exactly when it says so; a settled case never becomes pending again.
LEMMA CaseStepStage ==
  ASSUME TypeOK, FutureShape, NEW c \in Cases, CaseStep(c)
  PROVE  /\ Running /\ pc[c] # "idle" /\ pc'[c] \notin {"idle", "submitted"}
         /\ pc'[c] \in Unsettled => status'[c] = "pending"
         /\ pc'[c] \in {"cooldown", "returned"} => status'[c] \in Terminal
         /\ \/ status'[c] = status[c] /\ retryCount'[c] = retryCount[c]
            \/ status[c] = "pending" /\ status'[c] \in Terminal
<1>. USE DEF TypeOK, LedgerTypeOK, FutureShape, Goto, ledgerVars, Terminal,
             Unsettled
<1>1. CASE Begin(c)
  BY <1>1 DEF Begin, Fail
<1>2. CASE CheckBudget(c)
  BY <1>2 DEF CheckBudget
<1>3. CASE Reserve(c)
  BY <1>3 DEF Reserve, ReserveAttempt
<1>4. CASE Send(c)
  BY <1>4 DEF Send
<1>5. CASE Answer(c)
  BY <1>5 DEF Answer, HandleGatewayError, Fail
<1>6. CASE Audit(c)
  BY <1>6 DEF Audit, Fail
<1>7. CASE AcquireScoreLock(c)
  BY <1>7 DEF AcquireScoreLock
<1>8. CASE Score(c)
  BY <1>8 DEF Score, HandleGatewayError, Fail
<1>9. CASE Settle(c)
  BY <1>9 DEF Settle, Complete
<1>10. CASE Backoff(c)
  BY <1>10 DEF Backoff
<1>11. CASE Cooldown(c)
  BY <1>11 DEF Cooldown
<1>. QED
  BY <1>1, <1>2, <1>3, <1>4, <1>5, <1>6, <1>7, <1>8, <1>9, <1>10, <1>11
     DEF CaseStep

\* Rows exist once the manifest does; the driver closes the run only when no
\* case is pending, because a collected future that returned settled its case.
LEMMA LedgerFutureStep ==
  ASSUME IInv, [Next]_vars
  PROVE  LedgerShape' /\ FutureShape'
<1>. USE DEF LedgerShape, FutureShape, Running, PendingCases, Unsettled,
             Terminal
<1>t. TypeOK /\ LedgerTypeOK /\ LedgerShape /\ FutureShape
  BY DEF IInv, TypeOK
<1>1. ASSUME NEW s \in Specs, Launch(s)
      PROVE  LedgerShape' /\ FutureShape'
  <2>1. manifest' = s /\ spec' = s /\ s # None /\ main' = "driving"
    BY <1>1, LedgerAssumption DEF Launch, Initialize
  <2>2. \A c \in Cases : pc'[c] = "idle"
    BY <1>1 DEF Launch
  <2>3. \A c \in Cases : status'[c] =
          IF status[c] = "absent" THEN "pending" ELSE status[c]
    BY <1>1 DEF Launch, Initialize
  <2>4. runStatus' = "completed" => manifest # None /\ runStatus = "completed"
    BY <1>1 DEF Launch, Initialize
  <2>5. todo' = {c \in Cases : status'[c] = "pending"}
    BY <1>1 DEF Launch
  <2>6. \A c \in Cases : status'[c] # "absent"
    BY <2>3
  <2>7. runStatus' = "completed" => PendingCases' = {}
    BY <2>3, <2>4, <1>t
  <2>8. LedgerShape'
    BY <2>1, <2>6, <2>7
  <2>9. FutureShape'
    BY <2>1, <2>2, <2>5
  <2>. QED
    BY <2>8, <2>9
<1>2. ASSUME NEW c \in Cases, Submit(c)
      PROVE  LedgerShape' /\ FutureShape'
  BY <1>2, <1>t DEF Submit, ledgerVars, TypeOK
<1>3. CASE Collect
  <2>1. \A c \in Cases :
          \/ pc'[c] = pc[c]
          \/ /\ pc'[c] = "idle"
             /\ pc[c] = "returned" \/ main' = "aborting"
    BY <1>3, <1>t DEF Collect, TypeOK, Finished
  <2>2. main' \in {"driving", "aborting"} /\ main = "driving"
    BY <1>3 DEF Collect
  <2>3. UNCHANGED <<ledgerVars, spec, todo>>
    BY <1>3 DEF Collect
  <2>. QED
    BY <2>1, <2>2, <2>3, <1>t DEF ledgerVars
<1>4. CASE Finish
  <2>1. PendingCases = {}
    BY <1>4, <1>t DEF Finish, Futures
  <2>. QED
    BY <1>4, <2>1, <1>t DEF Finish, Exit, MarkCompletedIfSettled
<1>5. CASE Abort
  BY <1>5, <1>t DEF Abort, Exit, ledgerVars
<1>6. CASE Crash
  BY <1>6, <1>t DEF Crash, Exit, ledgerVars
<1>7. CASE WallExpires
  BY <1>7, <1>t DEF WallExpires, ledgerVars
<1>8. ASSUME NEW c \in Cases, CaseStep(c)
      PROVE  LedgerShape' /\ FutureShape'
  <2>1. /\ UNCHANGED <<main, spec, todo, manifest, runStatus>>
        /\ \A d \in Cases \ {c} : pc'[d] = pc[d] /\ status'[d] = status[d]
    BY <1>8, <1>t, CaseStepFrame DEF ProcUnchanged
  <2>2. /\ Running /\ pc[c] # "idle" /\ pc'[c] \notin {"idle", "submitted"}
        /\ pc'[c] \in Unsettled => status'[c] = "pending"
        /\ pc'[c] \in {"cooldown", "returned"} => status'[c] \in Terminal
        /\ \/ status'[c] = status[c]
           \/ status[c] = "pending" /\ status'[c] \in Terminal
    <3>. HIDE DEF FutureShape, LedgerShape, Running, Terminal, Unsettled
    <3>. QED
      BY <1>8, <1>t, CaseStepStage
  <2>3. manifest # None
    BY <2>2, <1>t
  <2>4. LedgerShape'
    BY <2>1, <2>2, <2>3, <1>t
  <2>5. FutureShape'
    BY <2>1, <2>2, <2>3, <1>t
  <2>. QED
    BY <2>4, <2>5
<1>9. CASE UNCHANGED vars
  BY <1>9, <1>t DEF vars, procVars, ledgerVars
<1>. QED
  BY <1>1, <1>2, <1>3, <1>4, <1>5, <1>6, <1>7, <1>8, <1>9
     DEF Next, DriverStep

\* Only Reserve adds an attempt, and only under the frozen request limit.
LEMMA AttemptsStep ==
  ASSUME TypeOK, FutureShape, [Next]_vars
  PROVE  \/ attempts' = attempts
         \/ \E c \in Cases : Reserve(c) /\ ReserveAttempt(c, manifest.maxRequests)
<1>1. ASSUME NEW c \in Cases, Reserve(c), attempts' # attempts
      PROVE  ReserveAttempt(c, manifest.maxRequests)
  <2>1. ReserveAttempt(c, spec.maxRequests) /\ pc[c] = "reserve"
    BY <1>1 DEF Reserve, ledgerVars
  <2>. QED
    BY <2>1 DEF FutureShape
<1>2. ASSUME NEW c \in Cases, CaseStep(c), ~Reserve(c)
      PROVE  attempts' = attempts
  BY <1>2 DEF CaseStep, Begin, CheckBudget, Send, Answer, Audit,
     AcquireScoreLock, Score, Settle, Backoff, Cooldown, HandleGatewayError,
     Fail, Complete, ledgerVars
<1>. QED
  BY <1>1, <1>2 DEF Next, DriverStep, Launch, Submit, Collect, Finish, Abort,
     Crash, WallExpires, Initialize, MarkCompletedIfSettled, vars, ledgerVars

\* The numbering stays gapless and bounded: a future reserves only while its
\* retry_count, the number of attempts so far, is within max_retries.
LEMMA AttemptShapeStep ==
  ASSUME IInv, [Next]_vars, LedgerShape'
  PROVE  AttemptShape'
<1>t. /\ TypeOK /\ LedgerTypeOK /\ LedgerShape /\ FutureShape /\ AttemptShape
      /\ RetryShape /\ \A c \in Cases : NextAttempt(c) \in Nat
  BY AttemptsFinite DEF IInv, TypeOK, LedgerTypeOK
<1>m. manifest' = manifest \/ (manifest = None /\ attempts' = {})
  <2>1. ASSUME NEW s \in Specs, Launch(s)
        PROVE  manifest' = manifest \/ (manifest = None /\ attempts' = {})
    BY <2>1, <1>t DEF Launch, Initialize, LedgerShape
  <2>2. ASSUME NEW c \in Cases, CaseStep(c) PROVE manifest' = manifest
    BY <2>2, <1>t, CaseStepFrame
  <2>. QED
    BY <2>1, <2>2 DEF Next, DriverStep, Submit, Collect, Finish, Abort,
       Crash, WallExpires, MarkCompletedIfSettled, vars, ledgerVars
<1>1. CASE attempts' = attempts
  <2>1. \A c : AttemptsOf(c)' = AttemptsOf(c)
                 /\ NextAttempt(c)' = NextAttempt(c)
    BY <1>1, AttemptsFrame
  <2>2. CASE manifest' = manifest
    BY <2>1, <2>2, <1>t DEF AttemptShape
  <2>3. CASE manifest = None /\ attempts' = {}
    <3>1. \A c : NextAttempt(c)' = 0
      BY <2>3, FS_EmptySet DEF NextAttempt, AttemptsOf
    <3>2. TypeOK'
      BY <1>t, TypeStep
    <3>3. manifest' # None => manifest'.maxRetries \in Nat
      BY <3>2, LedgerAssumption DEF TypeOK, LedgerTypeOK
    <3>. QED
      BY <2>1, <3>1, <3>3, <1>t DEF AttemptShape
  <2>. QED
    BY <1>m, <2>2, <2>3
<1>2. ASSUME NEW c \in Cases, Reserve(c),
             ReserveAttempt(c, manifest.maxRequests)
      PROVE  AttemptShape'
  <2>1. /\ NextAttempt(c)' = NextAttempt(c) + 1
        /\ AttemptsOf(c)' = {c} \X (0 .. NextAttempt(c))
        /\ \A d \in Cases \ {c} : AttemptsOf(d)' = AttemptsOf(d)
                                    /\ NextAttempt(d)' = NextAttempt(d)
    BY <1>2, <1>t, ReserveEffect
  <2>2. NextAttempt(c) <= manifest.maxRetries /\ manifest # None
    BY <1>2, <1>t DEF Reserve, RetryShape, FutureShape
  <2>3. manifest' = manifest /\ manifest.maxRetries \in Nat
    BY <1>2, <2>2, <1>t, LedgerAssumption DEF ReserveAttempt, LedgerTypeOK
  <2>4. 0 .. NextAttempt(c) = 0 .. NextAttempt(c)' - 1
    BY <2>1, <1>t
  <2>5. NextAttempt(c)' <= manifest.maxRetries + 1
    BY <2>1, <2>2, <2>3, <1>t
  <2>6. ASSUME NEW d \in Cases
        PROVE  /\ AttemptsOf(d)' = {d} \X (0 .. NextAttempt(d)' - 1)
               /\ NextAttempt(d)' <= manifest.maxRetries + 1
    <3>1. CASE d = c
      BY <3>1, <2>1, <2>4, <2>5
    <3>2. CASE d # c
      BY <3>2, <2>1, <2>2, <1>t DEF AttemptShape
    <3>. QED
      BY <3>1, <3>2
  <2>. QED
    BY <2>3, <2>6 DEF AttemptShape
<1>. QED
  BY <1>1, <1>2, <1>t, AttemptsStep

\* retry_count follows the ledger: a future starts with the count it read,
\* reserving makes it the new attempt's number, a retry moves one past it.
LEMMA RetryShapeStep ==
  ASSUME IInv, [Next]_vars
  PROVE  RetryShape'
<1>. USE DEF RetryShape, Holding
<1>t. /\ TypeOK /\ LedgerTypeOK /\ LedgerShape /\ FutureShape /\ AttemptShape
      /\ RetryShape /\ \A c \in Cases : NextAttempt(c) \in Nat
  BY AttemptsFinite DEF IInv, TypeOK, LedgerTypeOK
<1>a. attempts' = attempts => \A c : NextAttempt(c)' = NextAttempt(c)
  BY AttemptsFrame
<1>1. ASSUME NEW s \in Specs, Launch(s) PROVE RetryShape'
  BY <1>1 DEF Launch
<1>2. ASSUME NEW c \in Cases, Submit(c) PROVE RetryShape'
  BY <1>2, <1>a, <1>t DEF Submit, ledgerVars, TypeOK
<1>3. CASE Collect
  BY <1>3, <1>a, <1>t DEF Collect, ledgerVars, TypeOK
<1>4. CASE Finish
  BY <1>4 DEF Finish, Exit
<1>5. CASE Abort
  BY <1>5 DEF Abort, Exit
<1>6. CASE Crash
  BY <1>6 DEF Crash, Exit
<1>7. CASE WallExpires
  BY <1>7, <1>a, <1>t DEF WallExpires, ledgerVars
<1>8. ASSUME NEW c \in Cases, CaseStep(c) PROVE RetryShape'
  <2>. DEFINE P(d) ==
         /\ pc[d] \in {"check", "reserve"} =>
              retry[d] = NextAttempt(d) /\ retry[d] <= spec.maxRetries
         /\ pc[d] \in Holding => NextAttempt(d) = retry[d] + 1
         /\ pc[d] = "backoff" => retry[d] < spec.maxRetries
  <2>1. spec' = spec /\ \A d \in Cases \ {c} : pc'[d] = pc[d]
                                                 /\ retry'[d] = retry[d]
    BY <1>8, <1>t, CaseStepFrame DEF ProcUnchanged
  <2>2. \A d \in Cases \ {c} : NextAttempt(d)' = NextAttempt(d)
    <3>1. ASSUME NEW b \in Cases, Reserve(b),
                 ReserveAttempt(b, manifest.maxRequests)
          PROVE  \A d \in Cases \ {c} : NextAttempt(d)' = NextAttempt(d)
      <4>1. CASE b = c
        BY <3>1, <4>1, <1>t, ReserveEffect
      <4>2. CASE b # c
        BY <3>1, <4>2, <2>1, <1>t DEF Reserve, Goto, TypeOK
      <4>. QED
        BY <4>1, <4>2
    <3>. QED
      BY <3>1, <1>a, <1>t, AttemptsStep
  <2>3. P(c)'
    <3>. USE DEF Goto, TypeOK, Stages, Working, Finished
    <3>s. /\ Running => spec \in Specs /\ spec.maxRetries \in Nat
          /\ pc[c] # "idle" => Running
      BY <1>t, LedgerAssumption DEF FutureShape
    <3>1. CASE Begin(c)
      <4>1. attempts' = attempts
        BY <3>1 DEF Begin, Fail, ledgerVars
      <4>. QED
        BY <3>1, <4>1, <1>a, <1>t DEF Begin, ProcUnchanged, NextAttempt
    <3>2. CASE CheckBudget(c)
      BY <3>2, <1>a, <1>t DEF CheckBudget, ProcUnchanged, ledgerVars
    <3>3. CASE Reserve(c)
      <4>1. CASE attempts' = attempts
        <5>1. pc'[c] = "raised"
          <6>1. CASE ReserveAttempt(c, spec.maxRequests)
            BY <6>1, <4>1, <1>t, ReserveEffect DEF ReserveAttempt
          <6>2. CASE Goto(c, "raised")
            BY <6>2, <1>t
          <6>. QED
            BY <6>1, <6>2, <3>3 DEF Reserve
        <5>. QED
          BY <5>1
      <4>2. CASE ReserveAttempt(c, spec.maxRequests)
        <5>1. NextAttempt(c)' = NextAttempt(c) + 1
          BY <4>2, <1>t, ReserveEffect
        <5>2. CASE pc'[c] = "call" /\ retry'[c] = NextAttempt(c)
          BY <5>1, <5>2
        <5>3. CASE pc'[c] = "raised"
          BY <5>3
        <5>. QED
          BY <3>3, <5>2, <5>3, <1>t DEF Reserve
      <4>. QED
        BY <3>3, <4>1, <4>2 DEF Reserve, ledgerVars
    <3>4. CASE Send(c)
      BY <3>4, <1>a, <1>t DEF Send, ProcUnchanged, ledgerVars
    <3>5. CASE Answer(c)
      BY <3>5, <3>s, <1>a, <1>t
         DEF Answer, HandleGatewayError, Fail, ProcUnchanged, ledgerVars
    <3>6. CASE Audit(c)
      BY <3>6, <1>a, <1>t DEF Audit, Fail, ProcUnchanged, ledgerVars
    <3>7. CASE AcquireScoreLock(c)
      BY <3>7, <1>a, <1>t DEF AcquireScoreLock, ProcUnchanged, ledgerVars
    <3>8. CASE Score(c)
      BY <3>8, <3>s, <1>a, <1>t
         DEF Score, HandleGatewayError, Fail, ProcUnchanged, ledgerVars
    <3>9. CASE Settle(c)
      BY <3>9, <1>t DEF Settle
    <3>10. CASE Backoff(c)
      BY <3>10, <3>s, <1>a, <1>t DEF Backoff, ProcUnchanged, ledgerVars
    <3>11. CASE Cooldown(c)
      BY <3>11, <1>t DEF Cooldown
    <3>. QED
      BY <1>8, <3>1, <3>2, <3>3, <3>4, <3>5, <3>6, <3>7, <3>8, <3>9, <3>10,
         <3>11 DEF CaseStep
  <2>. QED
    BY <2>1, <2>2, <2>3, <1>t
<1>9. CASE UNCHANGED vars
  BY <1>9, <1>a, <1>t DEF vars, procVars, ledgerVars
<1>. QED
  BY <1>1, <1>2, <1>3, <1>4, <1>5, <1>6, <1>7, <1>8, <1>9
     DEF Next, DriverStep

\* How sending and answering move the history: one attempt of one future.
LEMMA HistoryStep ==
  ASSUME TypeOK, [Next]_vars
  PROVE  \/ UNCHANGED history
         \/ \E c \in Cases :
              /\ pc[c] = "call" /\ pc'[c] = "awaiting"
              /\ sent' = sent \cup {Attempt(c)} /\ answered' = answered
         \/ \E c \in Cases :
              /\ pc[c] = "awaiting" /\ pc'[c] \in {"audit", "raised"}
              /\ answered' = answered \cup {Attempt(c)} /\ sent' = sent
<1>1. ASSUME NEW c \in Cases, Send(c)
      PROVE  /\ pc[c] = "call" /\ pc'[c] = "awaiting"
             /\ sent' = sent \cup {Attempt(c)} /\ answered' = answered
  BY <1>1 DEF Send, Goto, TypeOK
<1>2. ASSUME NEW c \in Cases, Answer(c)
      PROVE  \/ UNCHANGED history
             \/ /\ pc[c] = "awaiting" /\ pc'[c] \in {"audit", "raised"}
                /\ answered' = answered \cup {Attempt(c)} /\ sent' = sent
  BY <1>2 DEF Answer, Goto, TypeOK, history
<1>3. ASSUME NEW c \in Cases, CaseStep(c), ~Send(c), ~Answer(c)
      PROVE  UNCHANGED history
  BY <1>3 DEF CaseStep, Begin, CheckBudget, Reserve, Audit,
     AcquireScoreLock, Score, Settle, Backoff, Cooldown
<1>. QED
  BY <1>1, <1>2, <1>3 DEF Next, DriverStep, Launch, Submit, Collect, Finish,
     Abort, Crash, WallExpires, Exit, vars

\* A case is settled by its own future only, with the number of its last
\* attempt, and completed only after the Gateway answered that attempt.
LEMMA SettleStep ==
  ASSUME IInv, [Next]_vars, NEW c \in Cases
  PROVE  \/ /\ \/ status'[c] = status[c]
               \/ status[c] = "absent" /\ status'[c] = "pending"
            /\ retryCount'[c] = retryCount[c]
         \/ /\ attempts' = attempts /\ UNCHANGED history
            /\ status[c] = "pending" /\ status'[c] \in Terminal
            /\ retryCount'[c] \in Nat /\ NextAttempt(c) = retryCount'[c] + 1
            /\ status'[c] = "completed" => <<c, retryCount'[c]>> \in answered
<1>t. /\ TypeOK /\ LedgerTypeOK /\ LedgerShape /\ FutureShape /\ AttemptShape
      /\ RetryShape /\ RequestShape
      /\ \A d \in Cases : NextAttempt(d) \in Nat
  BY AttemptsFinite DEF IInv, TypeOK, LedgerTypeOK
<1>. DEFINE Kept ==
       /\ \/ status'[c] = status[c]
          \/ status[c] = "absent" /\ status'[c] = "pending"
       /\ retryCount'[c] = retryCount[c]
<1>. DEFINE Settled ==
       /\ attempts' = attempts /\ UNCHANGED history
       /\ status[c] = "pending" /\ status'[c] \in Terminal
       /\ retryCount'[c] \in Nat /\ NextAttempt(c) = retryCount'[c] + 1
       /\ status'[c] = "completed" => <<c, retryCount'[c]>> \in answered
<1>1. ASSUME NEW s \in Specs, Launch(s) PROVE Kept
  BY <1>1, <1>t DEF Launch, Initialize
<1>2. ASSUME NEW d \in Cases \ {c}, CaseStep(d) PROVE Kept
  BY <1>2, <1>t, CaseStepFrame
<1>3. CASE CaseStep(c)
  <2>1. \A d \in Cases : pc[d] # "idle" =>
          Running /\ spec = manifest /\ spec.maxRetries \in Nat
    BY <1>t, LedgerAssumption DEF FutureShape, LedgerTypeOK
  <2>2. pc[c] \in Unsettled => status[c] = "pending"
    BY <1>t DEF FutureShape
  <2>3. pc[c] \in Holding => NextAttempt(c) = retry[c] + 1
    BY <1>t DEF RetryShape
  <2>4. retry[c] \in Nat
    BY <1>t DEF TypeOK
  <2>. USE DEF ledgerVars, LedgerTypeOK, Terminal, Unsettled, Holding
  <2>5. CASE Begin(c)
    <3>1. CASE UNCHANGED ledgerVars
      BY <3>1
    <3>2. CASE /\ Cardinality(AttemptsOf(c)) > spec.maxRetries
               /\ Fail(c, "system_failed", spec.maxRetries)
      <4>1. NextAttempt(c) = spec.maxRetries + 1
        BY <3>2, <2>1, <2>5, <1>t DEF AttemptShape, NextAttempt, Begin, FutureShape
      <4>2. retryCount'[c] = spec.maxRetries /\ status'[c] = "system_failed"
        BY <3>2, <1>t DEF Fail
      <4>. QED
        BY <2>1, <2>2, <2>5, <3>2, <4>1, <4>2 DEF Begin, Fail
    <3>. QED
      BY <2>5, <3>1, <3>2 DEF Begin
  <2>6. CASE CheckBudget(c)
    BY <2>6 DEF CheckBudget
  <2>7. CASE Reserve(c)
    BY <2>7 DEF Reserve, ReserveAttempt
  <2>8. CASE Send(c)
    BY <2>8 DEF Send
  <2>9. CASE Answer(c)
    BY <2>9, <2>2, <2>3, <2>4, <1>t
       DEF Answer, HandleGatewayError, Fail, history
  <2>10. CASE Audit(c)
    BY <2>10, <2>2, <2>3, <2>4, <1>t DEF Audit, Fail
  <2>11. CASE AcquireScoreLock(c)
    BY <2>11 DEF AcquireScoreLock
  <2>12. CASE Score(c)
    BY <2>12, <2>2, <2>3, <2>4, <1>t DEF Score, HandleGatewayError, Fail
  <2>13. CASE Settle(c)
    <3>1. <<c, retry[c]>> \in answered
      BY <2>13, <1>t DEF Settle, RequestShape, Attempt
    <3>. QED
      BY <2>13, <2>2, <2>3, <2>4, <3>1, <1>t DEF Settle, Complete
  <2>14. CASE Backoff(c)
    BY <2>14 DEF Backoff
  <2>15. CASE Cooldown(c)
    BY <2>15 DEF Cooldown
  <2>. QED
    BY <1>3, <2>5, <2>6, <2>7, <2>8, <2>9, <2>10, <2>11, <2>12, <2>13,
       <2>14, <2>15 DEF CaseStep
<1>. QED
  BY <1>1, <1>2, <1>3 DEF Next, DriverStep, Submit, Collect, Finish, Abort,
     Crash, WallExpires, MarkCompletedIfSettled, vars, ledgerVars

\* A send happens once per reservation, an answer only to what was sent, and
\* a settled row keeps naming its last attempt.
LEMMA RequestShapeStep ==
  ASSUME IInv, [Next]_vars
  PROVE  RequestShape'
<1>t. /\ TypeOK /\ LedgerTypeOK /\ LedgerShape /\ FutureShape /\ AttemptShape
      /\ RetryShape /\ RequestShape
      /\ \A d \in Cases : NextAttempt(d) \in Nat
  BY AttemptsFinite DEF IInv, TypeOK, LedgerTypeOK
<1>h. \/ UNCHANGED history
      \/ \E c \in Cases :
           /\ pc[c] = "call" /\ pc'[c] = "awaiting"
           /\ sent' = sent \cup {Attempt(c)} /\ answered' = answered
      \/ \E c \in Cases :
           /\ pc[c] = "awaiting" /\ pc'[c] \in {"audit", "raised"}
           /\ answered' = answered \cup {Attempt(c)} /\ sent' = sent
  BY <1>t, HistoryStep
<1>a. attempts \subseteq attempts'
  BY <1>t, AttemptsStep DEF ReserveAttempt
<1>c. ASSUME NEW c \in Cases, pc[c] = "call"
      PROVE  Attempt(c) \in attempts \ sent
  <2>1. NextAttempt(c) = retry[c] + 1 /\ retry[c] \in Nat
    BY <1>c, <1>t DEF RetryShape, Holding, TypeOK
  <2>2. retry[c] \in 0 .. NextAttempt(c) - 1
    BY <2>1
  <2>3. Attempt(c) \in AttemptsOf(c)
    BY <2>2, <1>t DEF AttemptShape, Attempt
  <2>. QED
    BY <2>3, <1>c, <1>t DEF AttemptsOf, RequestShape
<1>1. answered' \subseteq sent' /\ sent' \subseteq attempts'
  BY <1>h, <1>a, <1>c, <1>t DEF RequestShape, history
<1>2. ASSUME NEW c \in Cases
      PROVE  /\ pc'[c] = "call" => Attempt(c)' \notin sent'
             /\ pc'[c] = "awaiting" => Attempt(c)' \in sent'
             /\ pc'[c] \in {"audit", "score", "judging", "complete"} =>
                  Attempt(c)' \in answered'
  <2>1. ASSUME NEW d \in Cases, CaseStep(d)
        PROVE  /\ pc'[c] = "call" => Attempt(c)' \notin sent'
               /\ pc'[c] = "awaiting" => Attempt(c)' \in sent'
               /\ pc'[c] \in {"audit", "score", "judging", "complete"} =>
                    Attempt(c)' \in answered'
    <3>1. CASE d # c
      <4>1. pc'[c] = pc[c] /\ retry'[c] = retry[c]
        BY <2>1, <3>1, <1>t, CaseStepFrame
      <4>2. Attempt(c)' = Attempt(c)
        BY <4>1 DEF Attempt
      <4>3. \A b \in Cases \ {c} : Attempt(b) # Attempt(c)
        BY DEF Attempt
      <4>4. pc'[c] = "call" => Attempt(c) \notin sent'
        BY <4>1, <4>3, <1>h, <1>t DEF RequestShape, history
      <4>. QED
        BY <4>1, <4>2, <4>4, <1>h, <1>t DEF RequestShape, history
    <3>2. CASE d = c
      <4>. USE DEF Goto, TypeOK, RequestShape, Attempt, history
      <4>1. CASE Begin(c)
        BY <4>1, <1>t DEF Begin
      <4>2. CASE CheckBudget(c)
        BY <4>2, <1>t DEF CheckBudget
      <4>3. CASE Reserve(c)
        <5>1. CASE pc'[c] = "raised"
          BY <5>1
        <5>2. CASE /\ ReserveAttempt(c, spec.maxRequests) /\ pc'[c] = "call"
                   /\ retry'[c] = NextAttempt(c)
          <6>1. <<c, NextAttempt(c)>> \notin attempts
            BY <5>2, <1>t, ReserveEffect
          <6>. QED
            BY <5>2, <6>1, <4>3, <1>t DEF Reserve
        <5>. QED
          BY <4>3, <5>1, <5>2, <1>t DEF Reserve
      <4>4. CASE Send(c)
        BY <4>4, <1>t DEF Send
      <4>5. CASE Answer(c)
        BY <4>5, <1>t DEF Answer, HandleGatewayError
      <4>6. CASE Audit(c)
        BY <4>6, <1>t DEF Audit
      <4>7. CASE AcquireScoreLock(c)
        BY <4>7, <1>t DEF AcquireScoreLock
      <4>8. CASE Score(c)
        BY <4>8, <1>t DEF Score, HandleGatewayError
      <4>9. CASE Settle(c)
        BY <4>9, <1>t DEF Settle
      <4>10. CASE Backoff(c)
        BY <4>10, <1>t DEF Backoff
      <4>11. CASE Cooldown(c)
        BY <4>11, <1>t DEF Cooldown
      <4>. QED
        BY <2>1, <3>2, <4>1, <4>2, <4>3, <4>4, <4>5, <4>6, <4>7, <4>8, <4>9,
           <4>10, <4>11 DEF CaseStep
    <3>. QED
      BY <3>1, <3>2
  <2>2. CASE UNCHANGED history /\ retry'[c] = retry[c] /\ pc'[c] = pc[c]
    BY <2>2, <1>t DEF RequestShape, Attempt, history
  <2>3. CASE pc'[c] \in {"idle", "submitted"}
    BY <2>3
  <2>. QED
    BY <2>1, <2>2, <2>3, <1>t DEF Next, DriverStep, Launch, Submit, Collect,
       Finish, Abort, Crash, WallExpires, Exit, vars, procVars, TypeOK, history
<1>3. SettledRowIsLastAttempt'
  <2>1. ASSUME NEW c \in Cases \ LegacyCases, status'[c] \in Terminal
        PROVE  /\ NextAttempt(c)' = retryCount'[c] + 1
               /\ status'[c] = "completed" =>
                    <<c, retryCount'[c]>> \in answered'
    <3>1. answered \subseteq answered'
      BY <1>h DEF history
    <3>2. CASE /\ attempts' = attempts
               /\ NextAttempt(c) = retryCount'[c] + 1
               /\ status'[c] = "completed" =>
                    <<c, retryCount'[c]>> \in answered
      BY <3>1, <3>2, AttemptsFrame
    <3>3. CASE status'[c] = status[c] /\ retryCount'[c] = retryCount[c]
      <4>1. /\ NextAttempt(c) = retryCount[c] + 1
            /\ status[c] = "completed" => <<c, retryCount[c]>> \in answered
        BY <2>1, <3>3, <1>t DEF RequestShape, SettledRowIsLastAttempt
      <4>2. NextAttempt(c)' = NextAttempt(c)
        <5>1. ASSUME NEW b \in Cases, Reserve(b),
                     ReserveAttempt(b, manifest.maxRequests)
              PROVE  NextAttempt(c)' = NextAttempt(c)
          <6>1. status[b] = "pending"
            BY <5>1, <1>t DEF Reserve, FutureShape, Unsettled
          <6>2. c # b
            BY <6>1, <2>1, <3>3 DEF Terminal
          <6>. QED
            BY <5>1, <6>2, <1>t, ReserveEffect
        <5>. QED
          BY <5>1, <1>t, AttemptsStep, AttemptsFrame
      <4>. QED
        BY <3>1, <3>3, <4>1, <4>2
    <3>4. ~(status[c] = "absent" /\ status'[c] = "pending")
      BY <2>1 DEF Terminal
    <3>. QED
      BY <3>2, <3>3, <3>4, SettleStep
  <2>. QED
    BY <2>1 DEF SettledRowIsLastAttempt
<1>. QED
  BY <1>1, <1>2, <1>3 DEF RequestShape

\* Only Launch writes the manifest, and only while there is none.
LEMMA ManifestStep ==
  ASSUME TypeOK, [Next]_vars
  PROVE  \/ manifest' = manifest
         \/ manifest = None /\ manifest' \in Specs /\ attempts' = attempts
<1>1. ASSUME NEW s \in Specs, Launch(s)
      PROVE  \/ manifest' = manifest
             \/ manifest = None /\ manifest' \in Specs /\ attempts' = attempts
  BY <1>1 DEF Launch, Initialize
<1>2. ASSUME NEW c \in Cases, CaseStep(c) PROVE manifest' = manifest
  BY <1>2, CaseStepFrame
<1>. QED
  BY <1>1, <1>2 DEF Next, DriverStep, Submit, Collect, Finish, Abort,
     Crash, WallExpires, MarkCompletedIfSettled, vars, ledgerVars

\* Settling a case moves no request in or out of the count, because the case
\* has attempts; a reservation adds one request, under the frozen limit.
LEMMA BudgetShapeStep ==
  ASSUME IInv, [Next]_vars
  PROVE  BudgetShape'
<1>t. /\ TypeOK /\ LedgerTypeOK /\ LedgerShape /\ FutureShape /\ AttemptShape
      /\ BudgetShape /\ \A c \in Cases : NextAttempt(c) \in Nat
  BY AttemptsFinite DEF IInv, TypeOK, LedgerTypeOK
<1>1. CASE attempts' = attempts
  <2>1. ASSUME NEW c \in Cases
        PROVE  \/ status[c]' = status[c] /\ retryCount[c]' = retryCount[c]
               \/ AttemptsOf(c) # {}
               \/ {status[c], status[c]'} \cap Terminal = {}
    <3>1. ASSUME NextAttempt(c) = retryCount'[c] + 1, retryCount'[c] \in Nat
          PROVE  AttemptsOf(c) # {}
      BY <3>1, FS_EmptySet DEF NextAttempt
    <3>2. ASSUME status[c] = "absent", status'[c] = "pending"
          PROVE  {status[c], status[c]'} \cap Terminal = {}
      BY <3>2 DEF Terminal
    <3>. QED
      BY <3>1, <3>2, SettleStep
  <2>2. CountedRequests' = CountedRequests
    BY <1>1, <2>1, CountedFrame
  <2>3. CASE manifest' = manifest
    BY <2>2, <2>3, <1>t DEF BudgetShape, RequestCount
  <2>4. CASE manifest = None /\ manifest' \in Specs
    <3>1. CountedRequests = {}
      BY <2>4, <1>t DEF LedgerShape, CountedRequests, LegacyRows, Terminal
    <3>2. manifest'.maxRequests \in Nat
      BY <2>4, LedgerAssumption
    <3>. QED
      BY <2>2, <3>1, <3>2, FS_EmptySet DEF BudgetShape, RequestCount
  <2>. QED
    BY <2>3, <2>4, <1>t, ManifestStep
<1>2. ASSUME NEW c \in Cases, Reserve(c),
             ReserveAttempt(c, manifest.maxRequests)
      PROVE  BudgetShape'
  <2>1. status[c] = "pending" /\ manifest # None
    BY <1>2, <1>t DEF Reserve, FutureShape, Unsettled
  <2>2. \A d \in Cases \ {c} : AttemptsOf(d)' = AttemptsOf(d)
    BY <1>2, <1>t, ReserveEffect
  <2>3. UNCHANGED <<manifest, status, retryCount>>
    BY <1>2 DEF ReserveAttempt
  <2>4. LegacyRows' = LegacyRows
    BY <2>1, <2>2, <2>3 DEF LegacyRows, Terminal
  <2>5. CountedRequests' = CountedRequests \cup {<<c, NextAttempt(c)>>}
    BY <2>3, <2>4, <1>2 DEF CountedRequests, ReserveAttempt
  <2>6. /\ IsFiniteSet(CountedRequests')
        /\ RequestCount' \in {RequestCount, RequestCount + 1}
    BY <2>5, <1>t, FS_AddElement DEF BudgetShape, RequestCount
  <2>7. RequestCount \in Nat /\ manifest.maxRequests \in Nat
    BY <2>1, <1>t, FS_CardinalityType, LedgerAssumption
       DEF BudgetShape, RequestCount, LedgerTypeOK
  <2>8. RequestCount < manifest.maxRequests
    BY <1>2 DEF ReserveAttempt
  <2>9. RequestCount' <= manifest.maxRequests
    BY <2>6, <2>7, <2>8
  <2>. QED
    BY <2>3, <2>6, <2>9 DEF BudgetShape
<1>. QED
  BY <1>1, <1>2, <1>t, AttemptsStep

\* A future scores only while it holds the lock, and releases it by leaving.
LEMMA ScoringStep ==
  ASSUME IInv, [Next]_vars
  PROVE  ScoringSerialized'
<1>. USE RunnerAssumption DEF ScoringSerialized
<1>t. TypeOK /\ ScoringSerialized
  BY DEF IInv
<1>1. ASSUME NEW s \in Specs, Launch(s) PROVE ScoringSerialized'
  BY <1>1 DEF Launch
<1>2. ASSUME NEW c \in Cases, Submit(c) PROVE ScoringSerialized'
  BY <1>2, <1>t DEF Submit, TypeOK, CanSubmit, IInv, FutureShape
<1>3. CASE Collect
  BY <1>3, <1>t DEF Collect, TypeOK, Finished
<1>4. CASE Finish \/ Abort \/ Crash
  BY <1>4 DEF Finish, Abort, Crash, Exit
<1>5. CASE WallExpires
  BY <1>5, <1>t DEF WallExpires
<1>6. ASSUME NEW c \in Cases, CaseStep(c) PROVE ScoringSerialized'
  <2>1. \A d \in Cases \ {c} : pc'[d] = pc[d]
    BY <1>6, <1>t, CaseStepFrame
  <2>2. CASE AcquireScoreLock(c)
    BY <2>1, <2>2, <1>t DEF AcquireScoreLock, Goto, TypeOK
  <2>3. CASE Score(c)
    <3>1. pc'[c] # "judging" /\ pc[c] = "judging" /\ scoreLock' = None
      BY <2>3, <1>t
         DEF Score, Goto, TypeOK, HandleGatewayError, ReleaseScoreLock
    <3>. QED
      BY <2>1, <3>1, <1>t
  <2>4. CASE ~AcquireScoreLock(c) /\ ~Score(c)
    <3>1. scoreLock' = scoreLock /\ pc[c] # "judging" /\ pc'[c] # "judging"
      BY <1>6, <2>4, <1>t DEF CaseStep, Begin, CheckBudget, Reserve, Send,
         Answer, Audit, Settle, Backoff, Cooldown, HandleGatewayError, Goto,
         TypeOK
    <3>. QED
      BY <2>1, <3>1, <1>t
  <2>. QED
    BY <2>2, <2>3, <2>4
<1>7. CASE UNCHANGED vars
  BY <1>7, <1>t DEF vars, procVars
<1>. QED
  BY <1>1, <1>2, <1>3, <1>4, <1>5, <1>6, <1>7 DEF Next, DriverStep

-----------------------------------------------------------------------------
(***************************************************************************)
(* Theorems.                                                               *)
(***************************************************************************)

\* The inductive invariant holds in every reachable state.
THEOREM Invariance == Spec => []IInv
<1>1. IInv /\ [Next]_vars => IInv'
  <2>. SUFFICES ASSUME IInv, [Next]_vars PROVE IInv'
    OBVIOUS
  <2>1. TypeOK'
    BY TypeStep DEF IInv
  <2>2. LedgerShape' /\ FutureShape'
    BY LedgerFutureStep
  <2>3. AttemptShape' /\ RetryShape' /\ RequestShape' /\ BudgetShape'
        /\ ScoringSerialized'
    BY <2>2, AttemptShapeStep, RetryShapeStep, RequestShapeStep,
       BudgetShapeStep, ScoringStep
  <2>. QED
    BY <2>1, <2>2, <2>3 DEF IInv
<1>. QED
  BY <1>1, InitInv, PTL DEF Spec

\* Every variable keeps its type, in the ledger and in the process.
THEOREM TypeCorrect == Spec => []TypeOK
<1>1. IInv => TypeOK
  BY DEF IInv
<1>. QED
  BY <1>1, Invariance, PTL

\* The frozen request limit holds through every restart and every race of the
\* futures between _check_budget and reserve_attempt.
THEOREM RequestCapHolds == Spec => []RequestCap
<1>1. IInv => RequestCap
  BY DEF IInv, BudgetShape, RequestCap
<1>. QED
  BY <1>1, Invariance, PTL

\* No request leaves without a durable reservation that was never used.
THEOREM ReservationsAreFresh == Spec => []FreshReservation
<1>1. IInv => FreshReservation
  <2>. SUFFICES ASSUME IInv PROVE FreshReservation
    OBVIOUS
  <2>1. ASSUME NEW c \in Cases, pc[c] = "call"
        PROVE  Attempt(c) \in attempts \ sent
    <3>1. NextAttempt(c) = retry[c] + 1 /\ retry[c] \in Nat
      BY <2>1 DEF IInv, RetryShape, Holding, TypeOK
    <3>2. retry[c] \in 0 .. NextAttempt(c) - 1
      BY <3>1
    <3>3. Attempt(c) \in AttemptsOf(c)
      BY <3>2 DEF IInv, AttemptShape, Attempt
    <3>. QED
      BY <3>3, <2>1 DEF AttemptsOf, IInv, RequestShape
  <2>. QED
    BY <2>1 DEF IInv, RequestShape, FreshReservation
<1>. QED
  BY <1>1, Invariance, PTL

\* Attempts are numbered without gaps, at most max_retries + 1 of a case.
THEOREM AttemptsPerCaseHolds == Spec => []AttemptsPerCase
<1>1. IInv => AttemptsPerCase
  BY DEF IInv, AttemptShape, AttemptsPerCase
<1>. QED
  BY <1>1, Invariance, PTL

\* A settled row names its last attempt, answered if the row is completed.
THEOREM SettledRowIsLastAttemptHolds == Spec => []SettledRowIsLastAttempt
<1>1. IInv => SettledRowIsLastAttempt
  BY DEF IInv, RequestShape
<1>. QED
  BY <1>1, Invariance, PTL

\* A run is closed only when no case is pending, and by every clean launch.
THEOREM ClosedMeansSettledHolds == Spec => []ClosedMeansSettled
<1>1. IInv => ClosedMeansSettled
  BY DEF IInv, LedgerShape, ClosedMeansSettled
<1>. QED
  BY <1>1, Invariance, PTL

\* At most one future scores at a time, and it is the one with the lock.
THEOREM ScoringSerializedHolds == Spec => []ScoringSerialized
<1>1. IInv => ScoringSerialized
  BY DEF IInv
<1>. QED
  BY <1>1, Invariance, PTL

\* Settling writes the cost of a case that was still pending.
LEMMA CostStep ==
  ASSUME IInv, [Next]_vars, NEW c \in Cases
  PROVE  cost'[c] = cost[c] \/ status[c] = "pending"
<1>t. TypeOK /\ LedgerTypeOK /\ FutureShape
  BY DEF IInv, TypeOK
<1>1. ASSUME NEW d \in Cases, Settle(d)
      PROVE  cost'[c] = cost[c] \/ status[c] = "pending"
  <2>1. status[d] = "pending"
    BY <1>1, <1>t DEF Settle, FutureShape, Unsettled
  <2>. QED
    BY <1>1, <2>1, <1>t DEF Settle, Complete, LedgerTypeOK
<1>2. ASSUME NEW d \in Cases, CaseStep(d), ~Settle(d)
      PROVE  cost' = cost
  BY <1>2 DEF CaseStep, Begin, CheckBudget, Reserve, ReserveAttempt, Send,
     Answer, Audit, AcquireScoreLock, Score, Backoff, Cooldown,
     HandleGatewayError, Fail, ledgerVars
<1>. QED
  BY <1>1, <1>2 DEF Next, DriverStep, Launch, Initialize, Submit, Collect,
     Finish, MarkCompletedIfSettled, Abort, Crash, WallExpires, vars, ledgerVars

\* A settled row never changes again and its case is never sent again.
THEOREM SettledIsFinalHolds == Spec => SettledIsFinal
<1>. DEFINE Final ==
       \A c \in Cases : status[c] \in Terminal =>
         /\ <<status[c], cost[c], retryCount[c]>>'
              = <<status[c], cost[c], retryCount[c]>>
         /\ \A a \in sent' \ sent : a[1] # c
<1>1. IInv /\ [Next]_vars => Final
  <2>. SUFFICES ASSUME IInv, [Next]_vars,
                       NEW c \in Cases, status[c] \in Terminal
                PROVE  /\ <<status[c], cost[c], retryCount[c]>>'
                            = <<status[c], cost[c], retryCount[c]>>
                       /\ \A a \in sent' \ sent : a[1] # c
    OBVIOUS
  <2>1. status[c] # "pending" /\ status[c] # "absent"
    BY DEF Terminal
  <2>2. status'[c] = status[c] /\ retryCount'[c] = retryCount[c]
    BY <2>1, SettleStep
  <2>3. cost'[c] = cost[c]
    BY <2>1, CostStep
  <2>4. ASSUME NEW a \in sent' \ sent PROVE a[1] # c
    <3>1. PICK b \in Cases : pc[b] = "call" /\ sent' = sent \cup {Attempt(b)}
      BY <2>4, HistoryStep DEF IInv, history
    <3>2. a = Attempt(b) /\ a[1] = b
      BY <3>1, <2>4 DEF Attempt
    <3>3. status[b] = "pending"
      BY <3>1 DEF IInv, FutureShape, Unsettled
    <3>. QED
      BY <3>2, <3>3, <2>1
  <2>. QED
    BY <2>2, <2>3, <2>4
<1>2. IInv /\ [Next]_vars => [Final]_vars
  BY <1>1
<1>. QED
  BY <1>2, Invariance, PTL DEF Spec, SettledIsFinal

-----------------------------------------------------------------------------
(***************************************************************************)
(* The recorded cost.                                                      *)
(***************************************************************************)

\* Stages past the budget check, up to the settlement that records the cost.
PastCheckStages == {"reserve", "call", "awaiting", "audit", "score", "judging",
                    "complete"}

Charged   == {c \in Cases : cost[c] = 1}
PastCheck == {c \in Cases : pc[c] \in PastCheckStages}

\* Only settled cases have a cost, the pool is no larger than configured, and
\* what is recorded or may still be recorded without another check is bounded.
CostShape ==
  /\ \A c \in Cases : cost[c] = 1 => status[c] \in Terminal
  /\ Running => Cardinality(Futures) <= spec.maxConcurrency
  /\ manifest # None /\ (\A c \in LegacyRows : cost[c] = 0) =>
       Cardinality(Charged \cup PastCheck)
         <= manifest.maxUsd + manifest.maxConcurrency - 1

LEMMA CostInit == Init => CostShape
<1>. SUFFICES ASSUME Init PROVE CostShape
  OBVIOUS
<1>1. \A c \in Cases : cost[c] = 1 => status[c] \in Terminal
  BY DEF Init, LedgerInit, FreshLedger, LegacyLedger, Terminal
<1>2. ~Running /\ PastCheck = {}
  BY DEF Init, Running, PastCheck, PastCheckStages
<1>3. ASSUME manifest # None, \A c \in LegacyRows : cost[c] = 0
      PROVE  Cardinality(Charged \cup PastCheck)
               <= manifest.maxUsd + manifest.maxConcurrency - 1
  <2>1. manifest \in Specs /\ attempts = {}
    BY <1>3 DEF Init, LedgerInit, FreshLedger, LegacyLedger
  <2>2. Charged = {}
    BY <1>1, <1>3, <2>1 DEF Charged, LegacyRows, AttemptsOf
  <2>3. Cardinality(Charged \cup PastCheck) = 0
    BY <1>2, <2>2, FS_EmptySet
  <2>4. manifest.maxUsd \in Nat \ {0} /\ manifest.maxConcurrency \in Nat \ {0}
    BY <2>1, LedgerAssumption
  <2>. QED
    BY <2>3, <2>4
<1>. QED
  BY <1>1, <1>2, <1>3 DEF CostShape

\* A cost is recorded by the settlement of a case past its check, and by
\* nothing else.
LEMMA ChargeStep ==
  ASSUME TypeOK, [Next]_vars
  PROVE  \/ cost' = cost
         \/ \E c \in Cases :
              /\ Settle(c) /\ pc[c] = "complete" /\ status'[c] = "completed"
              /\ cost' = [cost EXCEPT ![c] = 1]
<1>1. ASSUME NEW c \in Cases, Settle(c)
      PROVE  /\ pc[c] = "complete" /\ status'[c] = "completed"
             /\ cost' = [cost EXCEPT ![c] = 1]
  BY <1>1 DEF Settle, Complete, TypeOK, LedgerTypeOK
<1>2. ASSUME NEW c \in Cases, CaseStep(c), ~Settle(c)
      PROVE  cost' = cost
  BY <1>2 DEF CaseStep, Begin, CheckBudget, Reserve, ReserveAttempt, Send,
     Answer, Audit, AcquireScoreLock, Score, Backoff, Cooldown,
     HandleGatewayError, Fail, ledgerVars
<1>. QED
  BY <1>1, <1>2 DEF Next, DriverStep, Launch, Initialize, Submit, Collect,
     Finish, MarkCompletedIfSettled, Abort, Crash, WallExpires, vars, ledgerVars

\* The pool grows by submission only, and only while it has room.
LEMMA PoolStep ==
  ASSUME IInv, CostShape, [Next]_vars
  PROVE  Running' => Cardinality(Futures') <= spec'.maxConcurrency
<1>t. TypeOK /\ FutureShape /\ FutureShape'
  BY LedgerFutureStep DEF IInv
<1>f. IsFiniteSet(Futures) /\ Cardinality(Futures) \in Nat
  BY LedgerAssumption, FS_Subset, FS_CardinalityType DEF Futures
<1>r. Running' => spec' \in Specs /\ spec'.maxConcurrency \in Nat \ {0}
  <2>1. TypeOK'
    BY TypeStep, <1>t
  <2>. QED
    BY <2>1, LedgerAssumption DEF TypeOK
<1>e. ASSUME Futures' = {}, Running'
      PROVE  Cardinality(Futures') <= spec'.maxConcurrency
  BY <1>e, <1>r, FS_EmptySet
<1>s. ASSUME Futures' \subseteq Futures, main' = main \/ Running, spec' = spec, Running'
      PROVE  Cardinality(Futures') <= spec'.maxConcurrency
  <2>1. Cardinality(Futures') <= Cardinality(Futures)
        /\ Cardinality(Futures') \in Nat
    BY <1>f, <1>s, FS_Subset, FS_CardinalityType
  <2>2. Running
    BY <1>s DEF Running
  <2>. QED
    BY <1>f, <1>r, <1>s, <2>1, <2>2 DEF CostShape
<1>1. ASSUME NEW s \in Specs, Launch(s)
      PROVE  Running' => Cardinality(Futures') <= spec'.maxConcurrency
  BY <1>1, <1>e DEF Launch, Futures
<1>2. ASSUME NEW c \in Cases, Submit(c)
      PROVE  Running' => Cardinality(Futures') <= spec'.maxConcurrency
  <2>1. Futures' = Futures \cup {c} /\ spec' = spec
        /\ Cardinality(Futures) < spec.maxConcurrency
    BY <1>2, <1>t DEF Submit, CanSubmit, Futures, TypeOK
  <2>2. Cardinality(Futures') <= Cardinality(Futures) + 1
        /\ Cardinality(Futures') \in Nat
    <3>1. /\ IsFiniteSet(Futures \cup {c})
          /\ Cardinality(Futures \cup {c}) =
               IF c \in Futures THEN Cardinality(Futures)
                               ELSE Cardinality(Futures) + 1
      BY <1>f, FS_AddElement
    <3>. QED
      BY <1>f, <2>1, <3>1
  <2>. QED
    BY <1>f, <1>r, <2>1, <2>2
<1>3. CASE Collect
  <2>1. Futures' \subseteq Futures
    BY <1>3, <1>t DEF Collect, Futures, TypeOK
  <2>. QED
    BY <1>3, <1>s, <2>1 DEF Collect, Running
<1>4. CASE Finish \/ Abort \/ Crash
  BY <1>4 DEF Finish, Abort, Crash, Exit, Running
<1>5. CASE WallExpires \/ UNCHANGED vars
  BY <1>5, <1>s DEF WallExpires, vars, procVars, Futures
<1>6. ASSUME NEW c \in Cases, CaseStep(c)
      PROVE  Running' => Cardinality(Futures') <= spec'.maxConcurrency
  <2>1. /\ main' = main /\ spec' = spec
        /\ \A d \in Cases \ {c} : pc'[d] = pc[d]
    BY <1>6, <1>t, CaseStepFrame DEF ProcUnchanged
  <2>2. pc[c] # "idle"
    BY <1>6, <1>t, CaseStepStage
  <2>3. Futures' \subseteq Futures
    BY <2>1, <2>2 DEF Futures
  <2>. QED
    BY <1>s, <2>1, <2>3
<1>. QED
  BY <1>1, <1>2, <1>3, <1>4, <1>5, <1>6 DEF Next, DriverStep

\* A case gets past its check only while the recorded cost is below the limit.
LEMMA CheckStep ==
  ASSUME IInv, [Next]_vars
  PROVE  \/ PastCheck' \subseteq PastCheck
         \/ /\ PastCheck' \subseteq Futures' /\ Running'
            /\ cost' = cost /\ manifest' = manifest /\ RecordedCost < manifest.maxUsd
<1>t. TypeOK /\ FutureShape
  BY DEF IInv
<1>1. ASSUME NEW c \in Cases, CheckBudget(c), pc'[c] \in PastCheckStages
      PROVE  /\ PastCheck' \subseteq Futures' /\ Running'
             /\ cost' = cost /\ manifest' = manifest
             /\ RecordedCost < manifest.maxUsd
  <2>1. /\ UNCHANGED ledgerVars /\ main' = main
        /\ pc[c] = "check"
        /\ pc' = [pc EXCEPT ![c] = IF BudgetSpent THEN "raised" ELSE "reserve"]
    BY <1>1 DEF CheckBudget, Goto, ProcUnchanged
  <2>2. ~BudgetSpent
    BY <1>1, <2>1, <1>t DEF PastCheckStages, TypeOK
  <2>3. Running /\ spec = manifest /\ manifest \in Specs
    BY <2>1, <1>t DEF FutureShape, TypeOK
  <2>4. RecordedCost \in Nat /\ manifest.maxUsd \in Nat
    <3>1. IsFiniteSet({d \in Cases : cost[d] = 1})
      BY LedgerAssumption, FS_Subset
    <3>. QED
      BY <2>3, <3>1, LedgerAssumption, FS_CardinalityType DEF RecordedCost
  <2>5. RecordedCost < manifest.maxUsd
    BY <2>2, <2>3, <2>4 DEF BudgetSpent
  <2>6. PastCheck' \subseteq Futures'
    BY DEF PastCheck, Futures, PastCheckStages
  <2>. QED
    BY <2>1, <2>3, <2>5, <2>6 DEF ledgerVars, Running
<1>2. ASSUME NEW c \in Cases, CaseStep(c),
             ~(CheckBudget(c) /\ pc'[c] \in PastCheckStages)
      PROVE  PastCheck' \subseteq PastCheck
  <2>1. \A d \in Cases \ {c} : pc'[d] = pc[d]
    BY <1>2, <1>t, CaseStepFrame
  <2>2. pc'[c] \in PastCheckStages => pc[c] \in PastCheckStages
    BY <1>2, <1>t DEF CaseStep, Begin, CheckBudget, Reserve, Send, Answer,
       Audit, AcquireScoreLock, Score, Settle, Backoff, Cooldown,
       HandleGatewayError, Goto, TypeOK, PastCheckStages
  <2>. QED
    BY <2>1, <2>2 DEF PastCheck
<1>3. CASE DriverStep \/ Crash \/ WallExpires \/ \E s \in Specs : Launch(s)
  BY <1>3, <1>t DEF DriverStep, Submit, Collect, Finish, Abort, Crash, Exit,
     WallExpires, Launch, TypeOK, PastCheck, PastCheckStages
<1>4. CASE UNCHANGED vars
  BY <1>4 DEF vars, procVars, PastCheck
<1>. QED
  BY <1>1, <1>2, <1>3, <1>4 DEF Next

\* The rows of an older release stay what they are.
LEMMA LegacyStep ==
  ASSUME IInv, [Next]_vars, NEW c \in LegacyRows
  PROVE  c \in LegacyRows' /\ cost'[c] = cost[c]
<1>1. c \in Cases /\ status[c] \in Terminal /\ AttemptsOf(c) = {}
  BY DEF LegacyRows
<1>2. status[c] # "pending" /\ status[c] # "absent"
  BY <1>1 DEF Terminal
<1>3. status'[c] = status[c] /\ cost'[c] = cost[c]
  BY <1>1, <1>2, SettleStep, CostStep
<1>4. AttemptsOf(c)' = {}
  <2>1. CASE attempts' = attempts
    BY <1>1, <2>1 DEF AttemptsOf
  <2>2. ASSUME NEW d \in Cases, Reserve(d), ReserveAttempt(d, manifest.maxRequests)
        PROVE  AttemptsOf(c)' = {}
    <3>1. status[d] = "pending" /\ d # c
      BY <1>2, <2>2 DEF Reserve, IInv, FutureShape, Unsettled
    <3>. QED
      BY <1>1, <2>2, <3>1 DEF ReserveAttempt, AttemptsOf
  <2>. QED
    BY <2>1, <2>2, AttemptsStep DEF IInv
<1>. QED
  BY <1>1, <1>3, <1>4 DEF LegacyRows

LEMMA CostShapeStep ==
  ASSUME IInv, CostShape, [Next]_vars
  PROVE  CostShape'
<1>. DEFINE A == Charged \cup PastCheck
            bound == manifest.maxUsd + manifest.maxConcurrency - 1
<1>t. TypeOK /\ TypeOK' /\ LedgerTypeOK
  BY TypeStep DEF IInv, TypeOK
<1>f. IsFiniteSet(A) /\ IsFiniteSet(A') /\ IsFiniteSet(Charged)
      /\ IsFiniteSet(Futures')
  BY LedgerAssumption, FS_Subset DEF Charged, PastCheck, Futures
<1>c. /\ Cardinality(A) \in Nat /\ Cardinality(A') \in Nat
      /\ Cardinality(Charged) \in Nat /\ Cardinality(Futures') \in Nat
  BY <1>f, FS_CardinalityType
<1>1. ASSUME NEW c \in Cases, cost'[c] = 1
      PROVE  status'[c] \in Terminal
  <2>1. CASE cost'[c] = cost[c]
    <3>1. status[c] \in Terminal
      BY <1>1, <2>1 DEF CostShape
    <3>. QED
      BY <3>1, SettleStep DEF Terminal
  <2>2. CASE cost'[c] # cost[c]
    BY <2>2, <1>t, ChargeStep DEF LedgerTypeOK, Terminal
  <2>. QED
    BY <2>1, <2>2
<1>2. Running' => Cardinality(Futures') <= spec'.maxConcurrency
  BY PoolStep
<1>3. ASSUME manifest' # None, \A c \in LegacyRows' : cost'[c] = 0
      PROVE  Cardinality(A') <= bound'
  <2>1. manifest' \in Specs /\ bound' \in Nat
        /\ manifest'.maxUsd \in Nat \ {0} /\ manifest'.maxConcurrency \in Nat \ {0}
    <3>1. manifest' \in Specs
      BY <1>3, <1>t DEF TypeOK, LedgerTypeOK
    <3>. QED
      BY <3>1, LedgerAssumption
  <2>2. \A c \in LegacyRows : cost[c] = 0
    BY <1>3, LegacyStep
  <2>3. CASE manifest = None
    <3>1. \A c \in Cases : status[c] = "absent" /\ pc[c] = "idle"
      BY <2>3 DEF IInv, LedgerShape, FutureShape
    <3>2. Charged = {} /\ PastCheck = {}
      BY <3>1 DEF CostShape, Terminal, Charged, PastCheck, PastCheckStages
    <3>3. cost' = cost
      BY <3>1, <1>t, ChargeStep
    <3>4. PastCheck' = {}
      BY <2>3, <3>2, <1>3, CheckStep
    <3>5. A' = {}
      BY <3>2, <3>3, <3>4 DEF Charged
    <3>6. Cardinality(A') = 0
      BY ONLY <3>5, FS_EmptySet
    <3>. HIDE DEF A, bound
    <3>. QED
      BY <2>1, <3>6
  <2>4. CASE manifest # None /\ PastCheck' \subseteq PastCheck
    <3>1. A' \subseteq A
      BY <1>t, <2>4, ChargeStep
         DEF Charged, PastCheck, PastCheckStages, LedgerTypeOK
    <3>2. Cardinality(A') <= Cardinality(A)
      BY <1>f, <3>1, FS_Subset
    <3>3. manifest' = manifest
      BY <2>4, <1>t, ManifestStep
    <3>4. Cardinality(A) <= bound
      BY <2>2, <2>4 DEF CostShape
    <3>. QED
      BY <1>c, <2>1, <3>2, <3>3, <3>4
  <2>5. CASE /\ PastCheck' \subseteq Futures' /\ Running'
             /\ cost' = cost /\ manifest' = manifest
             /\ RecordedCost < manifest.maxUsd
    <3>1. Cardinality(A') <= Cardinality(Charged \cup Futures')
      <4>1. A' \subseteq Charged \cup Futures'
        BY <2>5 DEF Charged
      <4>2. IsFiniteSet(Charged \cup Futures')
        BY <1>f, FS_Union
      <4>. QED
        BY <4>1, <4>2, FS_Subset
    <3>2. Cardinality(Charged \cup Futures')
            <= Cardinality(Charged) + Cardinality(Futures')
          /\ Cardinality(Charged \cup Futures') \in Nat
      <4>1. IsFiniteSet(Charged \cup Futures') /\ IsFiniteSet(Charged \cap Futures')
        BY <1>f, FS_Union, FS_Intersection
      <4>2. Cardinality(Charged \cup Futures') =
              Cardinality(Charged) + Cardinality(Futures')
                - Cardinality(Charged \cap Futures')
        BY <1>f, FS_Union
      <4>3. Cardinality(Charged \cup Futures') \in Nat
            /\ Cardinality(Charged \cap Futures') \in Nat
        BY <4>1, FS_CardinalityType
      <4>. QED
        BY <1>c, <4>2, <4>3
    <3>3. spec' = manifest' /\ Cardinality(Futures') <= manifest'.maxConcurrency
      BY <1>2, <2>5, LedgerFutureStep DEF FutureShape
    <3>4. Cardinality(Charged) < manifest'.maxUsd
      BY <2>5 DEF RecordedCost, Charged
    <3>. QED
      BY <1>c, <2>1, <3>1, <3>2, <3>3, <3>4
  <2>. QED
    BY <2>3, <2>4, <2>5, CheckStep
<1>. QED
  BY <1>1, <1>2, <1>3 DEF CostShape

\* Whatever futures pass the budget check at the same time, what the ledger
\* records exceeds max_usd by at most one request per other future (runner.py).
THEOREM RecordedCostBounded == Spec => []RecordedCostOvershoot
<1>1. Init => IInv /\ CostShape
  BY InitInv, CostInit
<1>2. IInv /\ CostShape /\ [Next]_vars => CostShape'
  BY CostShapeStep
<1>3. IInv /\ CostShape => RecordedCostOvershoot
  <2>. SUFFICES ASSUME IInv, CostShape, manifest # None,
                       \A c \in LegacyRows : cost[c] = 0
                PROVE  RecordedCost <= manifest.maxUsd + manifest.maxConcurrency - 1
    BY DEF RecordedCostOvershoot
  <2>1. IsFiniteSet(Charged \cup PastCheck) /\ IsFiniteSet(Charged)
    BY LedgerAssumption, FS_Subset DEF Charged, PastCheck
  <2>2. Cardinality(Charged) <= Cardinality(Charged \cup PastCheck)
    BY <2>1, FS_Subset
  <2>3. Cardinality(Charged) \in Nat /\ Cardinality(Charged \cup PastCheck) \in Nat
    BY <2>1, FS_CardinalityType
  <2>4. manifest \in Specs
    BY DEF IInv, TypeOK, LedgerTypeOK
  <2>. QED
    BY <2>2, <2>3, <2>4, LedgerAssumption DEF CostShape, RecordedCost, Charged
<1>. QED
  BY <1>1, <1>2, <1>3, Invariance, PTL DEF Spec

-----------------------------------------------------------------------------
(***************************************************************************)
(* The runner implements the abstract request budget.                      *)
(***************************************************************************)

SettledCases == {c \in Cases : status[c] \in Terminal}

\* The abstract module counts with the same Cardinality.
LEMMA SameCardinality == \A S : Budget!Cardinality(S) = Cardinality(S)
BY DEF Budget!Cardinality, Cardinality

\* An initial ledger is an initial budget: what an older release settled.
LEMMA BudgetInit == Init => Budget!Init
<1>. SUFFICES ASSUME Init PROVE Budget!Init
  OBVIOUS
<1>. USE LedgerAssumption DEF Init, LedgerInit
<1>1. IInv
  BY InitInv
<1>2. attempts = {} /\ runStatus # "completed"
  BY DEF FreshLedger, LegacyLedger
<1>3. manifest \in Specs \cup {None}
  BY <1>1 DEF IInv, TypeOK, LedgerTypeOK
<1>4. CASE manifest = None
  <2>1. SettledCases = {}
    BY <1>1, <1>4 DEF IInv, LedgerShape, SettledCases, Terminal
  <2>2. CountedRequests = {}
    BY <2>1, <1>2 DEF SettledCases, CountedRequests, LegacyRows
  <2>. QED
    BY <1>2, <1>3, <1>4, <2>1, <2>2 DEF Budget!Init, SettledCases
<1>5. CASE manifest # None
  <2>1. LegacyLedger
    BY <1>5 DEF FreshLedger
  <2>2. retryCount \in [Cases -> 0 .. manifest.maxRetries]
    BY <2>1 DEF LegacyLedger
  <2>3. manifest.maxRetries \in Nat
    BY <2>1 DEF LegacyLedger
  <2>4. ASSUME NEW a \in CountedRequests
        PROVE  a \in SettledCases \X (0 .. manifest.maxRetries)
    <3>1. PICK c \in LegacyRows : a \in {c} \X (0 .. retryCount[c])
      BY <1>2 DEF CountedRequests
    <3>2. c \in SettledCases /\ retryCount[c] \in 0 .. manifest.maxRetries
      BY <2>2 DEF LegacyRows, SettledCases
    <3>3. a[1] = c /\ a[2] \in 0 .. retryCount[c] /\ a = <<a[1], a[2]>>
      BY <3>1
    <3>4. a[2] \in 0 .. manifest.maxRetries
      BY <3>2, <3>3, <2>3
    <3>. QED
      BY <3>2, <3>3, <3>4
  <2>5. Cardinality(CountedRequests) <= manifest.maxRequests
    BY <2>1 DEF LegacyLedger, RequestCount
  <2>. QED
    BY <1>2, <1>3, <1>5, <2>4, <2>5, SameCardinality DEF Budget!Init, SettledCases
<1>. QED
  BY <1>4, <1>5

\* What the abstract variables are mapped to stays the same.
BudgetStutter ==
  UNCHANGED <<manifest, CountedRequests, sent, SettledCases,
              runStatus = "completed">>

\* The step of a future reserves, issues, settles or is not seen.
LEMMA BudgetCaseStep ==
  ASSUME IInv, NEW c \in Cases, CaseStep(c)
  PROVE  \/ BudgetStutter
         \/ \E b \in Cases :
              Budget!Reserve(b) \/ Budget!Issue(b) \/ Budget!Settle(b)
<1>n. [Next]_vars
  BY DEF Next
<1>t. /\ TypeOK /\ LedgerTypeOK /\ LedgerShape /\ FutureShape /\ AttemptShape
      /\ RetryShape /\ RequestShape
      /\ \A d \in Cases : NextAttempt(d) \in Nat
  BY AttemptsFinite DEF IInv, TypeOK, LedgerTypeOK
<1>f. /\ UNCHANGED <<manifest, runStatus>>
      /\ \A d \in Cases \ {c} :
           pc'[d] = pc[d] /\ status'[d] = status[d]
             /\ retryCount'[d] = retryCount[d]
  BY <1>t, CaseStepFrame
<1>m. manifest # None /\ manifest.maxRetries \in Nat /\ \A d \in Cases : status[d] # "absent"
  <2>1. Running
    BY <1>t, CaseStepStage
  <2>. QED
    BY <2>1, <1>t, LedgerAssumption DEF FutureShape, LedgerShape, LedgerTypeOK
<1>1. CASE /\ attempts' = attempts /\ sent' = sent
           /\ status'[c] = status[c] /\ retryCount'[c] = retryCount[c]
  <2>1. CountedRequests' = CountedRequests
    BY <1>1, <1>f, CountedFrame
  <2>2. SettledCases' = SettledCases
    BY <1>1, <1>f DEF SettledCases
  <2>. QED
    BY <1>1, <1>f, <2>1, <2>2 DEF BudgetStutter
<1>2. CASE /\ attempts' = attempts /\ sent' = sent
           /\ status[c] = "pending" /\ status'[c] \in Terminal
           /\ retryCount'[c] \in Nat /\ NextAttempt(c) = retryCount'[c] + 1
  <2>1. AttemptsOf(c) # {}
    BY <1>2, FS_EmptySet DEF NextAttempt
  <2>2. CountedRequests' = CountedRequests
    BY <1>2, <1>f, <2>1, CountedFrame
  <2>3. SettledCases' = SettledCases \cup {c} /\ c \notin SettledCases
    BY <1>2, <1>f DEF SettledCases, Terminal
  <2>4. \E a \in CountedRequests : a[1] = c
    BY <2>1 DEF AttemptsOf, CountedRequests
  <2>5. Budget!Settle(c)
    BY <1>2, <1>f, <2>2, <2>3, <2>4 DEF Budget!Settle, SettledCases
  <2>. QED
    BY <2>5
<1>3. ASSUME NEW b \in Cases, Reserve(b),
             ReserveAttempt(b, manifest.maxRequests), attempts' # attempts
      PROVE  Budget!Reserve(b)
  <2>1. status[b] = "pending" /\ NextAttempt(b) <= manifest.maxRetries
    BY <1>3, <1>t DEF Reserve, FutureShape, Unsettled, RetryShape
  <2>2. /\ <<b, NextAttempt(b)>> \notin attempts
        /\ \A d \in Cases \ {b} : AttemptsOf(d)' = AttemptsOf(d)
    BY <1>3, <1>t, ReserveEffect
  <2>3. UNCHANGED <<status, retryCount>>
    BY <1>3 DEF ReserveAttempt
  <2>4. LegacyRows' = LegacyRows
    BY <2>1, <2>2, <2>3 DEF LegacyRows, Terminal
  <2>5. CountedRequests' = CountedRequests \cup {<<b, NextAttempt(b)>>}
    BY <2>3, <2>4, <1>3 DEF CountedRequests, ReserveAttempt
  <2>6. <<b, NextAttempt(b)>> \notin CountedRequests
    BY <2>1, <2>2 DEF CountedRequests, LegacyRows, Terminal
  <2>7. b \notin SettledCases /\ SettledCases' = SettledCases
    BY <2>1, <2>3 DEF SettledCases, Terminal
  <2>8. sent' = sent
    BY <1>3 DEF Reserve, history
  <2>9. Cardinality(CountedRequests) < manifest.maxRequests
    BY <1>3 DEF ReserveAttempt, RequestCount
  <2>10. NextAttempt(b) \in 0 .. manifest.maxRetries
    BY <2>1, <1>t, <1>m
  <2>. QED
    BY <1>f, <1>m, <2>5, <2>6, <2>7, <2>8, <2>9, <2>10, SameCardinality
       DEF Budget!Reserve, SettledCases
<1>4. ASSUME NEW b \in Cases, pc[b] = "call", sent' # sent,
             sent' = sent \cup {Attempt(b)}, attempts' = attempts,
             status'[c] = status[c], retryCount'[c] = retryCount[c]
      PROVE  Budget!Issue(b)
  <2>1. NextAttempt(b) = retry[b] + 1 /\ retry[b] \in Nat
    BY <1>4, <1>t DEF RetryShape, Holding, TypeOK
  <2>2. retry[b] \in 0 .. NextAttempt(b) - 1
    BY <2>1
  <2>3. Attempt(b) \in attempts
    BY <2>2, <1>t DEF AttemptShape, Attempt, AttemptsOf
  <2>4. Attempt(b) \in CountedRequests \ sent /\ Attempt(b)[1] = b
    BY <2>3, <1>4 DEF CountedRequests, Attempt
  <2>5. CountedRequests' = CountedRequests
    BY <1>4, <1>f, CountedFrame
  <2>6. b \notin SettledCases /\ SettledCases' = SettledCases
    BY <1>4, <1>f, <1>t DEF SettledCases, Terminal, FutureShape, Unsettled
  <2>. QED
    BY <1>4, <1>f, <2>4, <2>5, <2>6 DEF Budget!Issue, SettledCases
<1>5. CASE attempts' # attempts
  BY <1>5, <1>3, <1>n, <1>t, AttemptsStep
<1>6. CASE attempts' = attempts
  <2>1. \/ status'[c] = status[c] /\ retryCount'[c] = retryCount[c]
        \/ /\ sent' = sent /\ status[c] = "pending"
           /\ status'[c] \in Terminal /\ retryCount'[c] \in Nat
           /\ NextAttempt(c) = retryCount'[c] + 1
    BY <1>n, <1>m, SettleStep DEF history
  <2>2. \/ sent' = sent
        \/ \E b \in Cases : pc[b] = "call" /\ sent' = sent \cup {Attempt(b)}
    BY <1>n, <1>t, HistoryStep DEF history
  <2>. QED
    BY <1>1, <1>2, <1>4, <1>6, <2>1, <2>2
<1>. QED
  BY <1>5, <1>6

\* Every step of the runner is a step of the budget or not seen by it.
LEMMA BudgetNext ==
  ASSUME IInv, [Next]_vars
  PROVE  [Budget!Next]_(Budget!budgetVars)
<1>t. TypeOK /\ LedgerTypeOK /\ LedgerShape /\ FutureShape
  BY DEF IInv, TypeOK
<1>s. BudgetStutter => UNCHANGED Budget!budgetVars
  BY DEF BudgetStutter, Budget!budgetVars, SettledCases
<1>l. UNCHANGED ledgerVars /\ sent' = sent => BudgetStutter
  BY DEF BudgetStutter, ledgerVars, CountedRequests, LegacyRows, AttemptsOf,
     SettledCases
<1>1. ASSUME NEW s \in Specs, Launch(s)
      PROVE  Budget!Freeze(s) \/ BudgetStutter
  <2>1. /\ UNCHANGED <<retryCount, attempts, sent>> /\ manifest' = s
        /\ manifest \in {None, s}
        /\ status' = [d \in Cases |->
                        IF status[d] = "absent" THEN "pending" ELSE status[d]]
        /\ runStatus' = IF manifest = None THEN "running" ELSE runStatus
    BY <1>1 DEF Launch, Initialize, history
  <2>2. SettledCases' = SettledCases
    BY <2>1 DEF SettledCases, Terminal
  <2>3. \A d \in Cases : status'[d] = status[d]
                           \/ {status[d], status[d]'} \cap Terminal = {}
    BY <2>1 DEF Terminal
  <2>4. CountedRequests' = CountedRequests
    BY <2>1, <2>3, CountedFrame
  <2>5. (runStatus' = "completed") = (runStatus = "completed")
    BY <2>1, <1>t DEF LedgerShape
  <2>6. CASE manifest = None
    BY <2>1, <2>2, <2>4, <2>5, <2>6 DEF Budget!Freeze, SettledCases
  <2>7. CASE manifest # None
    BY <2>1, <2>2, <2>4, <2>5, <2>7 DEF BudgetStutter
  <2>. QED
    BY <2>6, <2>7
<1>2. CASE Finish
  <2>1. main = "driving" /\ todo = {} /\ Futures = {} /\ sent' = sent
    BY <1>2 DEF Finish, Exit, history
  <2>2. SettledCases = Cases
    BY <2>1, <1>t DEF Futures, FutureShape, LedgerShape, Running,
       SettledCases, LedgerTypeOK
  <2>3. PendingCases = {}
    BY <2>2 DEF SettledCases, PendingCases, Terminal
  <2>4. runStatus' = "completed"
        /\ UNCHANGED <<manifest, status, retryCount, attempts>>
    BY <1>2, <2>3 DEF Finish, MarkCompletedIfSettled
  <2>5. CountedRequests' = CountedRequests /\ SettledCases' = SettledCases
    BY <2>4 DEF CountedRequests, LegacyRows, AttemptsOf, SettledCases
  <2>6. Budget!Close
    BY <2>1, <2>2, <2>4, <2>5 DEF Budget!Close, SettledCases
  <2>. QED
    BY <2>6 DEF Budget!Next
<1>3. ASSUME NEW c \in Cases, Submit(c) PROVE BudgetStutter
  BY <1>3, <1>l DEF Submit, history
<1>4. ASSUME Collect \/ Abort \/ Crash \/ WallExpires PROVE BudgetStutter
  BY <1>4, <1>l DEF Collect, Abort, Crash, WallExpires, Exit, history
<1>5. ASSUME NEW c \in Cases, CaseStep(c)
      PROVE  \/ BudgetStutter
             \/ \E b \in Cases :
                  Budget!Reserve(b) \/ Budget!Issue(b) \/ Budget!Settle(b)
  BY <1>5, BudgetCaseStep
<1>6. ASSUME UNCHANGED vars PROVE BudgetStutter
  BY <1>6, <1>l DEF vars, history
<1>. QED
  BY <1>1, <1>2, <1>3, <1>4, <1>5, <1>6, <1>s
     DEF Next, DriverStep, Budget!Next

\* The runner, with its threads, retries, crashes and restarts, implements
\* the abstract request budget.
THEOREM RunnerImplementsBudget == Spec => ImplementsRequestBudget
<1>1. IInv /\ [Next]_vars => [Budget!Next]_(Budget!budgetVars)
  BY BudgetNext
<1>. QED
  BY <1>1, BudgetInit, Invariance, PTL
     DEF Spec, ImplementsRequestBudget, Budget!Spec

=============================================================================
