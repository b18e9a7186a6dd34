--------------------------- MODULE CommandsProofs ---------------------------
(***************************************************************************)
(* Theorems about Commands, for every set of commands, run ids and cases.  *)
(***************************************************************************)
EXTENDS Commands, SumLemmas, FiniteSetTheorems, TLAPS

(***************************************************************************)
(* The inductive invariant, in named parts.                                *)
(***************************************************************************)

\* What a command at work may count on: a rescoring that waits for the judge does
\* so for a pending answer that its source completed and that needs it.
ProcessShape(p) ==
  /\ process[p].at = "idle" <=> process[p] = Idle
  /\ process[p].at /= "idle" => process[p].run \in Runs
  /\ process[p].at = "execute" => Kind[process[p].run] \in {"run", "recovery"}
  /\ process[p].at = "rescore" => Kind[process[p].run] = "rescore"
  /\ process[p].at = "combine" => Kind[process[p].run] = "recovery"
  /\ process[p].at \in {"evidence", "combine"} => process[p].run \in closed
  /\ process[p].at = "rescore" /\ process[p].case /= None =>
       process[p].case \in Pending(process[p].run) \cap NeedsJudge
                             \cap Completed(Source[process[p].run])

\* A ledger is written by one command at a time.
OneWriter ==
  \A p, q \in Processes :
    process[p].run = process[q].run => p = q \/ process[p].run = None

Begun(r) == r \in closed \/ Exists(r) \/ ~Untaken(r)

\* The rows of a run are those of its selection from its first step on, and what a
\* recovery leaves to its source is settled there.
RowsShape(r) ==
  /\ Begun(r) =>
       CASE Kind[r] = "run"      -> RowsOf(r) = Cases
         [] Kind[r] = "recovery" ->
              /\ RowsOf(r) = Selected[r] /\ RowsOf(Source[r]) = Cases
              /\ Cases \ Selected[r] \subseteq With(Source[r], Terminal)
         [] Kind[r] = "rescore"  ->
              /\ Source[r] \in closed
              /\ RowsOf(r) = RowsOf(Source[r])
              /\ SubsetsAreNotRescored => RowsOf(r) = Cases
  /\ r \in closed => Pending(r) = {}
  /\ \A c \in Cases : attempts[r][c] /= 0 => c \in RowsOf(r)

\* The judged answers of a rescoring, and those the judge has at the moment.
Open(r) == {c \in Cases : \E p \in Processes :
              /\ process[p].at = "rescore" /\ process[p].run = r
              /\ process[p].case = c}
Due(r)  == {c \in Cases : judged[r][c] = 1} \cup Open(r)

JudgeShape(r) ==
  /\ \A c \in Cases : judged[r][c] = 1 => row[r][c] = "completed"
  /\ Kind[r] = "rescore" =>
       /\ Due(r) \subseteq Completed(Source[r]) \cap NeedsJudge
       /\ \A c \in Cases : judged[r][c] <= asked[r][c]
       /\ \A c \in Open(r) : asked[r][c] > judged[r][c]
       /\ SumFunctionOnSet(asked[r], Cases) <= Cardinality(Due(r)) + aborts

EvidenceShape(r) ==
  /\ evidence[r] /= None =>
       /\ r \in closed
       /\ evidence[r].publishable => Completed(r) = RowsOf(r) /\ Kind[r] /= "recovery"
  /\ combined[r] /= None =>
       /\ r \in closed /\ Kind[r] = "recovery"
       /\ combined[r].publishable => Completed(r) \cup Completed(Source[r]) = Cases
       /\ Completed(Source[r]) \ Selected[r] \subseteq combined[r].completed

\* A case is preserved when its source completed it and the recovery left it alone.
WorkShape(r) ==
  preserved[r] /= {} =>
    /\ Kind[r] = "recovery"
    /\ preserved[r] \subseteq Completed(Source[r]) \ Selected[r]

IInv ==
  /\ TypeOK
  /\ OneWriter
  /\ \A p \in Processes : ProcessShape(p)
  /\ \A r \in Runs : RowsShape(r) /\ JudgeShape(r) /\ EvidenceShape(r) /\ WorkShape(r)

-----------------------------------------------------------------------------
(***************************************************************************)
(* What ledgers and commands look like.                                    *)
(***************************************************************************)

ProcessStates ==
  [at : {"idle", "execute", "rescore", "evidence", "combine"},
   run : Runs \cup {None}, case : Cases \cup {None}, spent : Nat]

LEMMA RequestCountNat ==
  ASSUME TypeOK, NEW r \in Runs
  PROVE  RequestCount(r) \in Nat
<1>. DEFINE f == [c \in Cases |-> IF attempts[r][c] = 0 /\ row[r][c] \in Terminal
                                  THEN 1 ELSE attempts[r][c]]
<1>1. attempts[r] \in [Cases -> 0 .. MaxRetries + 1] /\ MaxRetries \in Nat
  BY CommandsAssumption DEF TypeOK
<1>2. \A c \in Cases : attempts[r][c] \in Nat
  BY <1>1
<1>3. \A c \in Cases : f[c] \in Nat
  BY <1>2
<1>4. IsFiniteSet(Cases)
  BY CommandsAssumption
<1>. HIDE DEF f
<1>5. SumFunctionOnSet(f, Cases) \in Nat
  BY <1>3, <1>4, SumNat
<1>. QED
  BY <1>5 DEF RequestCount, f

\* The fields of a command that works are what its shape says.
LEMMA ProcessTypes ==
  ASSUME TypeOK, NEW p \in Processes
  PROVE  /\ process[p] \in ProcessStates
         /\ process[p].at \in {"idle", "execute", "rescore", "evidence", "combine"}
         /\ process[p].run \in Runs \cup {None}
         /\ process[p].case \in Cases \cup {None}
         /\ process[p].spent \in Nat
BY DEF TypeOK, ProcessStates

\* What an action can do to the command that takes it.
Others(p) == \A q \in Processes \ {p} : process'[q] = process[q]

LEMMA CaseUpdate ==
  ASSUME TypeOK, NEW p \in Processes, NEW c \in Cases \cup {None},
         process' = [process EXCEPT ![p].case = c]
  PROVE  /\ process' \in [Processes -> ProcessStates]
         /\ process'[p].at = process[p].at /\ process'[p].run = process[p].run
         /\ process'[p].case = c /\ process'[p].spent = process[p].spent
         /\ Others(p)
<1>1. process \in [Processes -> ProcessStates]
  BY DEF TypeOK, ProcessStates
<1>2. process[p] \in ProcessStates
  BY <1>1
<1>3. [process[p] EXCEPT !.case = c] =
        [at |-> process[p].at, run |-> process[p].run, case |-> c, spent |-> process[p].spent]
  BY <1>2 DEF ProcessStates
<1>4. [process[p] EXCEPT !.case = c] \in ProcessStates
  BY <1>2 DEF ProcessStates
<1>5. process' = [process EXCEPT ![p] = [process[p] EXCEPT !.case = c]]
  OBVIOUS
<1>. HIDE DEF ProcessStates
<1>6. /\ process' \in [Processes -> ProcessStates]
      /\ process'[p] = [at |-> process[p].at, run |-> process[p].run, case |-> c, spent |-> process[p].spent]
      /\ Others(p)
  BY <1>1, <1>3, <1>4, <1>5 DEF Others
<1>. QED
  BY <1>6

LEMMA VerdictUpdate ==
  ASSUME TypeOK, NEW p \in Processes,
         process' = [process EXCEPT ![p].case = None, ![p].spent = @ + 1]
  PROVE  /\ process' \in [Processes -> ProcessStates]
         /\ process'[p].at = process[p].at /\ process'[p].run = process[p].run
         /\ process'[p].case = None /\ process'[p].spent = process[p].spent + 1
         /\ Others(p)
<1>. DEFINE x == [at |-> process[p].at, run |-> process[p].run,
                  case |-> None, spent |-> process[p].spent + 1]
<1>1. process \in [Processes -> ProcessStates]
  BY DEF TypeOK, ProcessStates
<1>2. process[p] \in ProcessStates
  BY <1>1
<1>3. [process[p] EXCEPT !.case = None, !.spent = @ + 1] = x
  <2>1. [process[p] EXCEPT !.case = None] =
          [at |-> process[p].at, run |-> process[p].run,
           case |-> None, spent |-> process[p].spent]
    BY <1>2 DEF ProcessStates
  <2>. DEFINE y == [process[p] EXCEPT !.case = None]
  <2>2. /\ y \in ProcessStates /\ y.at = process[p].at /\ y.run = process[p].run
        /\ y.case = None /\ y.spent = process[p].spent
    BY <1>2, <2>1 DEF ProcessStates
  <2>3. [y EXCEPT !.spent = @ + 1] = x
    <3>. HIDE DEF y
    <3>. QED
      BY <2>2 DEF ProcessStates
  <2>. QED
    BY <2>3
<1>4. x \in ProcessStates
  BY <1>2 DEF ProcessStates
<1>5. process' = [process EXCEPT ![p] = [process[p] EXCEPT !.case = None, !.spent = @ + 1]]
  BY <1>1
<1>. HIDE DEF ProcessStates
<1>6. /\ process' \in [Processes -> ProcessStates]
      /\ process'[p] = x
      /\ Others(p)
  BY <1>1, <1>3, <1>4, <1>5 DEF Others
<1>. QED
  BY <1>6

LEMMA AtUpdate ==
  ASSUME TypeOK, NEW p \in Processes, NEW a \in {"evidence", "combine"},
         process' = [process EXCEPT ![p].at = a]
  PROVE  /\ process' \in [Processes -> ProcessStates]
         /\ process'[p].at = a /\ process'[p].run = process[p].run
         /\ process'[p].case = process[p].case /\ process'[p].spent = process[p].spent
         /\ Others(p)
<1>1. process \in [Processes -> ProcessStates]
  BY DEF TypeOK, ProcessStates
<1>2. process[p] \in ProcessStates
  BY <1>1
<1>3. [process[p] EXCEPT !.at = a] =
        [at |-> a, run |-> process[p].run, case |-> process[p].case,
         spent |-> process[p].spent]
  BY <1>2 DEF ProcessStates
<1>4. [process[p] EXCEPT !.at = a] \in ProcessStates
  BY <1>2 DEF ProcessStates
<1>5. process' = [process EXCEPT ![p] = [process[p] EXCEPT !.at = a]]
  OBVIOUS
<1>. HIDE DEF ProcessStates
<1>6. /\ process' \in [Processes -> ProcessStates]
      /\ process'[p] = [at |-> a, run |-> process[p].run, case |-> process[p].case, spent |-> process[p].spent]
      /\ Others(p)
  BY <1>1, <1>3, <1>4, <1>5 DEF Others
<1>. QED
  BY <1>6

LEMMA IdleUpdate ==
  ASSUME TypeOK, NEW p \in Processes, process' = [process EXCEPT ![p] = Idle]
  PROVE  process' \in [Processes -> ProcessStates] /\ process'[p] = Idle /\ Others(p)
<1>1. process \in [Processes -> ProcessStates]
  BY DEF TypeOK, ProcessStates
<1>2. Idle \in ProcessStates
  BY DEF ProcessStates, Idle
<1>. HIDE DEF ProcessStates
<1>. QED
  BY <1>1, <1>2 DEF Others

\* What Initialize makes of the rows.
LEMMA InitializedRows ==
  ASSUME TypeOK, NEW r \in Runs, NEW S, Initialize(r, S)
  PROVE  /\ row' \in [Runs -> [Cases -> {"absent", "pending"} \cup Terminal]]
         /\ \A q \in Runs, c \in Cases :
              row'[q][c] = IF q = r /\ c \in S /\ row[q][c] = "absent" THEN "pending"
                                                                      ELSE row[q][c]
BY DEF TypeOK, Initialize

\* Starting a command.
LEMMA StartedProcess ==
  ASSUME TypeOK, NEW p \in Processes, NEW r \in Runs, NEW at, Start(p, r, at),
         at \in {"execute", "rescore"}
  PROVE  /\ process' \in [Processes -> ProcessStates]
         /\ process'[p].at = at /\ process'[p].run = r
         /\ process'[p].case = None /\ process'[p].spent = 0
         /\ Others(p) /\ \A q \in Processes : process[q].run /= r
<1>1. process \in [Processes -> ProcessStates]
  BY DEF TypeOK, ProcessStates
<1>2. process[p] = Idle /\ process' = [process EXCEPT ![p] = [Idle EXCEPT !.at = at, !.run = r]]
  BY DEF Start
<1>3. [Idle EXCEPT !.at = at, !.run = r] = [at |-> at, run |-> r, case |-> None, spent |-> 0]
  <2>1. [Idle EXCEPT !.at = at] = [at |-> at, run |-> None, case |-> None, spent |-> 0]
    BY DEF Idle
  <2>. DEFINE y == [Idle EXCEPT !.at = at]
  <2>2. y \in ProcessStates /\ y.at = at /\ y.case = None /\ y.spent = 0
    BY <2>1 DEF ProcessStates
  <2>3. [y EXCEPT !.run = r] = [at |-> at, run |-> r, case |-> None, spent |-> 0]
    <3>. HIDE DEF y
    <3>. QED
      BY <2>2 DEF ProcessStates
  <2>. QED
    BY <2>3
<1>4. [at |-> at, run |-> r, case |-> None, spent |-> 0] \in ProcessStates
  BY DEF ProcessStates
<1>5. \A q \in Processes : process[q].run /= r
  BY DEF Start, Untaken
<1>6. /\ process' \in [Processes -> ProcessStates]
      /\ process'[p] = [at |-> at, run |-> r, case |-> None, spent |-> 0]
      /\ Others(p)
  BY <1>1, <1>2, <1>3, <1>4 DEF Others
<1>. QED
  BY <1>6, <1>5

LEMMA TypesInit == Init => TypeOK
BY CommandsAssumption DEF Init, TypeOK, Idle, ProcessStates

-----------------------------------------------------------------------------
(***************************************************************************)
(* Types.                                                                  *)
(***************************************************************************)

LEMMA TypesStep ==
  ASSUME TypeOK, \A p \in Processes : ProcessShape(p),
         \A r \in Runs : RowsShape(r), [Next]_vars
  PROVE  TypeOK'
<1>. USE CommandsAssumption
<1>1. CASE UNCHANGED vars
  BY <1>1 DEF TypeOK, vars, ledgerVars, history
<1>2. ASSUME NEW p \in Processes, NEW r \in Runs, Run(p, r)
      PROVE  TypeOK'
  <2>1. Start(p, r, "execute") /\ Initialize(r, Cases)
    BY <1>2 DEF Run
  <2>2. process' \in [Processes -> ProcessStates]
    BY <2>1, StartedProcess
  <2>3. row' \in [Runs -> [Cases -> {"absent", "pending"} \cup Terminal]]
    BY <2>1, InitializedRows
  <2>. QED
    BY <1>2, <2>2, <2>3 DEF Run, TypeOK, history, ProcessStates
<1>3. ASSUME NEW p \in Processes, NEW r \in Runs, Recover(p, r)
      PROVE  TypeOK'
  <2>1. Start(p, r, "execute") /\ Initialize(r, Selected[r])
    BY <1>3 DEF Recover
  <2>2. process' \in [Processes -> ProcessStates]
    BY <2>1, StartedProcess
  <2>3. row' \in [Runs -> [Cases -> {"absent", "pending"} \cup Terminal]]
    BY <2>1, InitializedRows
  <2>4. preserved' \in [Runs -> SUBSET Cases]
    BY <1>3 DEF Recover, TypeOK, Completed, With
  <2>. QED
    BY <1>3, <2>2, <2>3, <2>4 DEF Recover, TypeOK, ProcessStates
<1>4. ASSUME NEW p \in Processes, NEW r \in Runs, Rescore(p, r)
      PROVE  TypeOK'
  <2>1. Start(p, r, "rescore") /\ Initialize(r, RowsOf(Source[r]))
    BY <1>4 DEF Rescore
  <2>2. process' \in [Processes -> ProcessStates]
    BY <2>1, StartedProcess
  <2>3. row' \in [Runs -> [Cases -> {"absent", "pending"} \cup Terminal]]
    BY <2>1, InitializedRows
  <2>. QED
    BY <1>4, <2>2, <2>3 DEF Rescore, TypeOK, history, ProcessStates
<1>5. ASSUME NEW p \in Processes, Attempt(p)
      PROVE  TypeOK'
  <2>1. PICK c \in IF process[p].case = None THEN Pending(process[p].run)
                                            ELSE {process[p].case} :
          /\ attempts[process[p].run][c] <= MaxRetries
          /\ attempts' = [attempts EXCEPT ![process[p].run][c] = @ + 1]
          /\ process' = [process EXCEPT ![p].case = c]
    BY <1>5 DEF Attempt
  <2>2. c \in Cases
    BY <1>5, <2>1 DEF Attempt, Pending, With
  <2>3. process[p].run \in Runs
    BY <1>5 DEF Attempt, ProcessShape
  <2>4. attempts[process[p].run][c] \in 0 .. MaxRetries + 1
    BY <2>2, <2>3 DEF TypeOK
  <2>5. attempts[process[p].run][c] + 1 \in 0 .. MaxRetries + 1
    BY <2>1, <2>4
  <2>6. attempts' \in [Runs -> [Cases -> 0 .. MaxRetries + 1]]
    BY <2>1, <2>5 DEF TypeOK
  <2>7. process' \in [Processes -> ProcessStates]
    BY <2>1, <2>2, CaseUpdate
  <2>. QED
    BY <1>5, <2>6, <2>7 DEF Attempt, TypeOK, history, ProcessStates
<1>6. ASSUME NEW p \in Processes, Settle(p)
      PROVE  TypeOK'
  <2>1. PICK c \in Pending(process[p].run), s \in Terminal :
          /\ row' = [row EXCEPT ![process[p].run][c] = s]
          /\ judged' = [judged EXCEPT ![process[p].run][c] =
                          IF s = "completed" /\ c \in NeedsJudge THEN 1 ELSE 0]
    BY <1>6 DEF Settle
  <2>2. row' \in [Runs -> [Cases -> {"absent", "pending"} \cup Terminal]]
    BY <2>1 DEF TypeOK
  <2>3. judged' \in [Runs -> [Cases -> {0, 1}]]
    BY <2>1 DEF TypeOK
  <2>4. process' \in [Processes -> ProcessStates]
    BY <1>6, CaseUpdate DEF Settle
  <2>. QED
    BY <1>6, <2>2, <2>3, <2>4 DEF Settle, TypeOK, history, ProcessStates
<1>7. ASSUME NEW p \in Processes, TakeVerdict(p)
      PROVE  TypeOK'
  <2>2. row' \in [Runs -> [Cases -> {"absent", "pending"} \cup Terminal]]
    BY <1>7 DEF TypeOK, TakeVerdict, Terminal
  <2>3. judged' \in [Runs -> [Cases -> {0, 1}]]
    BY <1>7 DEF TypeOK, TakeVerdict
  <2>4. process' \in [Processes -> ProcessStates]
    BY <1>7, VerdictUpdate DEF TakeVerdict
  <2>. QED
    BY <1>7, <2>2, <2>3, <2>4 DEF TakeVerdict, TypeOK, history, ProcessStates
<1>8. ASSUME NEW p \in Processes, NEW c \in Cases, AskJudge(p, c)
      PROVE  TypeOK'
  <2>1. asked' \in [Runs -> [Cases -> Nat]]
    BY <1>8 DEF TypeOK, AskJudge, ProcessShape, Rescoring
  <2>2. process' \in [Processes -> ProcessStates]
    BY <1>8, CaseUpdate DEF AskJudge
  <2>. QED
    BY <1>8, <2>1, <2>2 DEF AskJudge, TypeOK, ledgerVars, ProcessStates
<1>9. ASSUME NEW p \in Processes, NEW c \in Cases, CopyRow(p, c)
      PROVE  TypeOK'
  <2>1. Source[process[p].run] \in Runs
    BY <1>9 DEF CopyRow, Rescoring, ProcessShape
  <2>2. row[Source[process[p].run]][c] \in {"absent", "pending"} \cup Terminal
    BY <2>1 DEF TypeOK
  <2>3. row' \in [Runs -> [Cases -> {"absent", "pending"} \cup Terminal]]
    BY <1>9, <2>2 DEF TypeOK, CopyRow
  <2>. QED
    BY <1>9, <2>3 DEF CopyRow, TypeOK, history, ProcessStates
<1>10. ASSUME NEW p \in Processes, Close(p)
       PROVE  TypeOK'
  <2>1. process[p].run \in Runs
    BY <1>10 DEF Close, ProcessShape
  <2>2. process' \in [Processes -> ProcessStates]
    BY <1>10, AtUpdate DEF Close
  <2>. QED
    BY <1>10, <2>1, <2>2 DEF Close, TypeOK, history, ProcessStates
<1>11. ASSUME NEW p \in Processes, Evidence(p)
       PROVE  TypeOK'
  <2>1. process[p].run \in Runs
    BY <1>11 DEF Evidence, ProcessShape
  <2>2. RequestCount(process[p].run) \in Nat
    BY <2>1, RequestCountNat
  <2>3. Publishable(process[p].run) \in BOOLEAN /\ Completed(process[p].run) \subseteq Cases
    BY DEF Publishable, Completed, With
  <2>4. evidence' \in [Runs -> {None} \cup Reports]
    BY <1>11, <2>2, <2>3 DEF Evidence, TypeOK, Reports
  <2>5. process' \in [Processes -> ProcessStates]
    BY <1>11, IdleUpdate, AtUpdate DEF Evidence
  <2>. QED
    BY <1>11, <2>4, <2>5 DEF Evidence, TypeOK, ledgerVars, history, ProcessStates
<1>12. ASSUME NEW p \in Processes, Combine(p)
       PROVE  TypeOK'
  <2>1. process[p].run \in Runs /\ Source[process[p].run] \in Runs
    BY <1>12 DEF Combine, ProcessShape
  <2>2. RequestCount(process[p].run) \in Nat /\ RequestCount(Source[process[p].run]) \in Nat
    BY <2>1, RequestCountNat
  <2>3. combined' \in [Runs -> {None} \cup Reports]
    <3>. DEFINE r == process[p].run
                completed == {c \in RowsOf(Source[r]) :
                                row[IF c \in Selected[r] THEN r ELSE Source[r]][c] = "completed"}
                x == [publishable |-> completed = RowsOf(Source[r]), completed |-> completed,
                      requests |-> RequestCount(Source[r]) + RequestCount(r)]
    <3>1. combined' = [combined EXCEPT ![r] = x]
      BY <1>12 DEF Combine
    <3>2. completed \subseteq Cases /\ (completed = RowsOf(Source[r])) \in BOOLEAN
      BY DEF RowsOf, With
    <3>3. RequestCount(Source[r]) + RequestCount(r) \in Nat
      BY <2>2
    <3>4. x \in Reports
      BY <3>2, <3>3 DEF Reports
    <3>5. combined \in [Runs -> {None} \cup Reports]
      BY DEF TypeOK
    <3>. HIDE DEF x
    <3>. QED
      BY <3>1, <3>4, <3>5
  <2>4. process' \in [Processes -> ProcessStates]
    BY <1>12, IdleUpdate DEF Combine
  <2>. QED
    BY <1>12, <2>3, <2>4 DEF Combine, TypeOK, ledgerVars, history, ProcessStates
<1>13. ASSUME NEW p \in Processes, Abort(p)
       PROVE  TypeOK'
  <2>1. aborts' \in 0 .. MaxAborts
    BY <1>13 DEF Abort, TypeOK
  <2>2. process' \in [Processes -> ProcessStates]
    BY <1>13, IdleUpdate DEF Abort
  <2>. QED
    BY <1>13, <2>1, <2>2 DEF Abort, TypeOK, ledgerVars, history, ProcessStates
<1>. QED
  BY <1>1, <1>2, <1>3, <1>4, <1>5, <1>6, <1>7, <1>8, <1>9, <1>10, <1>11, <1>12, <1>13
  DEF Next

-----------------------------------------------------------------------------
(***************************************************************************)
(* Rows.  A row appears when a run begins and changes once more, when it is*)
(* settled.                                                                *)
(***************************************************************************)

Settles ==
  \A r \in Runs, c \in Cases :
    \/ row'[r][c] = row[r][c]
    \/ row[r][c] = "pending" /\ row'[r][c] \in Terminal

RowsGrow ==
  \A r \in Runs, c \in Cases :
    \/ row'[r][c] = row[r][c]
    \/ ~Begun(r) /\ row[r][c] = "absent" /\ row'[r][c] = "pending"
    \/ row[r][c] = "pending" /\ row'[r][c] \in Terminal

LEMMA Derived ==
  ASSUME NEW r \in Runs
  PROVE  /\ Kind[r] \in {"run", "recovery", "rescore"}
         /\ Kind[r] /= "run" => Source[r] \in Runs
         /\ Kind[r] = "recovery" => Selected[r] \subseteq Cases
BY CommandsAssumption

\* A rescoring copies the settled rows of a closed source.
LEMMA CopiedRow ==
  ASSUME IInv, NEW p \in Processes, NEW c \in Cases, CopyRow(p, c)
  PROVE  /\ process[p].run \in Runs /\ Source[process[p].run] \in Runs
         /\ row[process[p].run][c] = "pending"
         /\ row[Source[process[p].run]][c] \in Terminal
         /\ row' = [row EXCEPT ![process[p].run][c] = row[Source[process[p].run]][c]]
<1>. DEFINE r == process[p].run
<1>1. process[p].at = "rescore" /\ c \in Pending(r)
  BY DEF CopyRow, Rescoring
<1>2. r \in Runs /\ Kind[r] = "rescore" /\ TypeOK /\ RowsShape(r)
  BY <1>1 DEF IInv, ProcessShape
<1>3. Source[r] \in Runs
  BY <1>2, Derived
<1>4. Begun(r)
  BY DEF Begun, Untaken
<1>5. Source[r] \in closed /\ RowsOf(r) = RowsOf(Source[r])
  BY <1>2, <1>4 DEF RowsShape
<1>6. Pending(Source[r]) = {}
  BY <1>3, <1>5 DEF IInv, RowsShape
<1>7. c \in RowsOf(Source[r])
  BY <1>1, <1>5 DEF Pending, RowsOf, With
<1>8. row[Source[r]][c] \in Terminal
  BY <1>6, <1>7 DEF Pending, RowsOf, With
<1>9. row[r][c] = "pending"
  BY <1>1 DEF Pending, With
<1>. QED
  BY <1>2, <1>3, <1>8, <1>9 DEF CopyRow

\* The verdict is on a pending row.
LEMMA VerdictRow ==
  ASSUME IInv, NEW p \in Processes, TakeVerdict(p)
  PROVE  /\ process[p].run \in Runs /\ process[p].case \in Cases
         /\ Kind[process[p].run] = "rescore"
         /\ row[process[p].run][process[p].case] = "pending"
         /\ row' = [row EXCEPT ![process[p].run][process[p].case] = "completed"]
BY DEF IInv, TakeVerdict, ProcessShape, Pending, With

LEMMA SettledRow ==
  ASSUME IInv, NEW p \in Processes, Settle(p)
  PROVE  \E c \in Cases, s \in Terminal :
           /\ process[p].run \in Runs /\ row[process[p].run][c] = "pending"
           /\ row' = [row EXCEPT ![process[p].run][c] = s]
           /\ judged' = [judged EXCEPT ![process[p].run][c] =
                           IF s = "completed" /\ c \in NeedsJudge THEN 1 ELSE 0]
BY DEF IInv, Settle, ProcessShape, Pending, With

LEMMA SettlesByOne ==
  ASSUME TypeOK, NEW r \in Runs, NEW c \in Cases, row[r][c] = "pending",
         NEW s \in Terminal, row' = [row EXCEPT ![r][c] = s]
  PROVE  Settles
BY DEF TypeOK, Settles

\* A run that begins gets the rows of its selection, and one that has begun keeps
\* those it has.
LEMMA StartedRows ==
  ASSUME IInv, NEW p \in Processes, NEW r \in Runs, NEW S, S \subseteq Cases,
         Initialize(r, S), Begun(r) => RowsOf(r) = S
  PROVE  /\ RowsGrow
         /\ \A q \in Runs : RowsOf(q)' = IF q = r THEN RowsOf(q) \cup S ELSE RowsOf(q)
<1>. DEFINE new(q, c) == q = r /\ c \in S /\ row[q][c] = "absent"
<1>1. TypeOK
  BY DEF IInv
<1>2. /\ row' \in [Runs -> [Cases -> {"absent", "pending"} \cup Terminal]]
      /\ \A q \in Runs, c \in Cases :
           row'[q][c] = IF new(q, c) THEN "pending" ELSE row[q][c]
  BY <1>1, InitializedRows
<1>3. ASSUME NEW q \in Runs, NEW c \in Cases, new(q, c)
      PROVE  ~Begun(q)
  <2>1. c \in S /\ q = r /\ c \notin RowsOf(r)
    BY <1>3 DEF RowsOf, With, Terminal
  <2>. QED
    BY <2>1
<1>4. RowsGrow
  BY <1>2, <1>3 DEF RowsGrow
<1>5. ASSUME NEW q \in Runs
      PROVE  RowsOf(q)' = IF q = r THEN RowsOf(q) \cup S ELSE RowsOf(q)
  <2>1. \A c \in Cases : row[q][c] \in {"absent", "pending"} \cup Terminal
    BY <1>1 DEF TypeOK
  <2>2. \A c \in Cases : c \in RowsOf(q)' <=> c \in RowsOf(q) \/ (q = r /\ c \in S)
    BY <1>2, <2>1 DEF RowsOf, With, Terminal
  <2>3. RowsOf(q)' \subseteq Cases /\ RowsOf(q) \subseteq Cases
    BY DEF RowsOf, With
  <2>. QED
    BY <2>2, <2>3
<1>. QED
  BY <1>4, <1>5

LEMMA RunRows ==
  ASSUME IInv, NEW p \in Processes, NEW r \in Runs, Run(p, r)
  PROVE  Initialize(r, Cases) /\ (Begun(r) => RowsOf(r) = Cases)
BY DEF IInv, Run, RowsShape

LEMMA RecoverRows ==
  ASSUME IInv, NEW p \in Processes, NEW r \in Runs, Recover(p, r)
  PROVE  /\ Initialize(r, Selected[r]) /\ Selected[r] \subseteq Cases
         /\ Begun(r) => RowsOf(r) = Selected[r]
BY Derived DEF IInv, Recover, RowsShape

LEMMA RescoreRows ==
  ASSUME IInv, NEW p \in Processes, NEW r \in Runs, Rescore(p, r)
  PROVE  /\ Initialize(r, RowsOf(Source[r])) /\ RowsOf(Source[r]) \subseteq Cases
         /\ Begun(r) => RowsOf(r) = RowsOf(Source[r])
BY DEF IInv, Rescore, RowsShape, RowsOf, With

\* The other actions settle rows or leave them alone.
WorkStep(p) ==
  \/ Attempt(p) \/ Settle(p) \/ TakeVerdict(p)
  \/ \E c \in Cases : AskJudge(p, c) \/ CopyRow(p, c)
  \/ Close(p) \/ Evidence(p) \/ Combine(p) \/ Abort(p)

LEMMA WorkSettles ==
  ASSUME IInv, NEW p \in Processes, WorkStep(p)
  PROVE  Settles
<1>1. TypeOK
  BY DEF IInv
<1>2. CASE Settle(p)
  <2>1. PICK c \in Cases, s \in Terminal :
           /\ process[p].run \in Runs /\ row[process[p].run][c] = "pending"
           /\ row' = [row EXCEPT ![process[p].run][c] = s]
           /\ judged' = [judged EXCEPT ![process[p].run][c] =
                           IF s = "completed" /\ c \in NeedsJudge THEN 1 ELSE 0]
    BY <1>2, SettledRow
  <2>. QED
    BY <1>1, <2>1, SettlesByOne
<1>3. CASE TakeVerdict(p)
  <2>1. "completed" \in Terminal
    BY DEF Terminal
  <2>2. /\ process[p].run \in Runs /\ process[p].case \in Cases
        /\ row[process[p].run][process[p].case] = "pending"
        /\ row' = [row EXCEPT ![process[p].run][process[p].case] = "completed"]
    BY <1>3, VerdictRow
  <2>. QED
    BY <1>1, <2>1, <2>2, SettlesByOne
<1>4. ASSUME NEW c \in Cases, CopyRow(p, c)
      PROVE  Settles
  <2>1. /\ process[p].run \in Runs /\ Source[process[p].run] \in Runs
        /\ row[process[p].run][c] = "pending"
        /\ row[Source[process[p].run]][c] \in Terminal
        /\ row' = [row EXCEPT ![process[p].run][c] = row[Source[process[p].run]][c]]
    BY <1>4, CopiedRow
  <2>. QED
    BY <1>1, <2>1, SettlesByOne
<1>5. ASSUME UNCHANGED row
      PROVE  Settles
  BY <1>5 DEF Settles
<1>6. CASE Attempt(p) \/ Close(p) \/ Evidence(p) \/ Combine(p) \/ Abort(p)
  BY <1>5, <1>6 DEF Attempt, Close, Evidence, Combine, Abort, ledgerVars
<1>7. ASSUME NEW c \in Cases, AskJudge(p, c)
      PROVE  Settles
  BY <1>5, <1>7 DEF AskJudge, ledgerVars
<1>. QED
  BY <1>2, <1>3, <1>4, <1>6, <1>7 DEF WorkStep

LEMMA NextSteps ==
  ASSUME Next
  PROVE  \E p \in Processes :
           \/ \E r \in Runs : Run(p, r) \/ Recover(p, r) \/ Rescore(p, r)
           \/ WorkStep(p)
BY DEF Next, WorkStep

LEMMA RowsGrowStep ==
  ASSUME IInv, [Next]_vars
  PROVE  RowsGrow
<1>1. CASE UNCHANGED vars
  BY <1>1 DEF vars, ledgerVars, RowsGrow
<1>2. ASSUME NEW p \in Processes, NEW r \in Runs, Run(p, r)
      PROVE  RowsGrow
  BY <1>2, RunRows, StartedRows
<1>3. ASSUME NEW p \in Processes, NEW r \in Runs, Recover(p, r)
      PROVE  RowsGrow
  BY <1>3, RecoverRows, StartedRows
<1>4. ASSUME NEW p \in Processes, NEW r \in Runs, Rescore(p, r)
      PROVE  RowsGrow
  BY <1>4, RescoreRows, StartedRows
<1>5. ASSUME NEW p \in Processes, WorkStep(p)
      PROVE  RowsGrow
  BY <1>5, WorkSettles DEF Settles, RowsGrow
<1>. QED
  BY <1>1, <1>2, <1>3, <1>4, <1>5, NextSteps

\* What has been completed or settled stays so; the rows of a closed run are final.
LEMMA GrownRows ==
  ASSUME IInv, RowsGrow, NEW r \in Runs
  PROVE  /\ Completed(r) \subseteq Completed(r)'
         /\ RowsOf(r) \subseteq RowsOf(r)'
         /\ \A c \in With(r, Terminal) : row'[r][c] = row[r][c]
         /\ With(r, Terminal) \subseteq With(r, Terminal)'
         /\ r \in closed => \A c \in Cases : row'[r][c] = row[r][c]
         /\ Begun(r) \/ RowsOf(r) = Cases => RowsOf(r)' = RowsOf(r)
<1>1. \A c \in Cases : row[r][c] \in {"absent", "pending"} \cup Terminal
  BY DEF IInv, TypeOK
<1>2. \A c \in Cases :
        \/ row'[r][c] = row[r][c]
        \/ ~Begun(r) /\ row[r][c] = "absent" /\ row'[r][c] = "pending"
        \/ row[r][c] = "pending" /\ row'[r][c] \in Terminal
  BY DEF RowsGrow
<1>3. \A c \in Cases : row[r][c] \in Terminal => row'[r][c] = row[r][c]
  BY <1>2 DEF Terminal
<1>4. Completed(r) \subseteq Completed(r)'
  BY <1>3 DEF Completed, With, Terminal
<1>5. RowsOf(r) \subseteq RowsOf(r)'
  BY <1>2 DEF RowsOf, With, Terminal
<1>6. With(r, Terminal) \subseteq With(r, Terminal)'
  BY <1>3 DEF With
<1>7. ASSUME r \in closed, NEW c \in Cases
      PROVE  row'[r][c] = row[r][c]
  <2>1. Begun(r) /\ Pending(r) = {}
    BY <1>7 DEF IInv, RowsShape, Begun
  <2>2. row[r][c] /= "pending"
    BY <2>1 DEF Pending, With
  <2>. QED
    BY <1>2, <2>1, <2>2
<1>8. ASSUME Begun(r) \/ RowsOf(r) = Cases
      PROVE  RowsOf(r)' = RowsOf(r)
  <2>1. ASSUME NEW c \in RowsOf(r)'
        PROVE  c \in RowsOf(r)
    <3>1. c \in Cases /\ row'[r][c] \in {"pending"} \cup Terminal
      BY <2>1 DEF RowsOf, With
    <3>2. row[r][c] /= "absent" \/ c \in RowsOf(r)
      BY <1>2, <1>8, <3>1 DEF Terminal
    <3>. QED
      BY <1>1, <3>1, <3>2 DEF RowsOf, With
  <2>. QED
    BY <1>5, <2>1
<1>9. \A c \in With(r, Terminal) : row'[r][c] = row[r][c]
  BY <1>3 DEF With
<1>. QED
  BY <1>4, <1>5, <1>6, <1>7, <1>8, <1>9

\* A command writes into no other ledger than its own.
LEMMA OwnLedger ==
  ASSUME IInv, NEW p \in Processes, WorkStep(p), NEW r \in Runs, r /= process[p].run
  PROVE  /\ \A c \in Cases : row'[r][c] = row[r][c] /\ judged'[r][c] = judged[r][c]
         /\ r \in closed' <=> r \in closed
<1>1. TypeOK
  BY DEF IInv
<1>2. CASE Settle(p)
  <2>1. PICK c \in Cases, s \in Terminal :
           /\ process[p].run \in Runs /\ row[process[p].run][c] = "pending"
           /\ row' = [row EXCEPT ![process[p].run][c] = s]
           /\ judged' = [judged EXCEPT ![process[p].run][c] =
                           IF s = "completed" /\ c \in NeedsJudge THEN 1 ELSE 0]
    BY <1>2, SettledRow
  <2>. QED
    BY <1>1, <1>2, <2>1 DEF TypeOK, Settle
<1>3. CASE TakeVerdict(p)
  BY <1>1, <1>3 DEF TypeOK, TakeVerdict
<1>4. ASSUME NEW c \in Cases, CopyRow(p, c)
      PROVE  /\ \A d \in Cases : row'[r][d] = row[r][d] /\ judged'[r][d] = judged[r][d]
             /\ r \in closed' <=> r \in closed
  BY <1>1, <1>4 DEF TypeOK, CopyRow
<1>5. CASE Attempt(p) \/ Close(p) \/ Evidence(p) \/ Combine(p) \/ Abort(p)
  BY <1>5 DEF Attempt, Close, Evidence, Combine, Abort, ledgerVars
<1>6. ASSUME NEW c \in Cases, AskJudge(p, c)
      PROVE  /\ \A d \in Cases : row'[r][d] = row[r][d] /\ judged'[r][d] = judged[r][d]
             /\ r \in closed' <=> r \in closed
  BY <1>6 DEF AskJudge, ledgerVars
<1>. QED
  BY <1>2, <1>3, <1>4, <1>5, <1>6 DEF WorkStep

\* How a command at work goes on, and when it closes its run.
LEMMA WorkProcess ==
  ASSUME IInv, NEW p \in Processes, WorkStep(p)
  PROVE  /\ Others(p)
         /\ process[p].run \in Runs /\ process[p].at /= "idle"
         /\ process'[p] = Idle \/ process'[p].run = process[p].run
         /\ closed' \subseteq closed \cup {process[p].run} /\ closed \subseteq closed'
         /\ process[p].run \in closed' /\ process[p].run \notin closed =>
              Pending(process[p].run) = {} /\ UNCHANGED row
<1>1. TypeOK /\ ProcessShape(p)
  BY DEF IInv
<1>2. CASE Attempt(p)
  <2>1. PICK c \in IF process[p].case = None THEN Pending(process[p].run)
                                            ELSE {process[p].case} :
          process' = [process EXCEPT ![p].case = c]
    BY <1>2 DEF Attempt
  <2>2. c \in Cases
    BY <1>2, <2>1 DEF Attempt, Pending, With
  <2>3. Others(p) /\ process'[p].run = process[p].run
    BY <1>1, <2>1, <2>2, CaseUpdate
  <2>. QED
    BY <1>1, <1>2, <2>3 DEF Attempt, ProcessShape
<1>3. CASE Settle(p)
  <2>1. Others(p) /\ process'[p].run = process[p].run
    BY <1>1, <1>3, CaseUpdate DEF Settle
  <2>. QED
    BY <1>1, <1>3, <2>1 DEF Settle, ProcessShape
<1>4. CASE TakeVerdict(p)
  <2>1. Others(p) /\ process'[p].run = process[p].run
    BY <1>1, <1>4, VerdictUpdate DEF TakeVerdict
  <2>. QED
    BY <1>1, <1>4, <2>1 DEF TakeVerdict, ProcessShape
<1>5. ASSUME NEW c \in Cases, AskJudge(p, c)
      PROVE  /\ Others(p)
             /\ process[p].run \in Runs /\ process[p].at /= "idle"
             /\ process'[p].run = process[p].run /\ closed' = closed
  <2>1. Others(p) /\ process'[p].run = process[p].run
    BY <1>1, <1>5, CaseUpdate DEF AskJudge
  <2>. QED
    BY <1>1, <1>5, <2>1 DEF AskJudge, Rescoring, ProcessShape, ledgerVars
<1>6. ASSUME NEW c \in Cases, CopyRow(p, c)
      PROVE  /\ Others(p)
             /\ process[p].run \in Runs /\ process[p].at /= "idle"
             /\ process'[p].run = process[p].run /\ closed' = closed
  BY <1>1, <1>6 DEF CopyRow, Rescoring, ProcessShape, Others
<1>7. CASE Close(p)
  <2>1. Others(p) /\ process'[p].run = process[p].run
    BY <1>1, <1>7, AtUpdate DEF Close
  <2>. QED
    BY <1>1, <1>7, <2>1 DEF Close, ProcessShape
<1>8. CASE Evidence(p)
  <2>1. Others(p) /\ (process'[p] = Idle \/ process'[p].run = process[p].run)
    BY <1>1, <1>8, AtUpdate, IdleUpdate DEF Evidence
  <2>. QED
    BY <1>1, <1>8, <2>1 DEF Evidence, ProcessShape, ledgerVars
<1>9. CASE Combine(p)
  <2>1. Others(p) /\ process'[p] = Idle
    BY <1>1, <1>9, IdleUpdate DEF Combine
  <2>. QED
    BY <1>1, <1>9, <2>1 DEF Combine, ProcessShape, ledgerVars
<1>10. CASE Abort(p)
  <2>1. Others(p) /\ process'[p] = Idle
    BY <1>1, <1>10, IdleUpdate DEF Abort
  <2>2. process[p].at /= "idle"
    BY <1>1, <1>10 DEF Abort, ProcessShape
  <2>. QED
    BY <1>1, <1>10, <2>1, <2>2 DEF Abort, ProcessShape, ledgerVars
<1>. QED
  BY <1>2, <1>3, <1>4, <1>5, <1>6, <1>7, <1>8, <1>9, <1>10 DEF WorkStep

\* A command at rest, while another one does something.
LEMMA OtherShape ==
  ASSUME IInv, RowsGrow, closed \subseteq closed', NEW p \in Processes, Others(p),
         NEW q \in Processes \ {p},
         process[q].run \in Runs =>
           \A c \in Cases : row'[process[q].run][c] = row[process[q].run][c]
  PROVE  ProcessShape(q)'
<1>1. ProcessShape(q) /\ process'[q] = process[q]
  BY DEF IInv, Others
<1>2. PICK r, c : r = process[q].run /\ c = process[q].case
  OBVIOUS
<1>3. ASSUME process[q].at = "rescore", c /= None
      PROVE  c \in Pending(r)' \cap NeedsJudge \cap Completed(Source[r])'
  <2>1. r \in Runs /\ c \in Pending(r) \cap NeedsJudge \cap Completed(Source[r])
    BY <1>1, <1>2, <1>3 DEF ProcessShape
  <2>2. Source[r] \in Runs
    BY <1>1, <1>2, <1>3, <2>1, Derived DEF ProcessShape
  <2>3. c \in Completed(Source[r])'
    BY <2>1, <2>2, GrownRows
  <2>4. c \in Pending(r)'
    BY <1>2, <2>1 DEF Pending, With
  <2>. QED
    BY <2>1, <2>3, <2>4
<1>4. r = process'[q].run /\ c = process'[q].case
  BY <1>1, <1>2
<1>5. (process[q].at = "rescore" /\ process[q].case /= None =>
         process[q].case \in Pending(process[q].run) \cap NeedsJudge
                               \cap Completed(Source[process[q].run]))'
  BY <1>1, <1>3, <1>4 DEF Pending, Completed, With
<1>. QED
  BY <1>1, <1>5 DEF ProcessShape, Idle

LEMMA StartShapes ==
  ASSUME IInv, RowsGrow, NEW p \in Processes, NEW r \in Runs,
         NEW at \in {"execute", "rescore"}, Start(p, r, at), closed' = closed,
         at = "execute" => Kind[r] \in {"run", "recovery"},
         at = "rescore" => Kind[r] = "rescore",
         NEW S, Initialize(r, S)
  PROVE  OneWriter' /\ \A q \in Processes : ProcessShape(q)'
<1>1. TypeOK
  BY DEF IInv
<1>2. /\ process'[p].at = at /\ process'[p].run = r
      /\ process'[p].case = None /\ process'[p].spent = 0
      /\ Others(p) /\ \A q \in Processes : process[q].run /= r
  BY <1>1, StartedProcess
<1>3. OneWriter'
  BY <1>2 DEF IInv, OneWriter, Others
<1>4. ASSUME NEW q \in Processes \ {p}
      PROVE  ProcessShape(q)'
  <2>1. process[q].run \in Runs =>
          \A c \in Cases : row'[process[q].run][c] = row[process[q].run][c]
    BY <1>1, <1>2, InitializedRows
  <2>. QED
    BY <1>2, <2>1, OtherShape
<1>5. ProcessShape(p)'
  BY <1>2 DEF ProcessShape, Idle
<1>. QED
  BY <1>3, <1>4, <1>5

LEMMA WorkerShape ==
  ASSUME IInv, NEW p \in Processes, WorkStep(p)
  PROVE  ProcessShape(p)'
<1>1. /\ process[p].run \in Runs /\ process[p].at /= "idle"
      /\ closed \subseteq closed'
  BY WorkProcess
<1>4. TypeOK /\ ProcessShape(p)
  BY DEF IInv
<1>5. ASSUME process'[p] = Idle
      PROVE  ProcessShape(p)'
  BY <1>5 DEF ProcessShape, Idle
<1>6. ASSUME process'[p].at = "execute", process'[p].run = process[p].run,
             process[p].at = "execute"
      PROVE  ProcessShape(p)'
  BY <1>1, <1>4, <1>6 DEF ProcessShape, Idle
<1>7. ASSUME process'[p].at = "rescore", process'[p].run = process[p].run,
             process[p].at = "rescore", process'[p].case = None
      PROVE  ProcessShape(p)'
  BY <1>1, <1>4, <1>7 DEF ProcessShape, Idle
<1>8. CASE Attempt(p)
  <2>1. PICK c \in IF process[p].case = None THEN Pending(process[p].run)
                                            ELSE {process[p].case} :
          process' = [process EXCEPT ![p].case = c]
    BY <1>8 DEF Attempt
  <2>2. c \in Cases
    BY <1>8, <2>1 DEF Attempt, Pending, With
  <2>3. process'[p].at = process[p].at /\ process'[p].run = process[p].run
    BY <1>4, <2>1, <2>2, CaseUpdate
  <2>. QED
    BY <1>6, <1>8, <2>3 DEF Attempt
<1>9. CASE Settle(p)
  <2>1. process'[p].at = process[p].at /\ process'[p].run = process[p].run
    BY <1>4, <1>9, CaseUpdate DEF Settle
  <2>. QED
    BY <1>6, <1>9, <2>1 DEF Settle
<1>10. CASE TakeVerdict(p)
  <2>1. /\ process'[p].at = process[p].at /\ process'[p].run = process[p].run
        /\ process'[p].case = None
    BY <1>4, <1>10, VerdictUpdate DEF TakeVerdict
  <2>. QED
    BY <1>7, <1>10, <2>1 DEF TakeVerdict
<1>11. ASSUME NEW c \in Cases, AskJudge(p, c)
       PROVE  ProcessShape(p)'
  <2>1. /\ process'[p].at = process[p].at /\ process'[p].run = process[p].run
        /\ process'[p].case = c
    BY <1>4, <1>11, CaseUpdate DEF AskJudge
  <2>2. /\ process[p].at = "rescore" /\ c \in Pending(process[p].run)
        /\ c \in Completed(Source[process[p].run]) \cap NeedsJudge
    BY <1>11 DEF AskJudge, Rescoring
  <2>3. row' = row
    BY <1>11 DEF AskJudge, ledgerVars
  <2>4. PICK r : r = process[p].run
    OBVIOUS
  <2>5. c \in Pending(r)' /\ c \in Completed(Source[r])' /\ r = process'[p].run
    BY <2>1, <2>2, <2>3, <2>4 DEF Pending, Completed, With
  <2>6. Kind[process'[p].run] = "rescore" /\ process'[p].run \in Runs
    BY <1>4, <2>1, <2>2 DEF ProcessShape
  <2>7. (process[p].at = "rescore" /\ process[p].case /= None =>
           process[p].case \in Pending(process[p].run) \cap NeedsJudge
                                 \cap Completed(Source[process[p].run]))'
    BY <2>1, <2>2, <2>5 DEF Pending, Completed, With
  <2>. QED
    BY <2>1, <2>2, <2>6, <2>7 DEF ProcessShape, Idle
<1>12. ASSUME NEW c \in Cases, CopyRow(p, c)
       PROVE  ProcessShape(p)'
  <2>1. process' = process /\ process[p].at = "rescore" /\ process[p].case = None
    BY <1>12 DEF CopyRow, Rescoring
  <2>. QED
    BY <1>7, <2>1
<1>13. CASE Close(p)
  <2>1. process'[p].at = "evidence" /\ process'[p].run = process[p].run
    BY <1>4, <1>13, AtUpdate DEF Close
  <2>2. process[p].run \in closed'
    BY <1>13 DEF Close
  <2>. QED
    BY <1>1, <2>1, <2>2 DEF ProcessShape, Idle
<1>14. CASE Evidence(p)
  <2>1. CASE Kind[process[p].run] = "recovery"
    <3>1. process' = [process EXCEPT ![p].at = "combine"]
      BY <1>14, <2>1 DEF Evidence
    <3>2. process'[p].at = "combine" /\ process'[p].run = process[p].run
      BY <1>4, <3>1, AtUpdate
    <3>3. process[p].run \in closed'
      BY <1>1, <1>4, <1>14 DEF Evidence, ProcessShape
    <3>. QED
      BY <1>1, <2>1, <3>2, <3>3 DEF ProcessShape, Idle
  <2>2. CASE Kind[process[p].run] /= "recovery"
    <3>1. process' = [process EXCEPT ![p] = Idle]
      BY <1>14, <2>2 DEF Evidence
    <3>. QED
      BY <1>4, <1>5, <3>1, IdleUpdate
  <2>. QED
    BY <2>1, <2>2
<1>15. CASE Combine(p)
  BY <1>4, <1>5, <1>15, IdleUpdate DEF Combine
<1>16. CASE Abort(p)
  BY <1>4, <1>5, <1>16, IdleUpdate DEF Abort
<1>. QED
  BY <1>8, <1>9, <1>10, <1>11, <1>12, <1>13, <1>14, <1>15, <1>16 DEF WorkStep

LEMMA WorkShapes ==
  ASSUME IInv, RowsGrow, NEW p \in Processes, WorkStep(p)
  PROVE  OneWriter' /\ \A q \in Processes : ProcessShape(q)'
<1>1. /\ Others(p)
      /\ process[p].run \in Runs /\ process[p].at /= "idle"
      /\ process'[p] = Idle \/ process'[p].run = process[p].run
      /\ closed \subseteq closed'
  BY WorkProcess
<1>2. OneWriter'
  <2>1. process'[p].run \in {process[p].run, None}
    BY <1>1 DEF Idle
  <2>. QED
    BY <1>1, <2>1, CommandsAssumption DEF IInv, OneWriter, Others
<1>3. ASSUME NEW q \in Processes \ {p}
      PROVE  ProcessShape(q)'
  <2>1. process[q].run /= process[p].run
    BY <1>1, CommandsAssumption DEF IInv, OneWriter
  <2>2. process[q].run \in Runs =>
          \A c \in Cases : row'[process[q].run][c] = row[process[q].run][c]
    BY <2>1, OwnLedger
  <2>. QED
    BY <1>1, <2>2, OtherShape
<1>4. ProcessShape(p)'
  BY WorkerShape
<1>. QED
  BY <1>2, <1>3, <1>4

-----------------------------------------------------------------------------
(***************************************************************************)
(* The rows of a run are those of its selection.                           *)
(***************************************************************************)

\* A run that had begun keeps its shape in a step of others, or of its own command.
LEMMA BegunRowsShape ==
  ASSUME IInv, RowsGrow, NEW r \in Runs, Begun(r)' => Begun(r),
         closed \subseteq closed', r \in closed' => r \in closed \/ Pending(r)' = {},
         \A c \in Cases : attempts'[r][c] = attempts[r][c] \/ c \in RowsOf(r)
  PROVE  RowsShape(r)'
<1>1. RowsShape(r) /\ RowsOf(r) \subseteq RowsOf(r)'
  BY GrownRows DEF IInv
<1>2. \A c \in Cases : attempts'[r][c] /= 0 => c \in RowsOf(r)'
  BY <1>1 DEF RowsShape
<1>3. ASSUME r \in closed
      PROVE  Pending(r)' = {}
  <2>1. Pending(r) = {} /\ \A c \in Cases : row'[r][c] = row[r][c]
    BY <1>1, <1>3, GrownRows DEF RowsShape
  <2>. QED
    BY <2>1 DEF Pending, With
<1>4. ASSUME Begun(r)
      PROVE  CASE Kind[r] = "run"      -> RowsOf(r)' = Cases
               [] Kind[r] = "recovery" ->
                    /\ RowsOf(r)' = Selected[r] /\ RowsOf(Source[r])' = Cases
                    /\ Cases \ Selected[r] \subseteq With(Source[r], Terminal)'
               [] Kind[r] = "rescore"  ->
                    /\ Source[r] \in closed'
                    /\ RowsOf(r)' = RowsOf(Source[r])'
                    /\ SubsetsAreNotRescored => RowsOf(r)' = Cases
  <2>1. RowsOf(r)' = RowsOf(r)
    BY <1>4, GrownRows
  <2>2. CASE Kind[r] = "run"
    BY <1>1, <1>4, <2>1, <2>2 DEF RowsShape
  <2>3. CASE Kind[r] = "recovery"
    <3>1. /\ RowsOf(r) = Selected[r] /\ RowsOf(Source[r]) = Cases
          /\ Cases \ Selected[r] \subseteq With(Source[r], Terminal)
      BY <1>1, <1>4, <2>3 DEF RowsShape
    <3>2. Source[r] \in Runs
      BY <2>3, Derived
    <3>3. /\ RowsOf(Source[r])' = RowsOf(Source[r])
          /\ With(Source[r], Terminal) \subseteq With(Source[r], Terminal)'
      BY <3>1, <3>2, GrownRows
    <3>. QED
      BY <2>1, <2>3, <3>1, <3>3
  <2>4. CASE Kind[r] = "rescore"
    <3>1. /\ Source[r] \in closed /\ RowsOf(r) = RowsOf(Source[r])
          /\ SubsetsAreNotRescored => RowsOf(r) = Cases
      BY <1>1, <1>4, <2>4 DEF RowsShape
    <3>2. Source[r] \in Runs /\ Begun(Source[r])
      BY <2>4, <3>1, Derived DEF Begun
    <3>3. RowsOf(Source[r])' = RowsOf(Source[r])
      BY <3>2, GrownRows
    <3>. QED
      BY <2>1, <2>4, <3>1, <3>3
  <2>. QED
    BY <2>2, <2>3, <2>4, Derived
<1>5. ASSUME Begun(r)'
      PROVE  CASE Kind[r] = "run"      -> RowsOf(r)' = Cases
               [] Kind[r] = "recovery" ->
                    /\ RowsOf(r)' = Selected[r] /\ RowsOf(Source[r])' = Cases
                    /\ Cases \ Selected[r] \subseteq With(Source[r], Terminal)'
               [] Kind[r] = "rescore"  ->
                    /\ Source[r] \in closed'
                    /\ RowsOf(r)' = RowsOf(Source[r])'
                    /\ SubsetsAreNotRescored => RowsOf(r)' = Cases
  BY <1>4, <1>5
<1>. QED
  BY <1>2, <1>3, <1>5 DEF RowsShape, SubsetsAreNotRescored

LEMMA SettledRowsOf ==
  ASSUME TypeOK, Settles, NEW r \in Runs
  PROVE  RowsOf(r)' = RowsOf(r) /\ Pending(r)' \subseteq Pending(r)
<1>1. \A c \in Cases : row[r][c] \in {"absent", "pending"} \cup Terminal
  BY DEF TypeOK
<1>2. \A c \in Cases : row'[r][c] = row[r][c] \/ (row[r][c] = "pending" /\ row'[r][c] \in Terminal)
  BY DEF Settles
<1>. QED
  BY <1>1, <1>2 DEF RowsOf, Pending, With, Terminal

LEMMA AttemptedCase ==
  ASSUME IInv, NEW p \in Processes, Attempt(p)
  PROVE  \E c \in Cases :
           /\ process[p].run \in Runs /\ c \in Pending(process[p].run)
           /\ attempts' = [attempts EXCEPT ![process[p].run][c] = @ + 1]
           /\ process' = [process EXCEPT ![p].case = c]
<1>1. PICK c \in IF process[p].case = None THEN Pending(process[p].run)
                                          ELSE {process[p].case} :
        /\ attempts' = [attempts EXCEPT ![process[p].run][c] = @ + 1]
        /\ process' = [process EXCEPT ![p].case = c]
  BY DEF Attempt
<1>2. c \in Pending(process[p].run)
  BY <1>1 DEF Attempt
<1>3. c \in Cases
  BY <1>2 DEF Pending, With
<1>4. process[p].run \in Runs
  BY WorkProcess DEF WorkStep
<1>. QED
  BY <1>1, <1>2, <1>3, <1>4

LEMMA WorkAttempts ==
  ASSUME IInv, NEW p \in Processes, WorkStep(p), NEW r \in Runs, NEW c \in Cases
  PROVE  attempts'[r][c] = attempts[r][c] \/ (c \in RowsOf(r) /\ ~Untaken(r))
<1>1. CASE Attempt(p)
  <2>1. PICK d \in Cases :
           /\ process[p].run \in Runs /\ d \in Pending(process[p].run)
           /\ attempts' = [attempts EXCEPT ![process[p].run][d] = @ + 1]
           /\ process' = [process EXCEPT ![p].case = d]
    BY <1>1, AttemptedCase
  <2>2. CASE r = process[p].run /\ c = d
    BY <2>1, <2>2 DEF Pending, RowsOf, With, Untaken
  <2>3. CASE ~(r = process[p].run /\ c = d)
    BY <2>1, <2>3 DEF IInv, TypeOK
  <2>. QED
    BY <2>2, <2>3
<1>2. CASE attempts' = attempts
  BY <1>2
<1>3. CASE ~Attempt(p)
  BY <1>2, <1>3 DEF WorkStep, Settle, TakeVerdict, AskJudge, CopyRow, Close, Evidence,
                    Combine, Abort, ledgerVars
<1>. QED
  BY <1>1, <1>3

LEMMA WorkRowsShape ==
  ASSUME IInv, NEW p \in Processes, WorkStep(p), NEW r \in Runs
  PROVE  RowsShape(r)'
<1>1. /\ Others(p)
      /\ process[p].run \in Runs /\ process[p].at /= "idle"
      /\ process'[p] = Idle \/ process'[p].run = process[p].run
      /\ closed' \subseteq closed \cup {process[p].run} /\ closed \subseteq closed'
      /\ process[p].run \in closed' /\ process[p].run \notin closed =>
           Pending(process[p].run) = {} /\ UNCHANGED row
  BY WorkProcess
<1>2. TypeOK /\ Settles
  BY WorkSettles DEF IInv
<1>3. RowsOf(r)' = RowsOf(r) /\ Pending(r)' \subseteq Pending(r)
  BY <1>2, SettledRowsOf
<1>4. Untaken(r) => Untaken(r)'
  <2>1. process'[p].run \in {process[p].run, None}
    BY <1>1 DEF Idle
  <2>. QED
    BY <1>1, <2>1, CommandsAssumption DEF Untaken, Others
<1>5. Begun(r)' => Begun(r)
  BY <1>1, <1>3, <1>4 DEF Begun, Exists, Untaken
<1>6. r \in closed' => r \in closed \/ Pending(r)' = {}
  BY <1>1, <1>3
<1>7. RowsGrow
  BY RowsGrowStep, <1>2 DEF Settles, RowsGrow
<1>8. \A c \in Cases : attempts'[r][c] = attempts[r][c] \/ c \in RowsOf(r)
  BY WorkAttempts
<1>. QED
  BY <1>1, <1>5, <1>6, <1>7, <1>8, BegunRowsShape

\* A run that begins, or begins again.
LEMMA StartedRowsShape ==
  ASSUME IInv, NEW p \in Processes, NEW r \in Runs, NEW at \in {"execute", "rescore"},
         Start(p, r, at), NEW S, S \subseteq Cases, Initialize(r, S),
         closed' = closed, attempts' = attempts,
         Begun(r) => RowsOf(r) = S,
         Kind[r] = "run" => S = Cases,
         Kind[r] = "recovery" => /\ S = Selected[r] /\ RowsOf(Source[r]) = Cases
                                 /\ Cases \ S \subseteq With(Source[r], Terminal),
         Kind[r] = "rescore" => Source[r] \in closed /\ S = RowsOf(Source[r]),
         NEW q \in Runs
  PROVE  RowsShape(q)'
<1>1. TypeOK
  BY DEF IInv
<1>2. /\ RowsGrow
      /\ \A t \in Runs : RowsOf(t)' = IF t = r THEN RowsOf(t) \cup S ELSE RowsOf(t)
  BY StartedRows
<1>3. /\ process'[p].run = r /\ Others(p)
      /\ \A t \in Processes : process[t].run /= r
  BY <1>1, StartedProcess
<1>4. ASSUME q /= r
      PROVE  RowsShape(q)'
  <2>1. RowsOf(q)' = RowsOf(q)
    BY <1>2, <1>4
  <2>2. Untaken(q) => Untaken(q)'
    BY <1>3, <1>4 DEF Untaken, Others
  <2>3. Begun(q)' => Begun(q)
    BY <2>1, <2>2 DEF Begun, Exists
  <2>. QED
    BY <1>2, <2>3, BegunRowsShape
<1>5. ASSUME q = r, Begun(r)
      PROVE  RowsShape(q)'
  BY <1>2, <1>5, BegunRowsShape
<1>6. ASSUME q = r, ~Begun(r)
      PROVE  RowsShape(q)'
  <2>1. RowsOf(r) = {} /\ r \notin closed
    BY <1>6 DEF Begun, Exists
  <2>2. RowsOf(r)' = S
    BY <1>2, <2>1
  <2>3. \A c \in Cases : attempts'[r][c] = 0
    BY <2>1 DEF IInv, RowsShape
  <2>4. CASE Kind[r] = "run"
    BY <1>6, <2>1, <2>2, <2>3, <2>4 DEF RowsShape
  <2>5. CASE Kind[r] = "recovery"
    <3>1. Source[r] \in Runs
      BY <2>5, Derived
    <3>2. /\ RowsOf(Source[r])' = RowsOf(Source[r])
          /\ With(Source[r], Terminal) \subseteq With(Source[r], Terminal)'
      BY <1>2, <2>5, <3>1, GrownRows
    <3>. QED
      BY <1>6, <2>1, <2>2, <2>3, <2>5, <3>2 DEF RowsShape
  <2>6. CASE Kind[r] = "rescore"
    <3>1. Source[r] \in Runs /\ Begun(Source[r])
      BY <2>6, Derived DEF Begun
    <3>2. RowsOf(Source[r])' = RowsOf(Source[r])
      BY <1>2, <3>1, GrownRows
    <3>3. SubsetsAreNotRescored => RowsOf(Source[r]) = Cases
      <4>1. ASSUME SubsetsAreNotRescored
            PROVE  Kind[Source[r]] \in {"run", "rescore"}
        BY <2>6, <3>1, <4>1, Derived DEF SubsetsAreNotRescored
      <4>. QED
        BY <3>1, <4>1 DEF IInv, RowsShape
    <3>. QED
      BY <1>6, <2>1, <2>2, <2>3, <2>6, <3>2, <3>3 DEF RowsShape, SubsetsAreNotRescored
  <2>. QED
    BY <2>4, <2>5, <2>6, Derived
<1>. QED
  BY <1>4, <1>5, <1>6

LEMMA SelectionLeaves ==
  ASSUME TypeOK, NEW s \in Runs, RowsOf(s) = Cases
  PROVE  /\ Cases \ Selection(s) \subseteq With(s, Terminal)
         /\ Completed(s) \cap Selection(s) = {}
<1>1. \A c \in Cases : row[s][c] \in {"absent", "pending"} \cup Terminal
  BY DEF TypeOK
<1>. QED
  BY <1>1 DEF Selection, RowsOf, Completed, With, Terminal

\* What an attempt to start a command amounts to.
LEMMA StartFacts ==
  ASSUME IInv, NEW p \in Processes, NEW r \in Runs,
         Run(p, r) \/ Recover(p, r) \/ Rescore(p, r)
  PROVE  \E at \in {"execute", "rescore"}, S \in SUBSET Cases :
           /\ Start(p, r, at) /\ Initialize(r, S)
           /\ UNCHANGED <<closed, attempts, judged, evidence, combined, asked, aborts>>
           /\ Begun(r) => RowsOf(r) = S
           /\ at = "execute" => Kind[r] \in {"run", "recovery"}
           /\ at = "rescore" => Kind[r] = "rescore"
           /\ Kind[r] = "run" => S = Cases
           /\ Kind[r] = "recovery" => /\ S = Selected[r] /\ RowsOf(Source[r]) = Cases
                                      /\ Cases \ S \subseteq With(Source[r], Terminal)
           /\ Kind[r] = "rescore" => Source[r] \in closed /\ S = RowsOf(Source[r])
<1>1. CASE Run(p, r)
  <2>1. Start(p, r, "execute") /\ Kind[r] = "run"
    BY <1>1 DEF Run
  <2>2. Initialize(r, Cases) /\ (Begun(r) => RowsOf(r) = Cases)
    BY <1>1, RunRows
  <2>. QED
    BY <1>1, <2>1, <2>2 DEF Run, history
<1>2. CASE Recover(p, r)
  <2>1. /\ Start(p, r, "execute") /\ Kind[r] = "recovery" /\ RowsOf(Source[r]) = Cases
        /\ Selected[r] = Selection(Source[r])
    BY <1>2 DEF Recover
  <2>2. /\ Initialize(r, Selected[r]) /\ Selected[r] \subseteq Cases
        /\ Begun(r) => RowsOf(r) = Selected[r]
    BY <1>2, RecoverRows
  <2>3. Cases \ Selected[r] \subseteq With(Source[r], Terminal)
    BY <2>1, SelectionLeaves, Derived DEF IInv
  <2>. QED
    BY <1>2, <2>1, <2>2, <2>3 DEF Recover
<1>3. CASE Rescore(p, r)
  <2>1. Start(p, r, "rescore") /\ Kind[r] = "rescore" /\ Source[r] \in closed
    BY <1>3 DEF Rescore
  <2>2. /\ Initialize(r, RowsOf(Source[r])) /\ RowsOf(Source[r]) \subseteq Cases
        /\ Begun(r) => RowsOf(r) = RowsOf(Source[r])
    BY <1>3, RescoreRows
  <2>. QED
    BY <1>3, <2>1, <2>2 DEF Rescore, history
<1>. QED
  BY <1>1, <1>2, <1>3

LEMMA NextRowsShape ==
  ASSUME IInv, [Next]_vars
  PROVE  OneWriter' /\ (\A p \in Processes : ProcessShape(p)') /\ \A r \in Runs : RowsShape(r)'
<1>1. CASE UNCHANGED vars
  <2>1. row' = row /\ process' = process /\ closed' = closed /\ attempts' = attempts
    BY <1>1 DEF vars, ledgerVars
  <2>2. OneWriter'
    BY <2>1 DEF IInv, OneWriter
  <2>3. ASSUME NEW p \in Processes
        PROVE  ProcessShape(p)'
    <3>1. ProcessShape(p)
      BY DEF IInv
    <3>. QED
      BY <2>1, <3>1 DEF ProcessShape, Idle, Pending, Completed, With
  <2>4. ASSUME NEW r \in Runs
        PROVE  RowsShape(r)'
    <3>1. Begun(r)' => Begun(r)
      BY <2>1 DEF Begun, Exists, Untaken, RowsOf, With
    <3>2. RowsGrow
      BY <2>1 DEF RowsGrow
    <3>. QED
      BY <2>1, <3>1, <3>2, BegunRowsShape
  <2>. QED
    BY <2>2, <2>3, <2>4
<1>2. ASSUME NEW p \in Processes, NEW r \in Runs,
             Run(p, r) \/ Recover(p, r) \/ Rescore(p, r)
      PROVE  OneWriter' /\ (\A q \in Processes : ProcessShape(q)') /\ \A q \in Runs : RowsShape(q)'
  <2>1. PICK at \in {"execute", "rescore"}, S \in SUBSET Cases :
           /\ Start(p, r, at) /\ Initialize(r, S)
           /\ UNCHANGED <<closed, attempts, judged, evidence, combined, asked, aborts>>
           /\ Begun(r) => RowsOf(r) = S
           /\ at = "execute" => Kind[r] \in {"run", "recovery"}
           /\ at = "rescore" => Kind[r] = "rescore"
           /\ Kind[r] = "run" => S = Cases
           /\ Kind[r] = "recovery" => /\ S = Selected[r] /\ RowsOf(Source[r]) = Cases
                                      /\ Cases \ S \subseteq With(Source[r], Terminal)
           /\ Kind[r] = "rescore" => Source[r] \in closed /\ S = RowsOf(Source[r])
    BY <1>2, StartFacts
  <2>2. RowsGrow
    BY <2>1, StartedRows
  <2>3. closed' = closed /\ attempts' = attempts /\ S \subseteq Cases
    BY <2>1
  <2>4. OneWriter' /\ (\A q \in Processes : ProcessShape(q)')
    BY <2>1, <2>2, <2>3, StartShapes
  <2>5. \A q \in Runs : RowsShape(q)'
    BY <2>1, <2>3, StartedRowsShape
  <2>. QED
    BY <2>4, <2>5
<1>3. ASSUME NEW p \in Processes, WorkStep(p)
      PROVE  OneWriter' /\ (\A q \in Processes : ProcessShape(q)') /\ \A q \in Runs : RowsShape(q)'
  <2>1. RowsGrow
    BY <1>3, WorkSettles DEF Settles, RowsGrow
  <2>. QED
    BY <1>3, <2>1, WorkShapes, WorkRowsShape
<1>. QED
  BY <1>1, <1>2, <1>3, NextSteps

-----------------------------------------------------------------------------
(***************************************************************************)
(* Evidence and preserved work.                                            *)
(***************************************************************************)

\* Reports stay true, as rows only grow.
LEMMA KeptEvidence ==
  ASSUME IInv, RowsGrow, closed \subseteq closed', NEW r \in Runs
  PROVE  /\ evidence'[r] = evidence[r] =>
              (evidence'[r] /= None =>
                 /\ r \in closed'
                 /\ evidence'[r].publishable =>
                      Completed(r)' = RowsOf(r)' /\ Kind[r] /= "recovery")
         /\ combined'[r] = combined[r] =>
              (combined'[r] /= None =>
                 /\ r \in closed' /\ Kind[r] = "recovery"
                 /\ combined'[r].publishable =>
                      Completed(r)' \cup Completed(Source[r])' = Cases
                 /\ Completed(Source[r])' \ Selected[r] \subseteq combined'[r].completed)
<1>1. EvidenceShape(r) /\ RowsShape(r)
  BY DEF IInv
<1>2. ASSUME evidence'[r] = evidence[r], evidence'[r] /= None
      PROVE  /\ r \in closed'
             /\ evidence'[r].publishable =>
                  Completed(r)' = RowsOf(r)' /\ Kind[r] /= "recovery"
  <2>1. /\ r \in closed
        /\ evidence[r].publishable => Completed(r) = RowsOf(r) /\ Kind[r] /= "recovery"
    BY <1>1, <1>2 DEF EvidenceShape
  <2>2. \A c \in Cases : row'[r][c] = row[r][c]
    BY <2>1, GrownRows
  <2>3. Completed(r)' = Completed(r) /\ RowsOf(r)' = RowsOf(r)
    BY <2>2 DEF Completed, RowsOf, With
  <2>. QED
    BY <1>2, <2>1, <2>3
<1>3. ASSUME combined'[r] = combined[r], combined'[r] /= None
      PROVE  /\ r \in closed' /\ Kind[r] = "recovery"
             /\ combined'[r].publishable => Completed(r)' \cup Completed(Source[r])' = Cases
             /\ Completed(Source[r])' \ Selected[r] \subseteq combined'[r].completed
  <2>1. /\ r \in closed /\ Kind[r] = "recovery"
        /\ combined[r].publishable => Completed(r) \cup Completed(Source[r]) = Cases
        /\ Completed(Source[r]) \ Selected[r] \subseteq combined[r].completed
    BY <1>1, <1>3 DEF EvidenceShape
  <2>2. Source[r] \in Runs
    BY <2>1, Derived
  <2>3. Completed(r) \subseteq Completed(r)' /\ Completed(Source[r]) \subseteq Completed(Source[r])'
    BY <2>2, GrownRows
  <2>4. Completed(r)' \subseteq Cases /\ Completed(Source[r])' \subseteq Cases
    BY DEF Completed, With
  <2>5. Cases \ Selected[r] \subseteq With(Source[r], Terminal)
    BY <1>1, <2>1 DEF RowsShape, Begun
  <2>6. \A c \in With(Source[r], Terminal) : row'[Source[r]][c] = row[Source[r]][c]
    BY <2>2, GrownRows
  <2>7. Completed(Source[r])' \ Selected[r] \subseteq Completed(Source[r])
    BY <2>5, <2>6 DEF Completed, With
  <2>. QED
    BY <1>3, <2>1, <2>3, <2>4, <2>7
<1>. QED
  BY <1>2, <1>3

LEMMA KeptEvidenceShape ==
  ASSUME IInv, RowsGrow, closed \subseteq closed', NEW r \in Runs,
         evidence'[r] = evidence[r], combined'[r] = combined[r]
  PROVE  EvidenceShape(r)'
BY KeptEvidence DEF EvidenceShape

LEMMA EvidenceStep ==
  ASSUME IInv, NEW p \in Processes, Evidence(p), NEW q \in Runs
  PROVE  EvidenceShape(q)'
<1>. DEFINE r == process[p].run
            x == [publishable |-> Publishable(r), completed |-> Completed(r),
                  requests |-> RequestCount(r)]
<1>1. TypeOK /\ ProcessShape(p)
  BY DEF IInv
<1>2. r \in Runs /\ r \in closed
  BY <1>1 DEF Evidence, ProcessShape
<1>3. /\ evidence' = [evidence EXCEPT ![r] = x]
      /\ row' = row /\ closed' = closed /\ combined' = combined
  BY DEF Evidence, ledgerVars
<1>4. RowsGrow
  BY <1>3 DEF RowsGrow
<1>5. evidence \in [Runs -> {None} \cup Reports]
  BY <1>1 DEF TypeOK
<1>6. ASSUME q /= r
      PROVE  EvidenceShape(q)'
  <2>1. evidence'[q] = evidence[q] /\ combined'[q] = combined[q]
    BY <1>3, <1>5, <1>6
  <2>. QED
    BY <1>3, <1>4, <2>1, KeptEvidenceShape
<1>7. ASSUME q = r
      PROVE  EvidenceShape(q)'
  <2>1. evidence'[q] = x
    BY <1>2, <1>3, <1>5, <1>7
  <2>2. x.publishable => Completed(r) = RowsOf(r) /\ Kind[r] /= "recovery"
    BY DEF Publishable
  <2>3. Completed(q)' = Completed(q) /\ RowsOf(q)' = RowsOf(q)
    BY <1>3 DEF Completed, RowsOf, With
  <2>4. combined'[q] /= None =>
          /\ q \in closed' /\ Kind[q] = "recovery"
          /\ combined'[q].publishable => Completed(q)' \cup Completed(Source[q])' = Cases
          /\ Completed(Source[q])' \ Selected[q] \subseteq combined'[q].completed
    BY <1>3, <1>4, KeptEvidence
  <2>. HIDE DEF x
  <2>. QED
    BY <1>2, <1>3, <1>7, <2>1, <2>2, <2>3, <2>4 DEF EvidenceShape
<1>. QED
  BY <1>6, <1>7

LEMMA CombineStep ==
  ASSUME IInv, NEW p \in Processes, Combine(p), NEW q \in Runs
  PROVE  EvidenceShape(q)'
<1>1. PICK r : r = process[p].run
  OBVIOUS
<1>. DEFINE s == Source[r]
            completed == {c \in RowsOf(s) :
                            row[IF c \in Selected[r] THEN r ELSE s][c] = "completed"}
            x == [publishable |-> completed = RowsOf(s), completed |-> completed,
                  requests |-> RequestCount(s) + RequestCount(r)]
<1>2. TypeOK /\ ProcessShape(p)
  BY DEF IInv
<1>3. /\ r \in Runs /\ r \in closed /\ Kind[r] = "recovery"
      /\ RowsShape(r) /\ Begun(r)
  BY <1>1, <1>2 DEF IInv, Combine, ProcessShape, Begun
<1>4. /\ combined' = [combined EXCEPT ![r] = x]
      /\ row' = row /\ closed' = closed /\ evidence' = evidence
  BY <1>1 DEF Combine, ledgerVars
<1>5. RowsGrow
  BY <1>4 DEF RowsGrow
<1>6. combined \in [Runs -> {None} \cup Reports]
  BY <1>2 DEF TypeOK
<1>7. ASSUME q /= r
      PROVE  EvidenceShape(q)'
  <2>1. evidence'[q] = evidence[q] /\ combined'[q] = combined[q]
    BY <1>4, <1>6, <1>7
  <2>. QED
    BY <1>4, <1>5, <2>1, KeptEvidenceShape
<1>8. ASSUME q = r
      PROVE  EvidenceShape(q)'
  <2>1. combined'[q] = x
    BY <1>3, <1>4, <1>6, <1>8
  <2>2. RowsOf(s) = Cases
    BY <1>3 DEF RowsShape
  <2>3. x.completed = completed /\ x.publishable = (completed = RowsOf(s))
    OBVIOUS
  <2>4. completed = RowsOf(s) => Completed(r) \cup Completed(s) = Cases
    BY <2>2 DEF Completed, With
  <2>5. Completed(s) \ Selected[r] \subseteq completed
    BY <2>2 DEF Completed, With
  <2>6. Completed(r)' = Completed(r) /\ Completed(s)' = Completed(s)
    BY <1>4 DEF Completed, With
  <2>7. evidence'[q] /= None =>
          /\ q \in closed'
          /\ evidence'[q].publishable => Completed(q)' = RowsOf(q)' /\ Kind[q] /= "recovery"
    BY <1>4, <1>5, KeptEvidence
  <2>. HIDE DEF x, completed
  <2>. QED
    BY <1>3, <1>4, <1>8, <2>1, <2>3, <2>4, <2>5, <2>6, <2>7 DEF EvidenceShape
<1>. QED
  BY <1>7, <1>8

LEMMA NextEvidenceShape ==
  ASSUME IInv, [Next]_vars, NEW q \in Runs
  PROVE  EvidenceShape(q)'
<1>1. RowsGrow
  BY RowsGrowStep
<1>2. ASSUME closed \subseteq closed', evidence' = evidence, combined' = combined
      PROVE  EvidenceShape(q)'
  BY <1>1, <1>2, KeptEvidenceShape
<1>3. CASE UNCHANGED vars
  BY <1>2, <1>3 DEF vars, ledgerVars
<1>4. ASSUME NEW p \in Processes, NEW r \in Runs,
             Run(p, r) \/ Recover(p, r) \/ Rescore(p, r)
      PROVE  EvidenceShape(q)'
  BY <1>2, <1>4 DEF Run, Recover, Rescore
<1>5. ASSUME NEW p \in Processes, WorkStep(p)
      PROVE  EvidenceShape(q)'
  <2>1. CASE Evidence(p)
    BY <2>1, EvidenceStep
  <2>2. CASE Combine(p)
    BY <2>2, CombineStep
  <2>3. CASE ~Evidence(p) /\ ~Combine(p)
    BY <1>2, <1>5, <2>3 DEF WorkStep, Attempt, Settle, TakeVerdict, AskJudge, CopyRow, Close,
                            Abort, ledgerVars
  <2>. QED
    BY <2>1, <2>2, <2>3
<1>. QED
  BY <1>3, <1>4, <1>5, NextSteps

LEMMA NextWorkShape ==
  ASSUME IInv, [Next]_vars, NEW q \in Runs
  PROVE  WorkShape(q)'
<1>1. RowsGrow
  BY RowsGrowStep
<1>2. WorkShape(q) /\ TypeOK
  BY DEF IInv
<1>3. ASSUME preserved'[q] = preserved[q]
      PROVE  WorkShape(q)'
  <2>1. CASE preserved[q] = {}
    BY <1>3, <2>1 DEF WorkShape
  <2>2. CASE preserved[q] /= {}
    <3>1. Kind[q] = "recovery" /\ preserved[q] \subseteq Completed(Source[q]) \ Selected[q]
      BY <1>2, <2>2 DEF WorkShape
    <3>2. Source[q] \in Runs
      BY <3>1, Derived
    <3>3. Completed(Source[q]) \subseteq Completed(Source[q])'
      BY <1>1, <3>2, GrownRows
    <3>. QED
      BY <1>3, <3>1, <3>3 DEF WorkShape
  <2>. QED
    BY <2>1, <2>2
<1>4. ASSUME NEW p \in Processes, NEW r \in Runs, Recover(p, r)
      PROVE  WorkShape(q)'
  <2>1. CASE q /= r
    BY <1>2, <1>3, <1>4, <2>1 DEF Recover, TypeOK
  <2>2. CASE q = r
    <3>1. /\ Kind[r] = "recovery" /\ RowsOf(Source[r]) = Cases
          /\ Selected[r] = Selection(Source[r])
      BY <1>4 DEF Recover
    <3>2. Source[r] \in Runs
      BY <3>1, Derived
    <3>3. Completed(Source[r]) \cap Selected[r] = {}
      BY <1>2, <3>1, <3>2, SelectionLeaves
    <3>4. preserved'[r] = preserved[r] \cup Completed(Source[r])
      BY <1>2, <1>4 DEF Recover, TypeOK
    <3>5. Completed(Source[r]) \subseteq Completed(Source[r])'
      BY <1>1, <3>2, GrownRows
    <3>6. preserved[r] \subseteq Completed(Source[r]) \ Selected[r]
      BY <1>2, <2>2 DEF WorkShape
    <3>. QED
      BY <2>2, <3>1, <3>3, <3>4, <3>5, <3>6 DEF WorkShape
  <2>. QED
    BY <2>1, <2>2
<1>5. CASE preserved' = preserved
  BY <1>3, <1>5
<1>6. CASE UNCHANGED vars
  BY <1>5, <1>6 DEF vars, history
<1>7. ASSUME NEW p \in Processes, NEW r \in Runs, Run(p, r) \/ Rescore(p, r)
      PROVE  WorkShape(q)'
  BY <1>3, <1>7 DEF Run, Rescore, history
<1>8. ASSUME NEW p \in Processes, WorkStep(p)
      PROVE  WorkShape(q)'
  BY <1>3, <1>8 DEF WorkStep, Attempt, Settle, TakeVerdict, AskJudge, CopyRow, Close,
                    Evidence, Combine, Abort, history
<1>. QED
  BY <1>4, <1>6, <1>7, <1>8, NextSteps

-----------------------------------------------------------------------------
(***************************************************************************)
(* The judge requests of a rescoring.                                      *)
(***************************************************************************)

\* What a command has with the judge.
AtJudge(p, r, c) ==
  process[p].at = "rescore" /\ process[p].run = r /\ process[p].case = c

LEMMA OpenKept ==
  ASSUME NEW p \in Processes, Others(p), NEW r,
         \A c \in Cases : AtJudge(p, r, c)' <=> AtJudge(p, r, c)
  PROVE  Open(r)' = Open(r)
<1>1. \A q \in Processes, c \in Cases : AtJudge(q, r, c)' <=> AtJudge(q, r, c)
  BY DEF Others, AtJudge
<1>2. Open(r) = {c \in Cases : \E q \in Processes : AtJudge(q, r, c)}
  BY DEF Open, AtJudge
<1>3. Open(r)' = {c \in Cases : \E q \in Processes : AtJudge(q, r, c)'}
  BY DEF Open, AtJudge
<1>. QED
  BY <1>1, <1>2, <1>3

\* Only the command of the run has a case of it with the judge.
LEMMA OpenOfOwner ==
  ASSUME OneWriter, NEW p \in Processes, NEW r \in Runs, process[p].run = r
  PROVE  Open(r) = {c \in Cases : AtJudge(p, r, c)}
BY CommandsAssumption DEF OneWriter, Open, AtJudge

\* After a step of the command of r, the cases that r has with the judge.
LEMMA OpenAfter ==
  ASSUME OneWriter, NEW p \in Processes, NEW r \in Runs, process[p].run = r, Others(p)
  PROVE  Open(r)' = {c \in Cases : AtJudge(p, r, c)'}
<1>1. \A q \in Processes \ {p} : process'[q] = process[q] /\ process[q].run /= r
  BY CommandsAssumption DEF OneWriter, Others
<1>. QED
  BY <1>1 DEF Open, AtJudge

LEMMA KeptJudgeShape ==
  ASSUME IInv, RowsGrow, NEW r \in Runs, aborts' = aborts, Open(r)' = Open(r),
         \A c \in Cases : judged'[r][c] = judged[r][c], asked'[r] = asked[r]
  PROVE  JudgeShape(r)'
<1>1. JudgeShape(r)
  BY DEF IInv
<1>2. \A c \in Cases : row[r][c] = "completed" => row'[r][c] = "completed"
  BY GrownRows DEF With, Terminal
<1>3. Due(r)' = Due(r)
  BY DEF Due
<1>4. \A c \in Cases : judged'[r][c] = 1 => row'[r][c] = "completed"
  BY <1>1, <1>2 DEF JudgeShape
<1>5. ASSUME Kind[r] = "rescore"
      PROVE  /\ Due(r)' \subseteq Completed(Source[r])' \cap NeedsJudge
             /\ \A c \in Cases : judged'[r][c] <= asked'[r][c]
             /\ \A c \in Open(r)' : asked'[r][c] > judged'[r][c]
             /\ SumFunctionOnSet(asked'[r], Cases) <= Cardinality(Due(r)') + aborts'
  <2>1. Source[r] \in Runs
    BY <1>5, Derived
  <2>2. Completed(Source[r]) \subseteq Completed(Source[r])'
    BY <2>1, GrownRows
  <2>3. /\ Due(r) \subseteq Completed(Source[r]) \cap NeedsJudge
        /\ \A c \in Cases : judged[r][c] <= asked[r][c]
        /\ \A c \in Open(r) : asked[r][c] > judged[r][c]
        /\ SumFunctionOnSet(asked[r], Cases) <= Cardinality(Due(r)) + aborts
    BY <1>1, <1>5 DEF JudgeShape
  <2>4. Open(r) \subseteq Cases
    BY DEF Open
  <2>. QED
    BY <1>3, <2>2, <2>3, <2>4
<1>. QED
  BY <1>4, <1>5 DEF JudgeShape

\* A request is one more asked, and one more case with the judge.
LEMMA AskStep ==
  ASSUME IInv, NEW p \in Processes, NEW c \in Cases, AskJudge(p, c),
         NEW r \in Runs, r = process[p].run
  PROVE  JudgeShape(r)'
<1>1. TypeOK /\ OneWriter /\ JudgeShape(r) /\ ProcessShape(p)
  BY DEF IInv
<1>2. /\ process[p].at = "rescore" /\ process[p].case = None /\ c \in Pending(r)
      /\ c \in Completed(Source[r]) \cap NeedsJudge
      /\ asked' = [asked EXCEPT ![r][c] = @ + 1]
      /\ process' = [process EXCEPT ![p].case = c]
      /\ row' = row /\ judged' = judged /\ aborts' = aborts
  BY DEF AskJudge, Rescoring, ledgerVars
<1>3. Kind[r] = "rescore"
  BY <1>1, <1>2 DEF ProcessShape
<1>4. /\ process'[p].at = "rescore" /\ process'[p].run = r /\ process'[p].case = c
      /\ Others(p)
  BY <1>1, <1>2, CaseUpdate
<1>5. Open(r) = {}
  BY <1>1, <1>2, OpenOfOwner, CommandsAssumption DEF AtJudge
<1>6. Open(r)' = {c}
  BY <1>1, <1>4, OpenAfter DEF AtJudge
<1>7. judged[r][c] = 0
  <2>1. row[r][c] = "pending"
    BY <1>2 DEF Pending, With
  <2>2. judged[r][c] \in {0, 1} /\ judged[r][c] /= 1
    BY <1>1, <2>1 DEF TypeOK, JudgeShape
  <2>. QED
    BY <2>2
<1>8. Due(r)' = Due(r) \cup {c} /\ c \notin Due(r)
  BY <1>2, <1>5, <1>6, <1>7 DEF Due
<1>9. Due(r) \subseteq Completed(Source[r]) \cap NeedsJudge /\ IsFiniteSet(Due(r))
  <2>1. Due(r) \subseteq Completed(Source[r]) \cap NeedsJudge
    BY <1>1, <1>3 DEF JudgeShape
  <2>. QED
    BY <2>1, CommandsAssumption, FS_Subset
<1>10. /\ Cardinality(Due(r)') = Cardinality(Due(r)) + 1
       /\ Cardinality(Due(r)) \in Nat
  BY <1>8, <1>9, FS_AddElement, FS_CardinalityType
<1>11. PICK f, g : f = asked[r] /\ g = asked'[r]
  OBVIOUS
<1>12. /\ f \in [Cases -> Nat] /\ g = [f EXCEPT ![c] = @ + 1]
  BY <1>1, <1>2, <1>11 DEF TypeOK
<1>13. SumFunctionOnSet(g, Cases) = SumFunctionOnSet(f, Cases) + 1
  <2>1. IsFiniteSet(Cases) /\ IsFiniteSet(Cases \ {c})
    BY CommandsAssumption, FS_RemoveElement
  <2>2. \A d \in Cases : f[d] \in Nat /\ g[d] \in Nat
    BY <1>12
  <2>3. /\ SumFunctionOnSet(f, Cases) = f[c] + SumFunctionOnSet(f, Cases \ {c})
        /\ SumFunctionOnSet(g, Cases) = g[c] + SumFunctionOnSet(g, Cases \ {c})
    BY <2>1, <2>2, SumRemove
  <2>4. \A d \in Cases \ {c} : f[d] = g[d]
    BY <1>12
  <2>5. SumFunctionOnSet(f, Cases \ {c}) = SumFunctionOnSet(g, Cases \ {c})
    BY <2>1, <2>4, SumAgrees
  <2>6. SumFunctionOnSet(f, Cases \ {c}) \in Nat
    BY <2>1, <2>2, SumNat
  <2>7. g[c] = f[c] + 1 /\ f[c] \in Nat
    BY <1>12
  <2>. QED
    BY <2>3, <2>5, <2>6, <2>7
<1>14. SumFunctionOnSet(f, Cases) <= Cardinality(Due(r)) + aborts
  BY <1>1, <1>3, <1>11 DEF JudgeShape
<1>15. SumFunctionOnSet(f, Cases) \in Nat /\ aborts \in Nat
  BY <1>1, <1>12, SumNat, CommandsAssumption DEF TypeOK
<1>16. SumFunctionOnSet(asked'[r], Cases) <= Cardinality(Due(r)') + aborts'
  BY <1>2, <1>10, <1>11, <1>13, <1>14, <1>15
<1>17. \A d \in Cases : judged'[r][d] <= asked'[r][d]
  <2>1. \A d \in Cases : judged[r][d] <= f[d] /\ judged[r][d] \in {0, 1}
    BY <1>1, <1>3, <1>11 DEF JudgeShape, TypeOK
  <2>2. \A d \in Cases : f[d] \in Nat /\ g[d] \in Nat /\ f[d] <= g[d]
    BY <1>12
  <2>. QED
    BY <1>2, <1>11, <2>1, <2>2
<1>18. \A d \in Open(r)' : asked'[r][d] > judged'[r][d]
  <2>1. g[c] = f[c] + 1 /\ f[c] \in Nat
    BY <1>12
  <2>. QED
    BY <1>2, <1>6, <1>7, <1>11, <2>1
<1>19. Completed(Source[r])' = Completed(Source[r])
  BY <1>2 DEF Completed, With
<1>20. Due(r)' \subseteq Completed(Source[r])' \cap NeedsJudge
  BY <1>2, <1>8, <1>9, <1>19
<1>21. \A d \in Cases : judged'[r][d] = 1 => row'[r][d] = "completed"
  BY <1>1, <1>2 DEF JudgeShape
<1>. QED
  BY <1>16, <1>17, <1>18, <1>20, <1>21 DEF JudgeShape

\* A verdict turns the case with the judge into a judged one.
LEMMA VerdictStep ==
  ASSUME IInv, RowsGrow, NEW p \in Processes, TakeVerdict(p),
         NEW r \in Runs, r = process[p].run
  PROVE  JudgeShape(r)'
<1>1. TypeOK /\ OneWriter /\ JudgeShape(r) /\ ProcessShape(p)
  BY DEF IInv
<1>2. PICK c : c = process[p].case
  OBVIOUS
<1>3. /\ process[p].at = "rescore" /\ c \in Cases /\ Kind[r] = "rescore"
      /\ row[r][c] = "pending"
      /\ row' = [row EXCEPT ![r][c] = "completed"]
      /\ judged' = [judged EXCEPT ![r][c] = 1]
      /\ process' = [process EXCEPT ![p].case = None, ![p].spent = @ + 1]
      /\ asked' = asked /\ aborts' = aborts
  BY <1>2, VerdictRow DEF TakeVerdict, history
<1>4. process'[p].case = None /\ Others(p)
  BY <1>1, <1>3, VerdictUpdate
<1>5. Open(r) = {c}
  BY <1>1, <1>2, <1>3, OpenOfOwner DEF AtJudge
<1>6. Open(r)' = {}
  BY <1>1, <1>4, OpenAfter, CommandsAssumption DEF AtJudge
<1>7. \A d \in Cases : judged'[r][d] = IF d = c THEN 1 ELSE judged[r][d]
  BY <1>1, <1>3 DEF TypeOK
<1>8. Due(r)' = Due(r)
  BY <1>3, <1>5, <1>6, <1>7 DEF Due
<1>9. asked[r][c] \in Nat /\ asked[r][c] > judged[r][c] /\ judged[r][c] \in {0, 1}
  BY <1>1, <1>3, <1>5 DEF JudgeShape, TypeOK
<1>10. \A d \in Cases : judged'[r][d] <= asked'[r][d]
  BY <1>1, <1>3, <1>7, <1>9 DEF JudgeShape
<1>11. \A d \in Cases : row[r][d] = "completed" => row'[r][d] = "completed"
  BY <1>1, <1>3 DEF TypeOK
<1>12. row'[r][c] = "completed"
  BY <1>1, <1>3 DEF TypeOK
<1>13. \A d \in Cases : judged'[r][d] = 1 => row'[r][d] = "completed"
  BY <1>1, <1>7, <1>11, <1>12 DEF JudgeShape
<1>14. Source[r] \in Runs
  BY <1>3, Derived
<1>15. Completed(Source[r]) \subseteq Completed(Source[r])'
  BY <1>14, GrownRows
<1>16. /\ Due(r) \subseteq Completed(Source[r]) \cap NeedsJudge
       /\ SumFunctionOnSet(asked[r], Cases) <= Cardinality(Due(r)) + aborts
  BY <1>1, <1>3 DEF JudgeShape
<1>. QED
  BY <1>3, <1>6, <1>8, <1>10, <1>13, <1>15, <1>16 DEF JudgeShape

\* A command that dies may lose the answer to one request.
LEMMA AbortStep ==
  ASSUME IInv, NEW p \in Processes, Abort(p), NEW r \in Runs
  PROVE  JudgeShape(r)'
<1>1. TypeOK /\ OneWriter /\ JudgeShape(r) /\ ProcessShape(p)
  BY DEF IInv
<1>2. /\ aborts' = aborts + 1 /\ process' = [process EXCEPT ![p] = Idle]
      /\ row' = row /\ judged' = judged /\ asked' = asked
  BY DEF Abort, ledgerVars, history
<1>3. process'[p] = Idle /\ Others(p)
  BY <1>1, <1>2, IdleUpdate
<1>4. PICK d : d = process[p].case
  OBVIOUS
<1>5. Open(r)' \subseteq Open(r) /\ Open(r) \subseteq Open(r)' \cup {d}
  BY <1>3, <1>4 DEF Open, Others, Idle
<1>6. \A c \in Cases : judged'[r][c] = 1 => row'[r][c] = "completed"
  BY <1>1, <1>2 DEF JudgeShape
<1>7. ASSUME Kind[r] = "rescore"
      PROVE  /\ Due(r)' \subseteq Completed(Source[r])' \cap NeedsJudge
             /\ \A c \in Cases : judged'[r][c] <= asked'[r][c]
             /\ \A c \in Open(r)' : asked'[r][c] > judged'[r][c]
             /\ SumFunctionOnSet(asked'[r], Cases) <= Cardinality(Due(r)') + aborts'
  <2>1. /\ Due(r) \subseteq Completed(Source[r]) \cap NeedsJudge
        /\ \A c \in Cases : judged[r][c] <= asked[r][c]
        /\ \A c \in Open(r) : asked[r][c] > judged[r][c]
        /\ SumFunctionOnSet(asked[r], Cases) <= Cardinality(Due(r)) + aborts
    BY <1>1, <1>7 DEF JudgeShape
  <2>2. Due(r)' \subseteq Due(r) /\ Due(r) \subseteq Due(r)' \cup {d}
    BY <1>2, <1>5 DEF Due
  <2>3. IsFiniteSet(Due(r)) /\ IsFiniteSet(Due(r)')
    BY <2>1, <2>2, CommandsAssumption, FS_Subset
  <2>4. IsFiniteSet(Due(r)' \cup {d}) /\ Cardinality(Due(r)' \cup {d}) <= Cardinality(Due(r)') + 1
    <3>1. Cardinality(Due(r)') \in Nat
      BY <2>3, FS_CardinalityType
    <3>2. CASE d \in Due(r)'
      <4>1. PICK D : D = Due(r)'
        OBVIOUS
      <4>2. D \cup {d} = D
        BY <3>2, <4>1
      <4>3. IsFiniteSet(D \cup {d}) /\ Cardinality(D \cup {d}) = Cardinality(D)
        BY <2>3, <4>1, <4>2
      <4>4. Cardinality(D) <= Cardinality(D) + 1
        BY <3>1, <4>1
      <4>. QED
        BY <4>1, <4>3, <4>4
    <3>3. CASE d \notin Due(r)'
      <4>1. /\ IsFiniteSet(Due(r)' \cup {d})
            /\ Cardinality(Due(r)' \cup {d}) = Cardinality(Due(r)') + 1
        BY <2>3, <3>3, FS_AddElement
      <4>. QED
        BY <3>1, <4>1
    <3>. QED
      BY <3>2, <3>3
  <2>5. Cardinality(Due(r)) <= Cardinality(Due(r)' \cup {d})
    BY <2>2, <2>4, FS_Subset
  <2>6. /\ Cardinality(Due(r)) \in Nat /\ Cardinality(Due(r)') \in Nat
        /\ Cardinality(Due(r)' \cup {d}) \in Nat
    BY <2>3, <2>4, FS_CardinalityType
  <2>7. SumFunctionOnSet(asked[r], Cases) \in Nat /\ aborts \in Nat
    <3>1. asked[r] \in [Cases -> Nat] /\ IsFiniteSet(Cases) /\ aborts \in Nat
      BY <1>1, CommandsAssumption DEF TypeOK
    <3>2. PICK f : f = asked[r]
      OBVIOUS
    <3>3. SumFunctionOnSet(f, Cases) \in Nat
      BY <3>1, <3>2, SumNat
    <3>. QED
      BY <3>1, <3>2, <3>3
  <2>8. SumFunctionOnSet(asked'[r], Cases) <= Cardinality(Due(r)') + aborts'
    BY <1>2, <2>1, <2>4, <2>5, <2>6, <2>7
  <2>9. Completed(Source[r])' = Completed(Source[r])
    BY <1>2 DEF Completed, With
  <2>. QED
    BY <1>2, <1>5, <2>1, <2>2, <2>8, <2>9
<1>. QED
  BY <1>6, <1>7 DEF JudgeShape

\* An execution has no case with the judge of a rescoring, but scores its answers.
LEMMA SettleStep ==
  ASSUME IInv, RowsGrow, NEW p \in Processes, Settle(p),
         NEW r \in Runs, r = process[p].run
  PROVE  JudgeShape(r)'
<1>1. TypeOK /\ JudgeShape(r) /\ ProcessShape(p)
  BY DEF IInv
<1>2. Kind[r] /= "rescore"
  BY <1>1 DEF Settle, ProcessShape
<1>3. PICK c \in Cases, s \in Terminal :
        /\ process[p].run \in Runs /\ row[process[p].run][c] = "pending"
        /\ row' = [row EXCEPT ![process[p].run][c] = s]
        /\ judged' = [judged EXCEPT ![process[p].run][c] =
                        IF s = "completed" /\ c \in NeedsJudge THEN 1 ELSE 0]
  BY SettledRow
<1>4. row'[r][c] = s /\ judged'[r][c] = IF s = "completed" /\ c \in NeedsJudge THEN 1 ELSE 0
  BY <1>1, <1>3 DEF TypeOK
<1>5. \A d \in Cases \ {c} : row'[r][d] = row[r][d] /\ judged'[r][d] = judged[r][d]
  BY <1>1, <1>3 DEF TypeOK
<1>6. \A d \in Cases : judged'[r][d] = 1 => row'[r][d] = "completed"
  BY <1>1, <1>4, <1>5 DEF JudgeShape
<1>. QED
  BY <1>2, <1>6 DEF JudgeShape

\* The other steps ask nothing, judge nothing and lose nothing.
LEMMA QuietStep ==
  ASSUME IInv, NEW p \in Processes,
         \/ Attempt(p) \/ Close(p) \/ Evidence(p) \/ Combine(p)
         \/ \E c \in Cases : CopyRow(p, c),
         NEW r \in Runs
  PROVE  /\ aborts' = aborts /\ Open(r)' = Open(r)
         /\ judged' = judged /\ asked' = asked
<1>1. TypeOK /\ ProcessShape(p) /\ Others(p)
  BY WorkProcess DEF IInv, WorkStep
<1>2. aborts' = aborts /\ judged' = judged /\ asked' = asked
  BY DEF Attempt, Close, Evidence, Combine, CopyRow, ledgerVars, history
<1>3. ASSUME process[p].at /= "rescore" \/ process[p].case = None,
             process'[p].at /= "rescore" \/ process'[p].case = None
      PROVE  Open(r)' = Open(r)
  <2>1. \A c \in Cases : ~AtJudge(p, r, c) /\ ~AtJudge(p, r, c)'
    BY <1>3, CommandsAssumption DEF AtJudge
  <2>. QED
    BY <1>1, <2>1, OpenKept
<1>4. CASE Attempt(p)
  <2>1. PICK c \in Cases : process' = [process EXCEPT ![p].case = c]
    BY <1>4, AttemptedCase
  <2>2. process'[p].at = process[p].at
    BY <1>1, <2>1, CaseUpdate
  <2>3. Open(r)' = Open(r)
    BY <1>3, <1>4, <2>2 DEF Attempt
  <2>. QED
    BY <1>2, <2>3
<1>5. CASE Close(p)
  <2>1. process'[p].at = "evidence"
    BY <1>1, <1>5, AtUpdate DEF Close
  <2>2. process[p].at /= "rescore" \/ process[p].case = None
    BY <1>1, <1>5 DEF Close, ProcessShape
  <2>3. Open(r)' = Open(r)
    BY <1>3, <2>1, <2>2
  <2>. QED
    BY <1>2, <2>3
<1>6. CASE Evidence(p)
  <2>1. process'[p].at \in {"combine", "idle"}
    <3>1. CASE Kind[process[p].run] = "recovery"
      <4>1. process' = [process EXCEPT ![p].at = "combine"]
        BY <1>6, <3>1 DEF Evidence
      <4>. QED
        BY <1>1, <4>1, AtUpdate
    <3>2. CASE Kind[process[p].run] /= "recovery"
      <4>1. process' = [process EXCEPT ![p] = Idle]
        BY <1>6, <3>2 DEF Evidence
      <4>2. process'[p] = Idle
        BY <1>1, <4>1, IdleUpdate
      <4>. QED
        BY <4>2 DEF Idle
    <3>. QED
      BY <3>1, <3>2
  <2>2. Open(r)' = Open(r)
    BY <1>3, <1>6, <2>1 DEF Evidence
  <2>. QED
    BY <1>2, <2>2
<1>7. CASE Combine(p)
  <2>1. process'[p] = Idle
    BY <1>1, <1>7, IdleUpdate DEF Combine
  <2>2. process'[p].at = "idle" /\ process[p].at = "combine"
    BY <1>7, <2>1 DEF Combine, Idle
  <2>3. Open(r)' = Open(r)
    BY <1>3, <2>2
  <2>. QED
    BY <1>2, <2>3
<1>8. ASSUME NEW c \in Cases, CopyRow(p, c)
      PROVE  Open(r)' = Open(r)
  BY <1>8 DEF CopyRow, Open
<1>. QED
  BY <1>2, <1>4, <1>5, <1>6, <1>7, <1>8

LEMMA NextJudgeShape ==
  ASSUME IInv, [Next]_vars, NEW r \in Runs
  PROVE  JudgeShape(r)'
<1>1. RowsGrow /\ TypeOK
  BY RowsGrowStep DEF IInv
<1>2. ASSUME aborts' = aborts, Open(r)' = Open(r), judged' = judged, asked' = asked
      PROVE  JudgeShape(r)'
  BY <1>1, <1>2, KeptJudgeShape
<1>3. CASE UNCHANGED vars
  <2>1. aborts' = aborts /\ judged' = judged /\ asked' = asked /\ process' = process
    BY <1>3 DEF vars, ledgerVars, history
  <2>2. Open(r)' = Open(r)
    BY <2>1 DEF Open
  <2>. QED
    BY <1>2, <2>1, <2>2
<1>4. ASSUME NEW p \in Processes, NEW q \in Runs,
             Run(p, q) \/ Recover(p, q) \/ Rescore(p, q)
      PROVE  JudgeShape(r)'
  <2>1. PICK at \in {"execute", "rescore"} :
          /\ Start(p, q, at)
          /\ UNCHANGED <<closed, attempts, judged, evidence, combined, asked, aborts>>
    BY <1>4, StartFacts
  <2>2. process'[p].case = None /\ Others(p) /\ process[p] = Idle
    BY <1>1, <2>1, StartedProcess DEF Start
  <2>3. \A c \in Cases : ~AtJudge(p, r, c) /\ ~AtJudge(p, r, c)'
    BY <2>2, CommandsAssumption DEF AtJudge, Idle
  <2>4. Open(r)' = Open(r)
    BY <2>2, <2>3, OpenKept
  <2>. QED
    BY <1>2, <2>1, <2>4
<1>5. ASSUME NEW p \in Processes, WorkStep(p)
      PROVE  JudgeShape(r)'
  <2>1. ASSUME r /= process[p].run, aborts' = aborts, asked'[r] = asked[r]
        PROVE  JudgeShape(r)'
    <3>1. Others(p) /\ (process'[p] = Idle \/ process'[p].run = process[p].run)
      BY <1>5, WorkProcess
    <3>2. \A c \in Cases : ~AtJudge(p, r, c) /\ ~AtJudge(p, r, c)'
      BY <2>1, <3>1, CommandsAssumption DEF AtJudge, Idle
    <3>3. Open(r)' = Open(r)
      BY <3>1, <3>2, OpenKept
    <3>4. \A c \in Cases : judged'[r][c] = judged[r][c]
      BY <1>5, <2>1, OwnLedger
    <3>. QED
      BY <1>1, <2>1, <3>3, <3>4, KeptJudgeShape
  <2>2. CASE Abort(p)
    BY <2>2, AbortStep
  <2>3. CASE Settle(p)
    <3>1. aborts' = aborts /\ asked' = asked
      BY <2>3 DEF Settle, history
    <3>. QED
      BY <1>1, <2>1, <2>3, <3>1, SettleStep
  <2>4. CASE TakeVerdict(p)
    <3>1. aborts' = aborts /\ asked' = asked
      BY <2>4 DEF TakeVerdict, history
    <3>. QED
      BY <1>1, <2>1, <2>4, <3>1, VerdictStep
  <2>5. ASSUME NEW c \in Cases, AskJudge(p, c)
        PROVE  JudgeShape(r)'
    <3>1. CASE r = process[p].run
      BY <2>5, <3>1, AskStep
    <3>2. CASE r /= process[p].run
      <4>1. aborts' = aborts /\ asked'[r] = asked[r]
        BY <1>1, <2>5, <3>2 DEF AskJudge, TypeOK
      <4>. QED
        BY <2>1, <3>2, <4>1
    <3>. QED
      BY <3>1, <3>2
  <2>6. CASE Attempt(p) \/ Close(p) \/ Evidence(p) \/ Combine(p) \/ \E c \in Cases : CopyRow(p, c)
    BY <1>2, <2>6, QuietStep
  <2>. QED
    BY <1>5, <2>2, <2>3, <2>4, <2>5, <2>6 DEF WorkStep
<1>. QED
  BY <1>3, <1>4, <1>5, NextSteps

-----------------------------------------------------------------------------
(***************************************************************************)
(* The invariant and what follows from it.                                 *)
(***************************************************************************)

LEMMA InvInit == Init => IInv
<1>. SUFFICES ASSUME Init PROVE IInv
  OBVIOUS
<1>1. TypeOK
  BY TypesInit
<1>2. \A p \in Processes : process[p] = Idle
  BY DEF Init
<1>3. OneWriter /\ \A p \in Processes : ProcessShape(p)
  BY <1>2 DEF OneWriter, ProcessShape, Idle
<1>4. ASSUME NEW r \in Runs
      PROVE  RowsShape(r) /\ JudgeShape(r) /\ EvidenceShape(r) /\ WorkShape(r)
  <2>1. /\ r \notin closed /\ evidence[r] = None /\ combined[r] = None /\ preserved[r] = {}
        /\ aborts = 0
        /\ \A c \in Cases : /\ row[r][c] = "absent" /\ attempts[r][c] = 0
                            /\ judged[r][c] = 0 /\ asked[r][c] = 0
    BY <1>4 DEF Init
  <2>2. RowsOf(r) = {} /\ Untaken(r)
    BY <1>2, <2>1, CommandsAssumption DEF RowsOf, With, Terminal, Untaken, Idle
  <2>3. RowsShape(r)
    BY <2>1, <2>2 DEF RowsShape, Begun, Exists
  <2>4. Open(r) = {} /\ Due(r) = {}
    BY <1>2, <2>1 DEF Open, Due, Idle
  <2>5. SumFunctionOnSet(asked[r], Cases) <= Cardinality(Due(r)) + aborts
    <3>1. PICK f : f = asked[r]
      OBVIOUS
    <3>2. f = [c \in Cases |-> 0] /\ IsFiniteSet(Cases)
      BY <3>1, CommandsAssumption DEF Init
    <3>3. SumFunctionOnSet(f, Cases) = 0
      BY <3>2, SumZero
    <3>4. Cardinality(Due(r)) = 0
      BY <2>4, FS_EmptySet
    <3>. QED
      BY <2>1, <3>1, <3>3, <3>4
  <2>6. JudgeShape(r)
    BY <2>1, <2>4, <2>5 DEF JudgeShape
  <2>. QED
    BY <2>1, <2>3, <2>6 DEF EvidenceShape, WorkShape
<1>. QED
  BY <1>1, <1>3, <1>4 DEF IInv

LEMMA InvStep == IInv /\ [Next]_vars => IInv'
<1>. SUFFICES ASSUME IInv, [Next]_vars PROVE IInv'
  OBVIOUS
<1>1. TypeOK'
  BY TypesStep DEF IInv
<1>. QED
  BY <1>1, NextRowsShape, NextJudgeShape, NextEvidenceShape, NextWorkShape DEF IInv

\* Whatever commands run, die and run again over the ledgers, the invariant holds.
THEOREM CommandsInvariant == Spec => []IInv
<1>1. Init => IInv
  BY InvInit
<1>2. IInv /\ [Next]_vars => IInv'
  BY InvStep
<1>. QED
  BY <1>1, <1>2, PTL DEF Spec

\* Rows, counters, summaries and commands have their types.
THEOREM CommandsTypeCorrect == Spec => []TypeOK
<1>1. IInv => TypeOK
  BY DEF IInv
<1>. QED
  BY <1>1, CommandsInvariant, PTL

\* A rescoring that dies any number of times asks the judge once for each answer of
\* its plan, and once more for each death.
THEOREM JudgeRequestsStayInPlan == Spec => []JudgedWithinPlan
<1>1. ASSUME IInv PROVE JudgedWithinPlan
  <2>1. ASSUME NEW r \in Runs, Kind[r] = "rescore"
        PROVE  /\ SumFunctionOnSet(asked[r], Cases) <= PlannedJudgments(Source[r]) + aborts
               /\ SumFunctionOnSet(judged[r], Cases) <= SumFunctionOnSet(asked[r], Cases)
    <3>1. /\ Due(r) \subseteq Completed(Source[r]) \cap NeedsJudge
          /\ \A c \in Cases : judged[r][c] <= asked[r][c]
          /\ SumFunctionOnSet(asked[r], Cases) <= Cardinality(Due(r)) + aborts
      BY <1>1, <2>1 DEF IInv, JudgeShape
    <3>2. asked[r] \in [Cases -> Nat] /\ judged[r] \in [Cases -> {0, 1}] /\ aborts \in Nat
      BY <1>1, CommandsAssumption DEF IInv, TypeOK
    <3>3. IsFiniteSet(Cases) /\ IsFiniteSet(Completed(Source[r]) \cap NeedsJudge)
      BY CommandsAssumption, FS_Subset
    <3>4. /\ IsFiniteSet(Due(r))
          /\ Cardinality(Due(r)) <= Cardinality(Completed(Source[r]) \cap NeedsJudge)
      BY <3>1, <3>3, FS_Subset
    <3>5. Cardinality(Due(r)) \in Nat /\ Cardinality(Completed(Source[r]) \cap NeedsJudge) \in Nat
      BY <3>3, <3>4, FS_CardinalityType
    <3>6. PICK f, g : f = asked[r] /\ g = judged[r]
      OBVIOUS
    <3>7. SumFunctionOnSet(f, Cases) \in Nat
      BY <3>2, <3>3, <3>6, SumNat
    <3>8. \A c \in Cases : g[c] \in Nat /\ f[c] \in Nat /\ g[c] <= f[c]
      BY <3>1, <3>2, <3>6
    <3>9. SumFunctionOnSet(g, Cases) <= SumFunctionOnSet(f, Cases)
      BY <3>3, <3>8, SumMonotone
    <3>. QED
      BY <3>1, <3>2, <3>4, <3>5, <3>6, <3>7, <3>9 DEF PlannedJudgments
  <2>. QED
    BY <2>1 DEF JudgedWithinPlan
<1>. QED
  BY <1>1, CommandsInvariant, PTL

\* Whatever is derived from what, publishable evidence has every case of its run
\* completed and is no recovery's own, and combined evidence that is publishable has
\* every frozen case completed (reporting.py:31-37, recovery.py:131-147).
THEOREM PublicationsCoverTheirRows ==
  Spec => [](\A r \in Runs :
               /\ evidence[r] /= None /\ evidence[r].publishable =>
                    Completed(r) = RowsOf(r) /\ Kind[r] /= "recovery"
               /\ combined[r] /= None /\ combined[r].publishable =>
                    Completed(r) \cup Completed(Source[r]) = Cases)
<1>1. IInv => \A r \in Runs :
                /\ evidence[r] /= None /\ evidence[r].publishable =>
                     Completed(r) = RowsOf(r) /\ Kind[r] /= "recovery"
                /\ combined[r] /= None /\ combined[r].publishable =>
                     Completed(r) \cup Completed(Source[r]) = Cases
  BY DEF IInv, EvidenceShape
<1>. QED
  BY <1>1, CommandsInvariant, PTL

\* Unless a recovery subset is rescored, what is marked publishable covers every
\* frozen case.
THEOREM PublicationsAreWhole ==
  ASSUME SubsetsAreNotRescored
  PROVE  Spec => []PublishedIsWhole
<1>1. ASSUME IInv PROVE PublishedIsWhole
  <2>1. ASSUME NEW r \in Runs, evidence[r] /= None, evidence[r].publishable
        PROVE  Completed(r) = Cases
    <3>1. r \in closed /\ Completed(r) = RowsOf(r) /\ Kind[r] \in {"run", "rescore"}
      BY <1>1, <2>1, Derived DEF IInv, EvidenceShape
    <3>2. RowsOf(r) = Cases
      BY <1>1, <3>1 DEF IInv, RowsShape, Begun
    <3>. QED
      BY <3>1, <3>2
  <2>2. ASSUME NEW r \in Runs, combined[r] /= None, combined[r].publishable
        PROVE  Completed(r) \cup Completed(Source[r]) = Cases
    BY <1>1, <2>2 DEF IInv, EvidenceShape
  <2>. QED
    BY <2>1, <2>2 DEF PublishedIsWhole
<1>. QED
  BY <1>1, CommandsInvariant, PTL

\* A recovery leaves alone what its source had completed, and counts it.
THEOREM RecoveriesKeepWork == Spec => []RecoveryKeepsWork
<1>1. ASSUME IInv PROVE RecoveryKeepsWork
  <2>1. ASSUME NEW r \in Runs, NEW c \in preserved[r]
        PROVE  attempts[r][c] = 0
    <3>1. Kind[r] = "recovery" /\ c \in Completed(Source[r]) \ Selected[r]
      BY <1>1, <2>1 DEF IInv, WorkShape
    <3>2. c \in Cases
      BY <3>1 DEF Completed, With
    <3>3. RowsShape(r)
      BY <1>1 DEF IInv
    <3>4. c \notin RowsOf(r)
      <4>1. Begun(r) => RowsOf(r) = Selected[r]
        BY <3>1, <3>3 DEF RowsShape
      <4>2. ~Begun(r) => RowsOf(r) = {}
        BY DEF Begun, Exists
      <4>. QED
        BY <3>1, <4>1, <4>2
    <3>. QED
      BY <3>2, <3>3, <3>4 DEF RowsShape
  <2>2. ASSUME NEW r \in Runs, combined[r] /= None
        PROVE  preserved[r] \subseteq combined[r].completed
    <3>1. Completed(Source[r]) \ Selected[r] \subseteq combined[r].completed
      BY <1>1, <2>2 DEF IInv, EvidenceShape
    <3>2. preserved[r] \subseteq Completed(Source[r]) \ Selected[r]
      BY <1>1 DEF IInv, WorkShape
    <3>. QED
      BY <3>1, <3>2
  <2>. QED
    BY <2>1, <2>2 DEF RecoveryKeepsWork
<1>. QED
  BY <1>1, CommandsInvariant, PTL

=============================================================================
