---------------------------- MODULE MoneyProofs ----------------------------
(***************************************************************************)
(* Theorems about Money, and so about Relay and Billing, which it joins:   *)
(* for every finite set of requests, their bodies, every relay             *)
(* configuration, every set of episodes and every charge of the platform.  *)
(***************************************************************************)
EXTENDS Money, SumLemmas, FiniteSetTheorems, TLAPS

(***************************************************************************)
(* The inductive invariant, in named parts: three of the relay, three of   *)
(* the invoices.                                                           *)
(***************************************************************************)

\* The ledger file holds the whole state of the relay's ledger, always.
FileShape == disk = [reserved |-> reserved, requests |-> record]

\* A request has a record once it was sent; one that awaits its response is
\* pending, and one shown as received while its response is still being read
\* is a stream known to be complete.
RequestShape ==
  \A r \in Requests :
    /\ Sent(r) <=> Recorded(r)
    /\ pc[r] = "fetch" => record[r].status = "pending"
    /\ pc[r] = "reading" /\ record[r].status = "received" =>
         response[r].kind = "stream" /\ response[r].completed

RelayInv ==
  /\ RelayTypeOK
  /\ FileShape
  /\ RequestShape
  /\ ReservedWithinBudget

\* What an episode's file has of its requests, if there is one.
RequestsOf(e) == IF e = Tested THEN paid ELSE Earlier[e]

\* The books of an over run: of each episode all the requests it sent, or no
\* file; a receipt is what the platform charges, an episode's cost the sum of
\* its receipts, the run's cost the sum over all requests.
Accounted(x) ==
  /\ x \in RunType
  /\ \A e \in Episodes : x.requests[e] \in {None, RequestsOf(e)}
  /\ \A q \in Receipts : x.billed[q] \in {None, Charge[q]}
  /\ \A e \in Episodes : x.episodeCost[e] /= None =>
       /\ x.requests[e] /= None
       /\ x.episodeCost[e] = Sum(Charge, x.requests[e])
  /\ x.cost /= None => x.cost = Sum(Charge, paid \cup (Receipts \ Requests))

\* The run in memory is the stored one; it is untouched, or over and accounted.
RunShape ==
  /\ stored = run
  /\ paid \subseteq Requests
  /\ IF run.over THEN Accounted(run) ELSE run = NewRun
  /\ evidence \in [DOMAIN Earlier -> {None} \cup SUBSET Receipts]
  /\ \A e \in DOMAIN Earlier : evidence[e] \in {None, Earlier[e]}

\* The lock admits one caller, which asks for a receipt of an over run.
LockShape ==
  /\ \A c, d \in Callers : task[c] \in Holding /\ task[d] \in Holding => c = d
  /\ \A c \in Callers : task[c] \in Holding => run.over /\ asked \in Receipts

BillingTypes ==
  /\ task \in [Callers -> {"idle", "lock", "dead"} \cup Holding]
  /\ asked \in Receipts \cup {None}
  /\ todo \subseteq Receipts
  /\ refreshed \in BOOLEAN
  /\ created \in 0 .. MaxCreated /\ seen \in 0 .. created
  /\ crashes \in 0 .. MaxCrashes

BillingInv ==
  /\ BillingTypes
  /\ RunShape
  /\ LockShape

IInv == RelayInv /\ BillingInv

-----------------------------------------------------------------------------
(***************************************************************************)
(* The relay.                                                              *)
(***************************************************************************)

Entry ==
  [status : Open \cup Final, reserved : Nat, id : BOOLEAN, usage : BOOLEAN,
   clientError : Signals \cup {"client_write_failed"}]

ResponseType ==
  [kind : Kinds, parsed : 0 .. Len(Wire), completed : BOOLEAN]

\* A record is an entry of the ledger, or absent.
LEMMA EntryIsRecord == NoRecord \notin Entry
<1>1. ASSUME NEW x \in Entry PROVE "reserved" \in DOMAIN x
  BY <1>1 DEF Entry
<1>2. "reserved" \notin DOMAIN NoRecord
  BY DEF NoRecord
<1>. QED
  BY <1>1, <1>2

\* The highest cost of a request that the policy admits is a number.
LEMMA UpperMicrosNat ==
  ASSUME NEW r \in Requests, ~Refused(Body[r])
  PROVE  UpperMicros(Body[r]) \in Nat
<1>. DEFINE b == Body[r]
<1>1. b \in BodyType /\ Config \in ConfigType
  BY RelayAssumption
<1>2. /\ b.bytes \in Nat /\ b.bytesWithoutTools \in Nat
      /\ Config.maxOutput \in Nat /\ Config.inputRate \in Nat
      /\ Config.outputRate \in Nat /\ b.output \in Int \cup {Absent}
  BY <1>1 DEF BodyType, ConfigType
<1>3. RequestedOutput(b) \in Nat
  BY <1>2 DEF Refused, RequestedOutput
<1>4. OutputBound(b) \in Nat
  <2>. DEFINE m == RequestedOutput(b)
              n == Config.maxOutput
  <2>1. \E x \in {m, n} : \A y \in {m, n} : x <= y
    BY <1>2, <1>3
  <2>2. Min({m, n}) \in {m, n}
    BY <2>1 DEF Min
  <2>. QED
    BY <1>2, <1>3, <2>2 DEF OutputBound
<1>. HIDE DEF b
<1>5. \A x, y \in Nat : x * y \in Nat
  OBVIOUS
<1>6. ((IF Config.allowTools THEN b.bytes ELSE b.bytesWithoutTools) + 32768)
         * Config.inputRate \in Nat
  BY <1>2, <1>5
<1>7. OutputBound(b) * Config.outputRate \in Nat
  BY <1>2, <1>4, <1>5
<1>. QED
  BY <1>6, <1>7 DEF UpperMicros, b

\* What was reserved is a function of the requests and their reservations.
LEMMA SameReservations ==
  ASSUME reserved' = reserved, \A q \in Requests : Sent(q)' <=> Sent(q),
         \A q \in Requests : Sent(q) =>
           record'[q].reserved = record[q].reserved
  PROVE  ReservedWithinBudget => ReservedWithinBudget'
<1>. DEFINE S == {q \in Requests : Sent(q)}
<1>1. {q \in Requests : Sent(q)'} = S
  OBVIOUS
<1>2. [q \in S |-> record'[q].reserved] = [q \in S |-> record[q].reserved]
  OBVIOUS
<1>. QED
  BY <1>1, <1>2 DEF ReservedWithinBudget, ReservedBy

\* A step that changes the entry of one sent request, but not what it reserved,
\* keeps the relay's invariant.
LEMMA AnswerStep ==
  ASSUME RelayInv, NEW r \in Requests, Sent(r),
         NEW entry \in Entry, entry.reserved = record[r].reserved,
         NEW to \in {"reading", "done"}, NEW resp \in ResponseType,
         record' = [record EXCEPT ![r] = entry],
         pc' = [pc EXCEPT ![r] = to],
         response' = [response EXCEPT ![r] = resp],
         to = "reading" /\ entry.status = "received" =>
           resp.kind = "stream" /\ resp.completed,
         UNCHANGED <<reserved, up, signal>>, FileShape'
  PROVE  RelayInv'
<1>. USE DEF RelayInv, RelayTypeOK
<1>1. RelayTypeOK'
  BY DEF FileShape, Entry, ResponseType
<1>2. \A q \in Requests : Sent(q)' <=> Sent(q)
  BY DEF Sent
<1>3. RequestShape'
  BY <1>2, EntryIsRecord DEF RequestShape, Recorded, Sent
<1>4. ReservedWithinBudget'
  BY <1>2, SameReservations DEF RequestShape, Recorded
<1>. QED
  BY <1>1, <1>3, <1>4

\* A request is admitted with its reservation, its record and the file.
LEMMA ReserveStep ==
  ASSUME RelayInv, NEW r \in Requests, Reserve(r)
  PROVE  RelayInv'
<1>. DEFINE cost == UpperMicros(Body[r])
            S == {q \in Requests : Sent(q)}
            f == [q \in S \cup {r} |-> record'[q].reserved]
            h == [q \in S |-> record[q].reserved]
<1>. USE DEF RelayInv, RelayTypeOK
<1>1. cost \in Nat
  BY UpperMicrosNat DEF Reserve
<1>. HIDE DEF cost
<1>2. /\ pc' = [pc EXCEPT ![r] = "fetch"] /\ pc[r] = "body"
      /\ reserved' = reserved + cost /\ reserved + cost <= Config.budget
      /\ record' = [record EXCEPT ![r] =
           [status |-> "pending", reserved |-> cost, id |-> FALSE,
            usage |-> FALSE, clientError |-> Absent]]
      /\ UNCHANGED <<up, signal, response>>
      /\ disk' = [reserved |-> reserved', requests |-> record']
  BY DEF Reserve, Save, Affordable, cost
<1>3. record'[r] \in Entry /\ record'[r].status = "pending"
      /\ record'[r].reserved = cost
  BY <1>1, <1>2 DEF Entry, Open, Signals
<1>4. RelayTypeOK' /\ FileShape'
  BY <1>1, <1>2, <1>3 DEF FileShape, Entry
<1>5. RequestShape'
  BY <1>2, <1>3, EntryIsRecord DEF RequestShape, Recorded, Sent
<1>6. ReservedWithinBudget'
  <2>1. r \notin S /\ S' = S \cup {r} /\ IsFiniteSet(S)
    BY <1>2, RelayAssumption, FS_Subset DEF Sent
  <2>2. \A q \in S : record'[q] = record[q] /\ record[q].reserved \in Nat
    <3>1. \A q \in S : Recorded(q)
      BY DEF RequestShape
    <3>. QED
      BY <1>2, <2>1, <3>1 DEF Recorded
  <2>3. \A q \in S \cup {r} : f[q] \in Nat
    BY <1>1, <1>3, <2>2
  <2>4. SumFunctionOnSet(f, S \cup {r}) = f[r] + SumFunctionOnSet(f, S)
    BY <2>1, <2>3, SumAdd
  <2>5. SumFunctionOnSet(f, S) = SumFunctionOnSet(h, S)
    <3>1. \A q \in S : f[q] = h[q]
      BY <2>2
    <3>. HIDE DEF f, h
    <3>. QED
      BY <2>1, <3>1, SumAgrees
  <2>6. reserved = SumFunctionOnSet(h, S)
    BY DEF ReservedWithinBudget, ReservedBy
  <2>7. f[r] = cost
    BY <1>3
  <2>8. reserved' = SumFunctionOnSet(f, S \cup {r})
    BY <1>1, <1>2, <2>4, <2>5, <2>6, <2>7
  <2>9. {q \in Requests : Sent(q)'} = S \cup {r}
    BY <2>1
  <2>. QED
    BY <1>2, <2>8, <2>9 DEF ReservedWithinBudget, ReservedBy
<1>. QED
  BY <1>4, <1>5, <1>6

\* Every other step of the relay answers a sent request or leaves the ledger.
LEMMA RelayStepInv ==
  ASSUME RelayInv, NEW r \in Requests, RelayStep(r)
  PROVE  RelayInv'
<1>0. /\ pc \in [Requests -> {"body", "fetch", "reading", "refused", "done"}]
      /\ signal \in [Requests -> Signals]
  BY DEF RelayInv, RelayTypeOK
<1>1. ASSUME UNCHANGED <<reserved, record, disk, response>>,
             pc' \in [Requests -> {"body", "fetch", "reading", "refused", "done"}],
             signal' \in [Requests -> Signals], up' = up,
             \A q \in Requests :
               pc'[q] = pc[q] \/ (pc[q] = "body" /\ pc'[q] = "refused")
      PROVE  RelayInv'
  <2>1. \A q \in Requests : Sent(q)' <=> Sent(q)
    BY <1>1 DEF Sent
  <2>2. ReservedWithinBudget'
    BY <1>1, <2>1, SameReservations DEF RelayInv
  <2>. QED
    BY <1>1, <2>1, <2>2
       DEF RelayInv, RelayTypeOK, FileShape, RequestShape, Recorded
<1>2. CASE Refuse(r)
  <2>1. /\ UNCHANGED <<reserved, record, disk, up, signal, response>>
        /\ pc[r] = "body" /\ pc' = [pc EXCEPT ![r] = "refused"]
    BY <1>2 DEF Refuse
  <2>2. pc' \in [Requests -> {"body", "fetch", "reading", "refused", "done"}]
    BY <1>0, <2>1
  <2>3. ASSUME NEW q \in Requests
        PROVE  pc'[q] = pc[q] \/ (pc[q] = "body" /\ pc'[q] = "refused")
    BY <1>0, <2>1
  <2>. QED
    BY <1>0, <1>1, <2>1, <2>2, <2>3
<1>3. CASE HangUp(r) \/ Deadline(r)
  <2>1. /\ UNCHANGED <<pc, reserved, record, disk, up, response>>
        /\ \E s \in Signals : signal' = [signal EXCEPT ![r] = s]
    BY <1>3 DEF HangUp, Deadline, Signals
  <2>2. signal' \in [Requests -> Signals]
    BY <1>0, <2>1
  <2>3. /\ pc' \in [Requests -> {"body", "fetch", "reading", "refused", "done"}]
        /\ \A q \in Requests : pc'[q] = pc[q]
    BY <1>0, <2>1
  <2>. QED
    BY <1>1, <2>1, <2>2, <2>3
<1>. USE DEF RelayInv, RelayTypeOK, Save, FileShape
<1>4. ASSUME pc[r] \in {"fetch", "reading"}
      PROVE  /\ Sent(r) /\ record[r] \in Entry /\ response[r] \in ResponseType
             /\ pc[r] = "fetch" => record[r].status = "pending"
             /\ pc[r] = "reading" /\ record[r].status = "received" =>
                  response[r].kind = "stream" /\ response[r].completed
             /\ pc = [pc EXCEPT ![r] = pc[r]]
             /\ record = [record EXCEPT ![r] = record[r]]
             /\ response = [response EXCEPT ![r] = response[r]]
  BY <1>4 DEF Sent, RequestShape, Recorded, Entry, ResponseType
<1>5. CASE Headers(r)
  <2>1. PICK id \in BOOLEAN, kind \in Kinds \ {Absent} :
          /\ record' = [record EXCEPT ![r].status = "receiving", ![r].id = id]
          /\ response' = [response EXCEPT ![r].kind = kind]
    BY <1>5 DEF Headers
  <2>. DEFINE entry == [record[r] EXCEPT !.status = "receiving", !.id = id]
              resp  == [response[r] EXCEPT !.kind = kind]
  <2>2. /\ entry \in Entry /\ entry.reserved = record[r].reserved
        /\ entry.status = "receiving" /\ resp \in ResponseType
    BY <1>4, <1>5 DEF Headers, Entry, Open, ResponseType
  <2>3. record' = [record EXCEPT ![r] = entry]
        /\ response' = [response EXCEPT ![r] = resp]
    BY <2>1
  <2>. HIDE DEF entry, resp
  <2>. QED
    BY <1>4, <1>5, <2>2, <2>3, AnswerStep DEF Headers
<1>6. ASSUME NEW n \in 0 .. Len(Wire)
      PROVE  pc[r] = "reading" =>
               /\ UpdateUsage(r, n) \in Entry
               /\ UpdateUsage(r, n).reserved = record[r].reserved
               /\ UpdateUsage(r, n).status = "received" =>
                    (response[r].kind = "stream" /\ response[r].completed)
                      \/ SawTerminalEvent(Parsed(n))
  BY <1>4 DEF UpdateUsage, Entry, Final
<1>7. CASE Chunk(r)
  <2>1. PICK n \in response[r].parsed + 1 .. Len(Wire) :
          LET changed == \E i \in response[r].parsed + 1 .. n : HasUsage(Wire[i])
          IN  /\ response' = [response EXCEPT ![r].parsed = n,
                   ![r].completed = IF changed THEN Completes(r, n) ELSE @]
              /\ record' = IF changed
                             THEN [record EXCEPT ![r] = UpdateUsage(r, n)]
                             ELSE record
              /\ IF changed THEN Save ELSE UNCHANGED disk
    BY <1>7 DEF Chunk
  <2>. DEFINE changed == \E i \in response[r].parsed + 1 .. n : HasUsage(Wire[i])
              completed == IF changed THEN Completes(r, n)
                                      ELSE response[r].completed
              entry == IF changed THEN UpdateUsage(r, n) ELSE record[r]
              resp  == [response[r] EXCEPT !.parsed = n, !.completed = completed]
  <2>2. pc[r] = "reading" /\ response[r].kind = "stream" /\ pc' = pc
        /\ UNCHANGED <<reserved, up, signal>>
    BY <1>7 DEF Chunk
  <2>3. n \in 0 .. Len(Wire)
    BY <1>4, <2>2 DEF ResponseType
  <2>4. completed \in BOOLEAN
    BY <1>4, <2>2 DEF Completes, SawTerminalEvent, ResponseType
  <2>5. /\ entry \in Entry /\ entry.reserved = record[r].reserved
        /\ entry.status = "received" => completed
    BY <1>4, <1>6, <2>2, <2>3 DEF Completes
  <2>6. resp \in ResponseType /\ resp.kind = "stream" /\ resp.completed = completed
    BY <1>4, <2>2, <2>3, <2>4 DEF ResponseType
  <2>7. record' = [record EXCEPT ![r] = entry]
        /\ response' = [response EXCEPT ![r] = resp]
        /\ disk' = [reserved |-> reserved', requests |-> record']
    <3>1. CASE changed
      BY <2>1, <2>2, <3>1
    <3>2. CASE ~changed
      <4>1. record' = record /\ disk' = disk
            /\ response' = [response EXCEPT ![r] = resp]
        BY <2>1, <3>2
      <4>. QED
        BY <1>4, <2>2, <3>2, <4>1
    <3>. QED
      BY <3>1, <3>2
  <2>. HIDE DEF entry, resp, completed, changed
  <2>. QED
    BY <1>4, <2>2, <2>5, <2>6, <2>7, AnswerStep
<1>8. CASE End(r)
  <2>. DEFINE ok == response[r].kind # "error"
              stream == response[r].kind = "stream"
  <2>1. pc[r] = "reading" /\ pc' = [pc EXCEPT ![r] = "done"]
        /\ UNCHANGED <<reserved, up, signal>> /\ FileShape'
    BY <1>8 DEF End
  <2>2. PICK n \in response[r].parsed .. Len(Wire) :
          LET completed == IF stream THEN Completes(r, n) ELSE ok
          IN  /\ response' = [response EXCEPT ![r].parsed = n,
                                              ![r].completed = completed]
              /\ record' = [record EXCEPT ![r] =
                   [UpdateUsage(r, n) EXCEPT
                      !.usage = @ \/ response[r].kind = "json",
                      !.status = StatusForResponse(completed, ok)]]
    BY <1>8 DEF End
  <2>. DEFINE completed == IF stream THEN Completes(r, n) ELSE ok
              entry == [UpdateUsage(r, n) EXCEPT
                          !.usage = @ \/ response[r].kind = "json",
                          !.status = StatusForResponse(completed, ok)]
              resp  == [response[r] EXCEPT !.parsed = n, !.completed = completed]
  <2>3. n \in 0 .. Len(Wire)
    BY <1>4, <2>1 DEF ResponseType
  <2>4. completed \in BOOLEAN
    BY <1>4, <2>1 DEF Completes, SawTerminalEvent, ResponseType
  <2>5. UpdateUsage(r, n) \in Entry
        /\ UpdateUsage(r, n).reserved = record[r].reserved
    BY <1>6, <2>1, <2>3
  <2>6. entry \in Entry /\ entry.reserved = record[r].reserved
    BY <2>5 DEF Entry, StatusForResponse, Final
  <2>7. resp \in ResponseType
    BY <1>4, <2>1, <2>3, <2>4 DEF ResponseType
  <2>8. record' = [record EXCEPT ![r] = entry]
        /\ response' = [response EXCEPT ![r] = resp]
    BY <2>2
  <2>. HIDE DEF entry, resp, completed
  <2>. QED
    BY <1>4, <2>1, <2>6, <2>7, <2>8, AnswerStep
<1>9. CASE Fail(r)
  <2>. DEFINE error == StatusForError(response[r].completed, Reason(r))
              entry == [record[r] EXCEPT !.status = error.status,
                                         !.clientError = error.clientError]
  <2>1. /\ pc[r] \in {"fetch", "reading"} /\ pc' = [pc EXCEPT ![r] = "done"]
        /\ UNCHANGED <<reserved, up, signal, response>> /\ FileShape'
        /\ record' = [record EXCEPT ![r] = entry]
    BY <1>9 DEF Fail
  <2>2. Reason(r) \in Signals \cup {"client_write_failed"}
    BY DEF Reason
  <2>3. /\ error.status \in Final
        /\ error.clientError \in Signals \cup {"client_write_failed"}
    BY <2>2 DEF StatusForError, Final, Signals
  <2>4. entry \in Entry /\ entry.reserved = record[r].reserved
    BY <1>4, <2>1, <2>3 DEF Entry
  <2>5. response[r] \in ResponseType
        /\ response' = [response EXCEPT ![r] = response[r]]
    BY <1>4, <2>1
  <2>6. Sent(r) /\ "done" \in {"reading", "done"}
    BY <1>4, <2>1
  <2>. DEFINE resp == response[r]
              to == "done"
  <2>. HIDE DEF entry, error, resp, to, RelayInv, RelayTypeOK, FileShape
  <2>7. /\ resp \in ResponseType /\ response' = [response EXCEPT ![r] = resp]
        /\ to \in {"reading", "done"} /\ pc' = [pc EXCEPT ![r] = to]
        /\ to /= "reading"
    BY <2>1, <2>5, <2>6 DEF resp, to
  <2>. QED
    BY <2>1, <2>4, <2>6, <2>7, AnswerStep
<1>. QED
  BY <1>2, <1>3, <1>5, <1>7, <1>8, <1>9, ReserveStep DEF RelayStep, Abort, Break

\* The relay keeps its invariant, also when its process dies.
LEMMA RelayNextInv ==
  ASSUME RelayInv, RelayNext \/ UNCHANGED relayVars
  PROVE  RelayInv'
<1>1. CASE UNCHANGED <<pc, reserved, record, disk, signal, response>> /\ up' \in BOOLEAN
  BY <1>1 DEF RelayInv, RelayTypeOK, FileShape, RequestShape,
              ReservedWithinBudget, ReservedBy, Sent, Recorded
<1>2. CASE Kill
  BY <1>1, <1>2 DEF Kill
<1>3. CASE UNCHANGED relayVars
  BY <1>1, <1>3 DEF relayVars, RelayInv, RelayTypeOK
<1>. QED
  BY <1>2, <1>3, RelayStepInv DEF RelayNext

\* The relay starts with nothing reserved.
LEMMA RelayInitInv == RelayInit => RelayInv
<1>. SUFFICES ASSUME RelayInit PROVE RelayInv
  OBVIOUS
<1>. USE DEF RelayInit
<1>1. RelayTypeOK
  <2>1. 0 \in 0 .. Len(Wire)
    BY DEF Wire
  <2>. QED
    BY <2>1 DEF RelayTypeOK, Signals, Kinds
<1>2. FileShape /\ RequestShape
  BY DEF FileShape, RequestShape, Sent, Recorded
<1>3. ReservedWithinBudget
  <2>1. {r \in Requests : Sent(r)} = {}
    BY DEF Sent
  <2>2. 0 <= Config.budget
    BY RelayAssumption DEF ConfigType
  <2>. QED
    BY <2>1, <2>2, SumEmpty DEF ReservedWithinBudget, ReservedBy
<1>. QED
  BY <1>1, <1>2, <1>3 DEF RelayInv

-----------------------------------------------------------------------------
(***************************************************************************)
(* The invoices.                                                           *)
(***************************************************************************)

\* Receipts stay what they are.
Kept(x, y) ==
  \A q \in Receipts : x.billed[q] /= None => y.billed[q] = x.billed[q]

\* The requests of the episodes are apart, and together all that were sent.
LEMMA RequestsPartition ==
  ASSUME paid \subseteq Requests
  PROVE  /\ \A e \in Episodes : RequestsOf(e) \subseteq Receipts
         /\ \A d, e \in Episodes : d # e => RequestsOf(d) \cap RequestsOf(e) = {}
         /\ UNION {RequestsOf(e) : e \in Episodes} =
              paid \cup (Receipts \ Requests)
<1>1. \A e \in Episodes : e # Tested =>
        /\ e \in DOMAIN Earlier /\ RequestsOf(e) = Earlier[e]
        /\ RequestsOf(e) \subseteq Receipts \ Requests
  BY MoneyAssumption DEF RequestsOf
<1>2. RequestsOf(Tested) = paid /\ Tested \in Episodes
  BY MoneyAssumption DEF RequestsOf
<1>3. \A e \in Episodes : RequestsOf(e) \subseteq Receipts
  BY <1>1, <1>2, MoneyAssumption
<1>4. ASSUME NEW d \in Episodes, NEW e \in Episodes, d # e
      PROVE  RequestsOf(d) \cap RequestsOf(e) = {}
  <2>1. CASE d = Tested \/ e = Tested
    BY <1>1, <1>2, <1>4, <2>1
  <2>2. CASE d # Tested /\ e # Tested
    BY <1>1, <1>4, <2>2, MoneyAssumption
  <2>. QED
    BY <2>1, <2>2
<1>5. ASSUME NEW q \in paid \cup (Receipts \ Requests)
      PROVE  \E e \in Episodes : q \in RequestsOf(e)
  <2>1. CASE q \in paid
    BY <1>2, <2>1
  <2>2. CASE q \in Receipts \ Requests
    <3>1. PICK e \in DOMAIN Earlier : q \in Earlier[e]
      BY <2>2, MoneyAssumption
    <3>2. e \in Episodes /\ e # Tested
      BY MoneyAssumption
    <3>. QED
      BY <1>1, <3>1, <3>2
  <2>. QED
    BY <1>5, <2>1, <2>2
<1>6. ASSUME NEW e \in Episodes, NEW q \in RequestsOf(e)
      PROVE  q \in paid \cup (Receipts \ Requests)
  BY <1>1, <1>2
<1>. QED
  BY <1>3, <1>4, <1>5, <1>6

\* aggregate_billing keeps the books: each cost it fills in is the sum of the
\* charges, of an episode's requests or of all requests.
LEMMA AggregateAccounted ==
  ASSUME paid \subseteq Requests, NEW x, Accounted(x)
  PROVE  /\ Accounted(Aggregate(x))
         /\ Aggregate(x).over = x.over /\ Aggregate(x).billed = x.billed
<1>. DEFINE Settled(e) == /\ x.requests[e] # None
                          /\ \A q \in x.requests[e] : x.billed[q] # None
            costs == [e \in Episodes |->
                        IF Settled(e) THEN Sum(x.billed, x.requests[e])
                                      ELSE x.episodeCost[e]]
            all == \A e \in Episodes : costs[e] # None
            cost == IF all THEN Sum(costs, Episodes) ELSE x.cost
            y == Aggregate(x)
<1>1. /\ x \in RunType
      /\ \A e \in Episodes : x.requests[e] \in {None, RequestsOf(e)}
      /\ \A q \in Receipts : x.billed[q] \in {None, Charge[q]}
      /\ \A e \in Episodes : x.episodeCost[e] # None =>
           /\ x.requests[e] # None
           /\ x.episodeCost[e] = Sum(Charge, x.requests[e])
      /\ x.cost # None => x.cost = Sum(Charge, paid \cup (Receipts \ Requests))
  BY DEF Accounted
<1>2. IsFiniteSet(Receipts) /\ IsFiniteSet(Episodes) /\ None \notin Nat
      /\ \A q \in Receipts : Charge[q] \in Nat
  BY BillingAssumption
<1>3. ASSUME NEW e \in Episodes
      PROVE  /\ Sum(Charge, RequestsOf(e)) \in Nat
             /\ Settled(e) => Sum(x.billed, x.requests[e]) =
                                Sum(Charge, x.requests[e])
  <2>1. RequestsOf(e) \subseteq Receipts /\ IsFiniteSet(RequestsOf(e))
    BY <1>2, RequestsPartition, FS_Subset
  <2>2. Sum(Charge, RequestsOf(e)) \in Nat
    BY <1>2, <2>1, SumNat DEF Sum
  <2>3. ASSUME Settled(e)
        PROVE  Sum(x.billed, x.requests[e]) = Sum(Charge, x.requests[e])
    <3>1. x.requests[e] = RequestsOf(e)
      BY <1>1, <2>3
    <3>2. \A q \in RequestsOf(e) : x.billed[q] = Charge[q]
      BY <1>1, <2>1, <2>3, <3>1
    <3>. QED
      BY <2>1, <3>1, <3>2, SumAgrees DEF Sum
  <2>. QED
    BY <2>2, <2>3
<1>4. ASSUME NEW e \in Episodes
      PROVE  /\ costs[e] \in {None} \cup Nat
             /\ costs[e] # None =>
                  /\ x.requests[e] = RequestsOf(e)
                  /\ x.requests[e] # None
                  /\ costs[e] = Sum(Charge, x.requests[e])
  <2>1. x.episodeCost[e] \in {None} \cup Nat
    BY <1>1 DEF RunType
  <2>. QED
    BY <1>1, <1>3, <2>1
<1>5. costs \in [Episodes -> {None} \cup Nat]
  BY <1>4
<1>6. ASSUME all
      PROVE  /\ Sum(costs, Episodes) \in Nat
             /\ Sum(costs, Episodes) = Sum(Charge, paid \cup (Receipts \ Requests))
  <2>. DEFINE F == [e \in Episodes |-> RequestsOf(e)]
              G == [e \in Episodes |-> SumFunctionOnSet(Charge, F[e])]
  <2>1. \A e \in Episodes : costs[e] = G[e] /\ G[e] \in Nat
    BY <1>3, <1>4, <1>6 DEF Sum
  <2>2. /\ \A e \in Episodes : F[e] \subseteq Receipts
        /\ \A d, e \in Episodes : d # e => F[d] \cap F[e] = {}
        /\ UNION {F[e] : e \in Episodes} = paid \cup (Receipts \ Requests)
    BY RequestsPartition
  <2>. HIDE DEF F, costs
  <2>3. SumFunctionOnSet(G, Episodes) =
          SumFunctionOnSet(Charge, UNION {F[e] : e \in Episodes})
    BY <1>2, <2>2, SumPartition
  <2>. HIDE DEF G
  <2>4. SumFunctionOnSet(costs, Episodes) = SumFunctionOnSet(G, Episodes)
    BY <1>2, <2>1, SumAgrees
  <2>5. SumFunctionOnSet(G, Episodes) \in Nat
    BY <1>2, <2>1, SumNat
  <2>. QED
    BY <2>2, <2>3, <2>4, <2>5 DEF Sum
<1>7. cost \in {None} \cup Nat /\
      (cost # None => cost = Sum(Charge, paid \cup (Receipts \ Requests)))
  BY <1>1, <1>6 DEF RunType
<1>8. y = [x EXCEPT !.episodeCost = costs, !.cost = cost]
  BY DEF Aggregate
<1>. HIDE DEF y, costs, cost
<1>9. /\ y \in RunType /\ y.over = x.over /\ y.billed = x.billed
      /\ y.requests = x.requests /\ y.episodeCost = costs /\ y.cost = cost
  BY <1>1, <1>5, <1>7, <1>8 DEF RunType
<1>10. Accounted(y)
  BY <1>1, <1>4, <1>7, <1>9 DEF Accounted
<1>. QED
  BY <1>9, <1>10 DEF y

\* An invoice enters what the platform charges, and takes no receipt back.
LEMMA InvoiceAccounted ==
  ASSUME NEW x, Accounted(x), NEW q \in Receipts
  PROVE  LET y == [x EXCEPT !.billed[q] = Charge[q]] IN
           Accounted(y) /\ y.over = x.over /\ Kept(x, y)
<1>. DEFINE y == [x EXCEPT !.billed[q] = Charge[q]]
<1>1. x \in RunType /\ Charge[q] \in Nat
  BY BillingAssumption DEF Accounted
<1>2. /\ y \in RunType /\ y.over = x.over /\ y.requests = x.requests
      /\ y.episodeCost = x.episodeCost /\ y.cost = x.cost
      /\ y.billed = [x.billed EXCEPT ![q] = Charge[q]]
  BY <1>1 DEF RunType
<1>. HIDE DEF y
<1>3. \A p \in Receipts : /\ y.billed[p] \in {None, Charge[p]}
                          /\ x.billed[p] # None => y.billed[p] = x.billed[p]
  BY <1>1, <1>2 DEF Accounted, RunType
<1>4. Accounted(y) /\ Kept(x, y)
  BY <1>2, <1>3 DEF Accounted, Kept
<1>. QED
  BY <1>2, <1>4 DEF y

\* What a step of reconcile leaves behind: the books of the run, and no lock
\* held without a question to ask.
LEMMA StepInv ==
  ASSUME BillingInv, UNCHANGED <<evidence, paid>>,
         NEW x, Accounted(x), x.over, run' = x, stored' = x,
         BillingTypes', LockShape'
  PROVE  BillingInv'
BY DEF BillingInv, RunShape, Accounted, RequestsOf

\* The two ways on from a visit: the next question, or the end.
LEMMA AdvanceStep ==
  ASSUME BillingInv, UNCHANGED <<evidence, paid, created, crashes>>,
         NEW c \in Callers, task[c] \in Holding,
         NEW after, Accounted(after), after.over,
         Advance(c, after), stored' = run'
  PROVE  BillingInv' /\ run'.billed = after.billed
<1>. USE DEF BillingInv
<1>1. /\ task \in [Callers -> {"idle", "lock", "dead"} \cup Holding]
      /\ todo \subseteq Receipts
      /\ asked \in Receipts \cup {None} /\ refreshed \in BOOLEAN
      /\ created \in 0 .. MaxCreated /\ seen \in 0 .. created
      /\ crashes \in 0 .. MaxCrashes
  BY DEF BillingTypes
<1>2. paid \subseteq Requests
  BY DEF RunShape
<1>3. \A d \in Callers : d # c => task[d] \notin Holding
  BY DEF LockShape
<1>4. CASE todo # {}
  <2>1. PICK q \in todo : asked' = q /\ todo' = todo \ {q}
    BY <1>4 DEF Advance
  <2>2. task' = [task EXCEPT ![c] = "detail"] /\ run' = after
        /\ UNCHANGED <<refreshed, seen>>
    BY <1>4 DEF Advance
  <2>3. BillingTypes'
    BY <1>1, <2>1, <2>2 DEF BillingTypes, Holding
  <2>4. LockShape'
    <3>1. \A d \in Callers : d # c => task'[d] \notin Holding
      BY <1>1, <1>3, <2>2
    <3>2. run'.over /\ asked' \in Receipts
      BY <1>1, <2>1, <2>2
    <3>. QED
      BY <3>1, <3>2 DEF LockShape
  <2>. QED
    BY <2>2, <2>3, <2>4, StepInv
<1>5. CASE todo = {}
  <2>1. /\ run' = Aggregate(after)
        /\ task' = [task EXCEPT ![c] = Iterator(c, seen)]
        /\ asked' = None /\ refreshed' = FALSE /\ seen' = 0 /\ todo' = todo
    BY <1>5 DEF Advance
  <2>2. Iterator(c, seen) \in {"dead", "idle"}
    BY DEF Iterator
  <2>3. BillingTypes'
    <3>1. task' \in [Callers -> {"idle", "lock", "dead"} \cup Holding]
      BY <1>1, <2>1, <2>2
    <3>2. 0 \in 0 .. created /\ created' = created /\ crashes' = crashes
      BY <1>1
    <3>. QED
      BY <1>1, <2>1, <3>1, <3>2 DEF BillingTypes
  <2>4. LockShape'
    <3>1. \A d \in Callers : task'[d] \notin Holding
      BY <1>1, <1>3, <2>1, <2>2 DEF Holding
    <3>. QED
      BY <3>1 DEF LockShape
  <2>. DEFINE x == Aggregate(after)
  <2>5. Accounted(x) /\ x.over /\ x.billed = after.billed
    BY <1>2, AggregateAccounted
  <2>. HIDE DEF x
  <2>6. run' = x /\ stored' = x
    BY <2>1 DEF x
  <2>. QED
    BY <2>3, <2>4, <2>5, <2>6, StepInv
<1>. QED
  BY <1>4, <1>5

\* Every action of the invoices keeps the invariant, and every receipt.
LEMMA CallerStep ==
  ASSUME BillingInv, run.over, UNCHANGED <<evidence, paid>>, NEW c \in Callers,
         \/ Begin(c) \/ Acquire(c) \/ Unauthorized(c) \/ Error(c)
         \/ Inexact(c) \/ Pending(c) \/ Invoice(c)
  PROVE  BillingInv' /\ Kept(run, run')
<1>1. /\ task \in [Callers -> {"idle", "lock", "dead"} \cup Holding]
      /\ todo \subseteq Receipts
      /\ asked \in Receipts \cup {None} /\ refreshed \in BOOLEAN
      /\ created \in 0 .. MaxCreated /\ seen \in 0 .. created
      /\ crashes \in 0 .. MaxCrashes
  BY DEF BillingInv, BillingTypes
<1>2. Accounted(run) /\ stored = run /\ paid \subseteq Requests
  BY DEF BillingInv, RunShape
<1>3. /\ \A d, e \in Callers : task[d] \in Holding /\ task[e] \in Holding => d = e
      /\ \A d \in Callers : task[d] \in Holding => asked \in Receipts
  BY DEF BillingInv, LockShape
<1>4. 0 \in 0 .. created
  BY <1>1
<1>5. Kept(run, run)
  BY DEF Kept
<1>6. CASE Begin(c) \/ Unauthorized(c) \/ Error(c) \/ Inexact(c)
  <2>1. run' = run /\ stored' = run
    BY <1>2, <1>6 DEF Begin, Unauthorized, Error, Inexact
  <2>2. /\ \E t \in {"lock", "idle", "list", task[c]} :
             /\ task' = [task EXCEPT ![c] = t]
             /\ t \in Holding => task[c] \in Holding /\ asked' = asked
        /\ task[c] \notin Holding => asked' = asked
        /\ asked' \in Receipts \cup {None} /\ todo' \subseteq Receipts
        /\ refreshed' \in BOOLEAN /\ seen' \in 0 .. created
        /\ created' = created /\ crashes' = crashes
    BY <1>1, <1>4, <1>6 DEF Begin, Unauthorized, Error, Inexact, Holding
  <2>3. BillingTypes'
    BY <1>1, <2>2 DEF BillingTypes, Holding
  <2>4. LockShape'
    <3>. PICK t \in {"lock", "idle", "list", task[c]} :
           /\ task' = [task EXCEPT ![c] = t]
           /\ t \in Holding => task[c] \in Holding /\ asked' = asked
      BY <2>2
    <3>0. task'[c] = t /\ \A d \in Callers : d # c => task'[d] = task[d]
      BY <1>1
    <3>1. \A d \in Callers : task'[d] \in Holding => task[d] \in Holding
      BY <3>0
    <3>2. ASSUME NEW d \in Callers, task'[d] \in Holding PROVE asked' = asked
      <4>1. CASE d = c
        BY <3>0, <3>2, <4>1
      <4>2. CASE d # c
        BY <1>3, <2>2, <3>0, <3>2, <4>2
      <4>. QED
        BY <4>1, <4>2
    <3>. QED
      BY <1>3, <2>1, <3>1, <3>2 DEF BillingInv, LockShape
  <2>. QED
    BY <1>2, <1>5, <2>1, <2>3, <2>4, StepInv
<1>7. CASE Acquire(c)
  <2>0. Accounted(Aggregate(run)) /\ Aggregate(run).over
        /\ Aggregate(run).billed = run.billed
    BY <1>2, AggregateAccounted
  <2>1. \A d \in Callers : task[d] \notin Holding
    BY <1>7 DEF Acquire, Free
  <2>2. refreshed' = FALSE /\ UNCHANGED <<created, crashes>>
    BY <1>7 DEF Acquire
  <2>3. CASE /\ task' = [task EXCEPT ![c] = "idle"]
             /\ asked' = None /\ todo' = {} /\ seen' = 0
             /\ run' = run \/ run' = Aggregate(run)
             /\ stored' = run'
    <3>1. BillingTypes'
      BY <1>1, <1>4, <2>2, <2>3 DEF BillingTypes
    <3>2. LockShape'
      <4>1. \A d \in Callers : task'[d] \notin Holding
        BY <1>1, <2>1, <2>3 DEF Holding
      <4>. QED
        BY <4>1 DEF LockShape
    <3>3. CASE run' = run
      BY <1>2, <1>5, <2>3, <3>1, <3>2, <3>3, StepInv
    <3>4. CASE run' = Aggregate(run)
      <4>. DEFINE x == Aggregate(run)
      <4>1. Accounted(x) /\ x.over /\ run' = x /\ stored' = x
            /\ x.billed = run.billed
        BY <2>0, <2>3, <3>4
      <4>. HIDE DEF x
      <4>2. BillingInv'
        BY <3>1, <3>2, <4>1, StepInv
      <4>. QED
        BY <4>1, <4>2 DEF Kept
    <3>. QED
      BY <2>3, <3>3, <3>4
  <2>4. CASE /\ \E q \in Askable(run) : asked' = q /\ todo' = Askable(run) \ {q}
             /\ task' = [task EXCEPT ![c] = "detail"]
             /\ seen' = created /\ UNCHANGED <<run, stored>>
    <3>1. Askable(run) \subseteq Receipts
      BY <1>2 DEF Askable, Accounted, RunType
    <3>2. BillingTypes'
      <4>1. task' \in [Callers -> {"idle", "lock", "dead"} \cup Holding]
        BY <1>1, <2>4 DEF Holding
      <4>2. asked' \in Receipts \cup {None} /\ todo' \subseteq Receipts
        BY <2>4, <3>1
      <4>3. seen' \in 0 .. created
        BY <1>1, <2>4
      <4>. QED
        BY <1>1, <2>2, <4>1, <4>2, <4>3 DEF BillingTypes
    <3>3. LockShape'
      <4>1. \A d \in Callers : task'[d] \in Holding => d = c
        BY <1>1, <2>1, <2>4
      <4>. QED
        BY <2>4, <3>1, <4>1 DEF LockShape
    <3>. QED
      BY <1>2, <1>5, <2>4, <3>2, <3>3, StepInv
  <2>. QED
    BY <1>2, <1>7, <2>3, <2>4 DEF Acquire
<1>8. CASE Pending(c)
  <2>1. /\ task[c] \in Holding /\ Advance(c, run) /\ stored' = run'
        /\ UNCHANGED <<created, crashes>>
    BY <1>2, <1>8 DEF Pending
  <2>. QED
    BY <1>2, <2>1, AdvanceStep DEF Kept
<1>9. CASE Invoice(c)
  <2>. DEFINE x == [run EXCEPT !.billed[asked] = Charge[asked]]
              y == Aggregate(x)
  <2>1. /\ task[c] \in Holding /\ Advance(c, y) /\ stored' = run'
        /\ UNCHANGED <<created, crashes>>
    BY <1>9 DEF Invoice
  <2>2. asked \in Receipts
    BY <1>3, <2>1
  <2>3. Accounted(x) /\ x.over /\ Kept(run, x)
    BY <1>2, <2>2, InvoiceAccounted
  <2>. HIDE DEF x
  <2>4. Accounted(y) /\ y.over /\ y.billed = x.billed
    BY <1>2, <2>3, AggregateAccounted
  <2>. HIDE DEF y
  <2>5. BillingInv' /\ run'.billed = y.billed
    BY <2>1, <2>4, AdvanceStep
  <2>. QED
    BY <2>3, <2>4, <2>5 DEF Kept
<1>. QED
  BY <1>6, <1>7, <1>8, <1>9

\* So do further runs and a restart, which reads the run the store has.
LEMMA BillingStep ==
  ASSUME BillingInv, run.over, UNCHANGED <<evidence, paid>>, BillingNext
  PROVE  BillingInv' /\ Kept(run, run')
<1>1. stored = run /\ Accounted(run) /\ Kept(run, run)
  BY DEF BillingInv, RunShape, Kept
<1>2. CASE Create
  <2>1. BillingTypes'
    BY <1>2, BillingAssumption DEF BillingInv, BillingTypes, Create
  <2>2. LockShape'
    BY <1>2 DEF BillingInv, LockShape, Create
  <2>. QED
    BY <1>1, <1>2, <2>1, <2>2, StepInv DEF Create
<1>3. CASE Restart
  <2>1. BillingTypes'
    <3>1. crashes' \in 0 .. MaxCrashes /\ 0 \in 0 .. created
      BY <1>3, BillingAssumption DEF BillingInv, BillingTypes, Restart
    <3>2. task' \in [Callers -> {"idle", "lock", "dead"} \cup Holding]
      BY <1>3 DEF Restart
    <3>. QED
      BY <1>3, <3>1, <3>2 DEF BillingInv, BillingTypes, Restart
  <2>2. LockShape'
    BY <1>3 DEF LockShape, Restart, Holding
  <2>. QED
    BY <1>1, <1>3, <2>1, <2>2, StepInv DEF Restart
<1>. QED
  BY <1>2, <1>3, CallerStep DEF BillingNext

-----------------------------------------------------------------------------
(***************************************************************************)
(* Both together.                                                          *)
(***************************************************************************)

\* The container is gone: what was sent is what the file has, and the run is
\* over with the files of its episodes.
LEMMA CollectStep ==
  ASSUME IInv, Collect
  PROVE  IInv' /\ Kept(run, run')
<1>1. /\ pc' = [r \in Requests |-> "body"] /\ reserved' = 0
      /\ record' = [r \in Requests |-> NoRecord]
      /\ signal' = [r \in Requests |-> Absent]
      /\ response' = [r \in Requests |->
           [kind |-> Absent, parsed |-> 0, completed |-> FALSE]]
      /\ disk' = [reserved |-> 0, requests |-> record']
      /\ paid' = {r \in Requests : Sent(r)}
      /\ UNCHANGED <<up, evidence>> /\ ~run.over
  BY DEF Collect
<1>2. RelayInv'
  <2>1. RelayTypeOK'
    <3>1. 0 \in 0 .. Len(Wire)
      BY DEF Wire
    <3>2. up' \in BOOLEAN
      BY <1>1 DEF IInv, RelayInv, RelayTypeOK
    <3>. QED
      BY <1>1, <3>1, <3>2 DEF RelayTypeOK, Signals, Kinds
  <2>2. FileShape' /\ RequestShape'
    BY <1>1 DEF FileShape, RequestShape, Sent, Recorded
  <2>3. {r \in Requests : Sent(r)'} = {} /\ 0 <= Config.budget
    BY <1>1, RelayAssumption DEF Sent, ConfigType
  <2>4. ReservedWithinBudget'
    BY <1>1, <2>3, SumEmpty DEF ReservedWithinBudget, ReservedBy
  <2>. QED
    BY <2>1, <2>2, <2>4 DEF RelayInv
<1>. DEFINE ofTested == {r \in Requests : disk.requests[r] # NoRecord}
            known == {r \in ofTested : disk.requests[r].id} \cup (Receipts \ Requests)
<1>3. ofTested = paid'
  BY <1>1 DEF IInv, RelayInv, FileShape, RequestShape, Recorded
<1>4. PICK kept \in {None, ofTested} :
        Finish([e \in Episodes |-> IF e = Tested THEN kept ELSE evidence[e]],
               known)
  BY DEF Collect
<1>. DEFINE files == [e \in Episodes |-> IF e = Tested THEN kept ELSE evidence[e]]
<1>5. /\ run = NewRun /\ \A e \in DOMAIN Earlier : evidence[e] \in {None, Earlier[e]}
      /\ evidence \in [DOMAIN Earlier -> {None} \cup SUBSET Receipts]
      /\ BillingTypes /\ LockShape
  BY <1>1 DEF IInv, BillingInv, RunShape
<1>6. /\ run' = [run EXCEPT !.over = TRUE, !.requests = files, !.known = known]
      /\ stored' = run'
      /\ UNCHANGED <<task, asked, todo, refreshed, created, seen, crashes>>
  BY <1>4 DEF Finish
<1>7. \A e \in Episodes : files[e] \in {None, RequestsOf(e)'}
  BY <1>1, <1>3, <1>5, MoneyAssumption DEF RequestsOf
<1>8. files \in [Episodes -> {None} \cup SUBSET Receipts]
  BY <1>3, <1>5, MoneyAssumption
<1>9. known \subseteq Receipts
  BY MoneyAssumption
<1>. HIDE DEF files, known
<1>10. run' = [over |-> TRUE, requests |-> files, known |-> known,
               billed |-> [q \in Receipts |-> None],
               episodeCost |-> [e \in Episodes |-> None], cost |-> None]
  BY <1>5, <1>6 DEF NewRun
<1>11. Accounted(run)'
  BY <1>7, <1>8, <1>9, <1>10 DEF Accounted, RunType
<1>12. RunShape'
  BY <1>1, <1>5, <1>6, <1>10, <1>11 DEF RunShape
<1>13. BillingTypes' /\ LockShape'
  BY <1>1, <1>5, <1>6 DEF BillingTypes, LockShape
<1>14. Kept(run, run')
  BY <1>5 DEF Kept, NewRun
<1>. QED
  BY <1>2, <1>12, <1>13, <1>14 DEF IInv, BillingInv

LEMMA MoneyInitInv == Init => IInv
<1>. SUFFICES ASSUME Init PROVE IInv
  OBVIOUS
<1>1. RelayInv
  BY RelayInitInv DEF Init
<1>2. run = NewRun /\ stored = NewRun /\ ~run.over
  BY DEF Init, BillingInit, NewRun
<1>3. BillingTypes
  <2>1. 0 \in 0 .. MaxCreated /\ 0 \in 0 .. MaxCrashes /\ 0 \in 0 .. 0
    BY BillingAssumption
  <2>2. /\ task = [c \in Callers |-> "idle"] /\ asked = None /\ todo = {}
        /\ refreshed = FALSE /\ created = 0 /\ seen = 0 /\ crashes = 0
    BY DEF Init, BillingInit
  <2>. QED
    BY <2>1, <2>2 DEF BillingTypes
<1>4. LockShape
  BY DEF Init, BillingInit, LockShape, Holding
<1>5. RunShape
  BY <1>2 DEF Init, RunShape
<1>. QED
  BY <1>1, <1>3, <1>4, <1>5 DEF IInv, BillingInv

\* Every step keeps the invariant, and every receipt.
LEMMA MoneyNextInv == IInv /\ [Next]_vars => IInv' /\ Kept(run, run')
<1>. SUFFICES ASSUME IInv, [Next]_vars PROVE IInv' /\ Kept(run, run')
  OBVIOUS
<1>1. ASSUME UNCHANGED <<billingVars, evidence, paid>>
      PROVE  BillingInv' /\ Kept(run, run')
  <2>1. BillingTypes' /\ LockShape'
    BY <1>1 DEF IInv, BillingInv, BillingTypes, LockShape, billingVars
  <2>2. RunShape'
    BY <1>1 DEF IInv, BillingInv, RunShape, Accounted, RequestsOf, billingVars
  <2>. QED
    BY <1>1, <2>1, <2>2 DEF BillingInv, Kept, billingVars
<1>2. CASE RelayNext /\ UNCHANGED <<billingVars, evidence, paid>>
  BY <1>1, <1>2, RelayNextInv DEF IInv
<1>3. CASE Collect
  BY <1>3, CollectStep
<1>4. CASE run.over /\ BillingNext /\ UNCHANGED <<relayVars, evidence, paid>>
  BY <1>4, BillingStep, RelayNextInv DEF IInv
<1>5. CASE UNCHANGED vars
  BY <1>1, <1>5, RelayNextInv DEF IInv, vars
<1>. QED
  BY <1>2, <1>3, <1>4, <1>5 DEF Next

-----------------------------------------------------------------------------
(***************************************************************************)
(* The theorems.                                                           *)
(***************************************************************************)

\* The inductive invariant holds of every behaviour.
THEOREM MoneyInvariant == Spec => []IInv
<1>. QED
  BY MoneyInitInv, MoneyNextInv, PTL DEF Spec

\* The state has the shape the code gives it, and at most one caller of
\* reconcile is past the lock.
THEOREM MoneyTypeCorrect == Spec => []TypeOK
<1>1. IInv => TypeOK
  <2>. SUFFICES ASSUME IInv PROVE TypeOK
    OBVIOUS
  <2>. DEFINE H == {c \in Callers : task[c] \in Holding}
  <2>1. Cardinality(H) <= 1
    <3>1. CASE H = {}
      BY <3>1, FS_EmptySet
    <3>2. CASE H # {}
      <4>1. PICK c \in Callers : c \in H
        BY <3>2
      <4>2. H = {c}
        BY <4>1 DEF IInv, BillingInv, LockShape
      <4>. QED
        BY <4>2, FS_Singleton
    <3>. QED
      BY <3>1, <3>2
  <2>2. run \in RunType /\ stored \in RunType
    <3>1. NewRun \in RunType
      BY DEF NewRun, RunType
    <3>. QED
      BY <3>1 DEF IInv, BillingInv, RunShape, Accounted
  <2>3. RelayTypeOK /\ paid \subseteq Requests
    BY DEF IInv, RelayInv, BillingInv, RunShape
  <2>. QED
    BY <2>1, <2>2, <2>3 DEF TypeOK, BillingTypeOK, IInv, BillingInv, BillingTypes
<1>. QED
  BY <1>1, MoneyInvariant, PTL

\* However the handlers of the relay interleave, hang-ups, deadlines and a dying
\* process included, what it has reserved is the highest cost of exactly the
\* requests it sent, and within the episode's budget (proxy.mjs).
THEOREM RelayStaysInBudget == Spec => []ReservedWithinBudget
<1>1. IInv => ReservedWithinBudget
  BY DEF IInv, RelayInv
<1>. QED
  BY <1>1, MoneyInvariant, PTL

\* At every moment the ledger file already has each request that was sent, the id
\* of its answer and a total that covers it: what a crash leaves is the whole
\* account (proxy.mjs, status.mjs).
THEOREM SentRequestsAreOnDisk == Spec => []SentIsOnDisk
<1>1. IInv => SentIsOnDisk
  <2>. SUFFICES ASSUME IInv, NEW r \in Requests, Sent(r)
                PROVE  /\ disk.requests[r] # NoRecord
                       /\ disk.requests[r].id = record[r].id
                       /\ disk.reserved >= disk.requests[r].reserved
    BY DEF SentIsOnDisk
  <2>. DEFINE S == {q \in Requests : Sent(q)}
              f == [q \in S |-> record[q].reserved]
  <2>1. disk.requests = record /\ disk.reserved = reserved /\ Recorded(r)
    BY DEF IInv, RelayInv, FileShape, RequestShape
  <2>2. IsFiniteSet(S) /\ r \in S /\ IsFiniteSet(S \ {r})
    BY RelayAssumption, FS_Subset
  <2>3. \A q \in S : f[q] \in Nat
    BY DEF IInv, RelayInv, RelayTypeOK, RequestShape, Recorded
  <2>4. reserved = SumFunctionOnSet(f, S)
    BY DEF IInv, RelayInv, ReservedWithinBudget, ReservedBy
  <2>. HIDE DEF f, S
  <2>5. SumFunctionOnSet(f, S) = f[r] + SumFunctionOnSet(f, S \ {r})
    BY <2>2, <2>3, SumRemove
  <2>6. SumFunctionOnSet(f, S \ {r}) \in Nat
    BY <2>2, <2>3, SumNat
  <2>7. f[r] = record[r].reserved
    BY <2>2 DEF f
  <2>. QED
    BY <2>1, <2>2, <2>3, <2>4, <2>5, <2>6, <2>7 DEF Recorded
<1>. QED
  BY <1>1, MoneyInvariant, PTL

\* A cost the console shows is what the platform charges for every request of
\* every episode: none counted twice, none left out (billing.py, results.py).
THEOREM ShownCostIsTheCharge == Spec => []ShownCostIsCharged
<1>1. IInv => ShownCostIsCharged
  BY DEF IInv, BillingInv, RunShape, Accounted, ShownCostIsCharged, ShownCost,
         NewRun
<1>. QED
  BY <1>1, MoneyInvariant, PTL

\* No step takes a receipt back or changes its amount: not an error, not a crash
\* of the controller, not another reconciliation (billing.py).
THEOREM ReceiptsStay == Spec => ReceiptsAreFinal
<1>1. IInv /\ [Next]_vars =>
        [\A q \in Receipts : run.billed[q] # None => run'.billed[q] = run.billed[q]]_vars
  BY MoneyNextInv DEF Kept
<1>. QED
  BY <1>1, MoneyInvariant, PTL DEF Spec, ReceiptsAreFinal

\* An answer shown as received stays so in the next step of any handler.
LEMMA ReceivedStep ==
  ASSUME RelayInv, NEW r \in Requests, RelayStep(r),
         NEW q \in Requests, Recorded(q), record[q].status = "received"
  PROVE  record'[q].status = "received"
<1>. USE DEF RelayInv
<1>1. record \in [Requests -> {NoRecord} \cup Entry]
  BY DEF RelayTypeOK, Entry
<1>2. /\ Sent(q) /\ record[q] \in Entry
      /\ pc[q] /= "fetch" /\ pc[q] /= "body"
      /\ pc[q] = "reading" => response[q].kind = "stream" /\ response[q].completed
  BY <1>1 DEF RequestShape, Sent, Recorded
<1>4. CASE Refuse(r) \/ HangUp(r) \/ Deadline(r)
  BY <1>4 DEF Refuse, HangUp, Deadline
<1>5. CASE Reserve(r) \/ Headers(r)
  <2>1. q # r /\ \E entry : record' = [record EXCEPT ![r] = entry]
    BY <1>2, <1>5 DEF Reserve, Headers
  <2>. QED
    BY <1>1, <2>1
<1>6. ASSUME NEW n
      PROVE  record[r] \in Entry /\ record[r].status = "received" =>
               UpdateUsage(r, n).status = "received"
  BY DEF UpdateUsage, Entry
<1>7. CASE Chunk(r)
  <2>1. PICK n : \/ record' = record
                 \/ record' = [record EXCEPT ![r] = UpdateUsage(r, n)]
    BY <1>7 DEF Chunk
  <2>. QED
    BY <1>1, <1>2, <1>6, <2>1
<1>8. CASE End(r)
  <2>. DEFINE ok == response[r].kind # "error"
              stream == response[r].kind = "stream"
  <2>1. PICK n :
          LET completed == IF stream THEN Completes(r, n) ELSE ok
          IN  record' = [record EXCEPT ![r] =
                [UpdateUsage(r, n) EXCEPT
                   !.usage = @ \/ response[r].kind = "json",
                   !.status = StatusForResponse(completed, ok)]]
    BY <1>8 DEF End
  <2>2. CASE q # r
    BY <1>1, <2>1, <2>2
  <2>3. CASE q = r
    <3>1. StatusForResponse(IF stream THEN Completes(r, n) ELSE ok, ok) = "received"
      BY <1>2, <1>8, <2>3 DEF End, Completes, StatusForResponse
    <3>2. "status" \in DOMAIN UpdateUsage(r, n)
      BY <1>2, <2>3 DEF UpdateUsage, Entry
    <3>. QED
      BY <1>1, <2>1, <2>3, <3>1, <3>2
  <2>. QED
    BY <2>2, <2>3
<1>9. CASE Fail(r)
  <2>. DEFINE error == StatusForError(response[r].completed, Reason(r))
  <2>1. /\ record' = [record EXCEPT ![r].status = error.status,
                                    ![r].clientError = error.clientError]
        /\ pc[r] \in {"fetch", "reading"}
    BY <1>9 DEF Fail
  <2>2. CASE q # r
    BY <1>1, <2>1, <2>2
  <2>3. CASE q = r
    <3>1. error.status = "received"
      BY <1>2, <2>1, <2>3 DEF StatusForError
    <3>. QED
      BY <1>1, <1>2, <2>1, <2>3, <3>1 DEF Entry
  <2>. QED
    BY <2>2, <2>3
<1>. QED
  BY <1>4, <1>5, <1>7, <1>8, <1>9 DEF RelayStep, Abort, Break

\* No hang-up, deadline or broken connection makes a request the ledger file shows
\* as received an unknown one, while the relay runs (status.mjs, proxy.mjs).
THEOREM ReceivedStays == Spec => ReceivedIsFinal
<1>1. IInv /\ [Next]_vars =>
        [\A r \in Requests :
           up /\ disk.requests[r] # NoRecord /\ disk.requests[r].status = "received"
             => disk'.requests[r].status = "received"]_relayVars
  <2>. SUFFICES ASSUME IInv, [Next]_vars, ~UNCHANGED relayVars,
                       NEW q \in Requests, up, disk.requests[q] # NoRecord,
                       disk.requests[q].status = "received"
                PROVE  disk'.requests[q].status = "received"
    OBVIOUS
  <2>1. IInv'
    BY MoneyNextInv
  <2>2. disk.requests = record /\ disk'.requests = record'
    BY <2>1 DEF IInv, RelayInv, FileShape
  <2>3. RelayNext
    BY DEF Next, vars, Collect
  <2>4. record'[q].status = "received"
    BY <2>2, <2>3, ReceivedStep DEF IInv, RelayNext, Kill, Recorded
  <2>. QED
    BY <2>2, <2>4
<1>. QED
  BY <1>1, MoneyInvariant, PTL DEF Spec, ReceivedIsFinal

=============================================================================
