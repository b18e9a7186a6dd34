-------------------------------- MODULE Relay --------------------------------
(***************************************************************************)
(* The gateway relay of one console episode (deploy/console/gateway): an   *)
(* HTTP server with the provider key, which checks and bounds each request *)
(* of the agent, reserves its highest cost, forwards it, watches the       *)
(* response for usage and a terminal event, and keeps a ledger file.       *)
(*                                                                         *)
(* JavaScript runs a handler without interruption from one await to the    *)
(* next: a step below is one such stretch.  Handlers interleave at the     *)
(* awaits, and the client may hang up, the deadline may pass and the       *)
(* process may die at any of them.                                         *)
(***************************************************************************)
EXTENDS Integers, Sequences, FiniteSets, FiniteSetsExt

CONSTANTS
  Requests,   \* the POSTs that reach the relay
  Body,       \* their parsed bodies, see BodyType
  Config,     \* /config/relay.json, see ConfigType
  Absent      \* a parameter the body does not have, a file not yet written

BodyType == [model : STRING, effort : STRING \cup {Absent}, context : BOOLEAN,
             image : BOOLEAN, tools : SUBSET {"function", "named", "managed"},
             output : Int \cup {Absent}, bytes : Nat, bytesWithoutTools : Nat,
             system : {"text", "text_blocks", "other_blocks"}]

ConfigType == [model : STRING, lyra : BOOLEAN, path : STRING,
               effort : STRING, allowTools : BOOLEAN, maxOutput : Nat \ {0},
               inputRate : Nat, outputRate : Nat, budget : Nat]

ASSUME RelayAssumption ==
  /\ IsFiniteSet(Requests)
  /\ Body \in [Requests -> BodyType]
  /\ Config \in ConfigType

(***************************************************************************)
(* The events of a stream that matter: usage, a terminal event of its own  *)
(* (message_stop), a terminal event with usage (response.completed).  A    *)
(* stream has those of its endpoint, in this order; other bodies have none.*)
(***************************************************************************)
HasUsage(event)   == event \in {"usage", "completed"}
IsTerminal(event) == event \in {"stop", "completed"}
Wire == CASE Config.path = "/v1/responses" -> <<"completed">>
          [] Config.path = "/v1/messages"  -> <<"usage", "stop">>
          [] OTHER                         -> <<"usage">>

VARIABLES
  pc,         \* where each handler awaits
  reserved,   \* reservedMicros
  record,     \* the entries of records
  disk,       \* /ledger/requests.json
  up,         \* the process runs
  signal,     \* what aborted each request: the client hung up, its deadline
  response    \* what the handler knows of the response

relayVars == <<pc, reserved, record, disk, up, signal, response>>

Final == {"received", "http_error", "transport_unknown"}
Open  == {"pending", "receiving"}

NoRecord == [status |-> Absent]
Recorded(r) == record[r] /= NoRecord
ReservedBy(S) == SumFunctionOnSet([r \in S |-> record[r].reserved], S)

Signals == {Absent, "client_disconnected", "deadline"}
Kinds   == {Absent, "stream", "json", "error"}

RelayTypeOK ==
  /\ pc \in [Requests -> {"body", "fetch", "reading", "refused", "done"}]
  /\ reserved \in Nat
  /\ record \in [Requests -> {NoRecord} \cup
       [status : Open \cup Final, reserved : Nat, id : BOOLEAN, usage : BOOLEAN,
        clientError : Signals \cup {"client_write_failed"}]]
  /\ DOMAIN disk = {"reserved", "requests"} /\ DOMAIN disk.requests = Requests
  /\ up \in BOOLEAN
  /\ signal \in [Requests -> Signals]
  /\ response \in [Requests -> [kind : Kinds, parsed : 0 .. Len(Wire),
                               completed : BOOLEAN]]

RelayInit ==
  /\ pc = [r \in Requests |-> "body"]
  /\ reserved = 0
  /\ record = [r \in Requests |-> NoRecord]
  /\ disk = [reserved |-> 0, requests |-> record]
  /\ up = TRUE
  /\ signal = [r \in Requests |-> Absent]
  /\ response = [r \in Requests |->
       [kind |-> Absent, parsed |-> 0, completed |-> FALSE]]

-----------------------------------------------------------------------------
(***************************************************************************)
(* policy.mjs: what a request must look like, and its highest cost.        *)
(***************************************************************************)

\* Tools the relay forwards: those the agent itself executes.  A named tool
\* without a type is one of Anthropic Messages.
Allowed(tool) == tool = "function" \/ (tool = "named" /\ Config.path = "/v1/messages")

\* A closed-book profile deletes the tools.
Tools(b) == IF Config.allowTools THEN b.tools ELSE {}

\* The output bound the body asks for, capped by the configured one.
RequestedOutput(b) == IF b.output = Absent THEN Config.maxOutput ELSE b.output
OutputBound(b) == Min({RequestedOutput(b), Config.maxOutput})

\* normalizeLyra removes provider hints for Lyra's Messages ingress and joins the
\* text blocks of a system prompt; it refuses one that it would have to change.
Normalizable(b) ==
  ~(Config.lyra /\ Config.path = "/v1/messages" /\ b.system = "other_blocks")

Refused(b) ==
  \/ b.model /= Config.model
  \/ Config.effort /= "provider_default" /\ b.effort /= Config.effort
  \/ b.context
  \/ b.image
  \/ \E tool \in Tools(b) : ~Allowed(tool)
  \/ RequestedOutput(b) <= 0
  \/ ~Normalizable(b)

\* 32768 more input units than the body has bytes, and the whole output bound.
UpperMicros(b) ==
  ((IF Config.allowTools THEN b.bytes ELSE b.bytesWithoutTools) + 32768)
     * Config.inputRate
  + OutputBound(b) * Config.outputRate

\* Mutant: only settled answers count against the budget.
AffordableBySettled(b, committed) ==
  UpperMicros(b) + ReservedBy({r \in Requests : Recorded(r) /\ record[r].status \in Final})
    <= Config.budget

Affordable(b, committed) == committed + UpperMicros(b) <= Config.budget

-----------------------------------------------------------------------------
(***************************************************************************)
(* status.mjs.                                                             *)
(***************************************************************************)

SawTerminalEvent(events) == \E i \in DOMAIN events : IsTerminal(events[i])

StatusForResponse(completed, ok) ==
  IF completed \/ ok THEN "received" ELSE "http_error"

\* Mutant: a request whose client is gone has no answer.
StatusForErrorForgetful(completed, reason) ==
  [status |-> "transport_unknown", clientError |-> Absent]

StatusForError(completed, reason) ==
  IF completed THEN [status |-> "received", clientError |-> reason]
               ELSE [status |-> "transport_unknown", clientError |-> Absent]

Reason(r) == IF signal[r] = Absent THEN "client_write_failed" ELSE signal[r]

-----------------------------------------------------------------------------
(***************************************************************************)
(* proxy.mjs: a request from its body to its final status.                 *)
(***************************************************************************)

\* Mutant: the file is written when the response arrives, not before the call.
SaveLater == disk' = IF \E r \in Requests : pc[r] = "body" /\ pc'[r] = "fetch"
                     THEN disk ELSE [reserved |-> reserved', requests |-> record']

\* Replaces the file by a rename, so that it always holds one whole state.
Save == disk' = [reserved |-> reserved', requests |-> record']

\* Wrong endpoint, too large, no JSON, refused by the policy, or no budget left.
Refuse(r) ==
  /\ up /\ pc[r] = "body"
  /\ Refused(Body[r]) \/ ~Affordable(Body[r], reserved)
  /\ pc' = [pc EXCEPT ![r] = "refused"]
  /\ UNCHANGED <<reserved, record, disk, up, signal, response>>

\* The body is complete: reserve, record, save and send without an await.
Reserve(r) ==
  /\ up /\ pc[r] = "body"
  /\ ~Refused(Body[r]) /\ Affordable(Body[r], reserved)
  /\ pc' = [pc EXCEPT ![r] = "fetch"]
  /\ reserved' = reserved + UpperMicros(Body[r])
  /\ record' = [record EXCEPT ![r] =
       [status |-> "pending", reserved |-> UpperMicros(Body[r]), id |-> FALSE,
        usage |-> FALSE, clientError |-> Absent]]
  /\ UNCHANGED <<up, signal, response>>
  /\ Save

\* fetch resolves: the response has a status, perhaps an id, and a body to read.
Headers(r) ==
  /\ up /\ pc[r] = "fetch"
  /\ UNCHANGED <<reserved, up, signal>>
  /\ \E id \in BOOLEAN :
       record' = [record EXCEPT ![r].status = "receiving", ![r].id = id]
  /\ \E kind \in Kinds \ {Absent} : response' = [response EXCEPT ![r].kind = kind]
  /\ pc' = [pc EXCEPT ![r] = "reading"]
  /\ Save

\* updateUsage, with the events parsed so far.
Parsed(n) == SubSeq(Wire, 1, n)
Completes(r, n) == response[r].completed \/ SawTerminalEvent(Parsed(n))
UpdateUsage(r, n) ==
  [record[r] EXCEPT !.usage = \E i \in 1 .. n : HasUsage(Wire[i]),
                    !.status = IF SawTerminalEvent(Parsed(n)) THEN "received" ELSE @]

\* A chunk of a stream completes some events.  updateUsage is called only if one
\* of them has usage.  Other bodies are only collected; then the await on a slow
\* client is the one on the next chunk.
Chunk(r) ==
  /\ up /\ pc[r] = "reading" /\ response[r].kind = "stream"
  /\ UNCHANGED <<pc, reserved, up, signal>>
  /\ \E n \in response[r].parsed + 1 .. Len(Wire) :
       LET changed == \E i \in response[r].parsed + 1 .. n : HasUsage(Wire[i]) IN
       /\ response' = [response EXCEPT ![r].parsed = n,
            ![r].completed = IF changed THEN Completes(r, n) ELSE @]
       /\ record' = IF changed THEN [record EXCEPT ![r] = UpdateUsage(r, n)] ELSE record
       /\ IF changed THEN Save ELSE UNCHANGED disk

\* The body ends, perhaps with an event that has no newline: update the usage
\* and answer the client.  Reading a whole body that is no stream completes it.
End(r) ==
  LET ok == response[r].kind /= "error" IN
  /\ up /\ pc[r] = "reading"
  /\ UNCHANGED <<reserved, up, signal>>
  /\ \E n \in response[r].parsed .. Len(Wire) :
       LET stream    == response[r].kind = "stream"
           completed == IF stream THEN Completes(r, n) ELSE ok
       IN /\ n > response[r].parsed => stream /\ n = response[r].parsed + 1
          /\ response' = [response EXCEPT ![r].parsed = n, ![r].completed = completed]
          /\ record' = [record EXCEPT ![r] =
               [UpdateUsage(r, n) EXCEPT !.usage = @ \/ response[r].kind = "json",
                                         !.status = StatusForResponse(completed, ok)]]
  /\ pc' = [pc EXCEPT ![r] = "done"]
  /\ Save

\* The catch.
Fail(r) ==
  LET error == StatusForError(response[r].completed, Reason(r)) IN
  /\ up /\ pc[r] \in {"fetch", "reading"}
  /\ UNCHANGED <<reserved, up, signal, response>>
  /\ record' = [record EXCEPT ![r].status = error.status,
                              ![r].clientError = error.clientError]
  /\ pc' = [pc EXCEPT ![r] = "done"]
  /\ Save

\* The abort signal reaches the await.
Abort(r) == signal[r] /= Absent /\ Fail(r)

\* The connection breaks, a body is too large, the client cannot be written to.
Break(r) == signal[r] = Absent /\ Fail(r)

\* A hang-up after the deadline is the reason the handler will give.
HangUp(r) ==
  /\ up /\ pc[r] \in {"fetch", "reading"} /\ signal[r] /= "client_disconnected"
  /\ signal' = [signal EXCEPT ![r] = "client_disconnected"]
  /\ UNCHANGED <<pc, reserved, record, disk, up, response>>

\* Mutant: the deadline covers the wait for the response only.
DeadlineForHeaders(r) ==
  /\ up /\ pc[r] = "fetch" /\ signal[r] = Absent
  /\ signal' = [signal EXCEPT ![r] = "deadline"]
  /\ UNCHANGED <<pc, reserved, record, disk, up, response>>

Deadline(r) ==
  /\ up /\ pc[r] \in {"fetch", "reading"} /\ signal[r] = Absent
  /\ signal' = [signal EXCEPT ![r] = "deadline"]
  /\ UNCHANGED <<pc, reserved, record, disk, up, response>>

\* docker removes the container; or a client hangs up while it sends its body,
\* which rejects a handler's promise that nobody awaits.
Kill ==
  /\ up
  /\ up' = FALSE
  /\ UNCHANGED <<pc, reserved, record, disk, signal, response>>

RelayStep(r) == \/ Refuse(r) \/ Reserve(r) \/ Headers(r) \/ Chunk(r) \/ End(r)
                \/ Abort(r) \/ Break(r) \/ HangUp(r) \/ Deadline(r)
RelayNext == Kill \/ \E r \in Requests : RelayStep(r)

\* Timers fire and the abort signal is delivered.
RelayFairness ==
  \A r \in Requests : WF_relayVars(Deadline(r)) /\ WF_relayVars(Abort(r))

-----------------------------------------------------------------------------
(***************************************************************************)
(* Properties.                                                             *)
(***************************************************************************)
Sent(r) == pc[r] \notin {"body", "refused"}

\* However the handlers interleave, what is reserved is the highest cost of all
\* requests sent to the gateway, answered or not, and fits the episode's budget.
ReservedWithinBudget ==
  /\ reserved = ReservedBy({r \in Requests : Sent(r)})
  /\ reserved <= Config.budget

\* Whenever the process dies, the file has every request that was sent: its
\* reservation, and the id of the response if it had arrived.
SentIsOnDisk ==
  \A r \in Requests : Sent(r) =>
    /\ disk.requests[r] /= NoRecord
    /\ disk.requests[r].id = record[r].id
    /\ disk.reserved >= disk.requests[r].reserved

\* A request the file shows as received stays so: no hang-up, deadline or
\* broken connection makes a billed answer an unknown one.
ReceivedIsFinal ==
  [][\A r \in Requests :
       up /\ disk.requests[r] /= NoRecord /\ disk.requests[r].status = "received"
         => disk'.requests[r].status = "received"]_relayVars

\* Every request that was sent gets its final status, unless the process dies.
RequestsEnd ==
  \A r \in Requests : Sent(r) ~> (~up \/ pc[r] = "done")

\* "A client-side disconnect after a real completion is never reported as
\* transport_unknown" (status.mjs:2-5): the relay has parsed a terminal event, and
\* its client hung up.
CompletedIsNeverUnknown ==
  \A r \in Requests :
    SawTerminalEvent(Parsed(response[r].parsed)) /\ signal[r] = "client_disconnected"
      => record[r].status /= "transport_unknown"
=============================================================================
