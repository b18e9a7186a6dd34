----------------------------- MODULE PartsProofs -----------------------------
(***************************************************************************)
(* Theorems about Audits, Datasets, Campaign and Budgets, for every number *)
(* of worker threads, commands, tokens, artifacts, connections, packs,     *)
(* plans, runs and reservations.                                           *)
(***************************************************************************)
EXTENDS Audits, Datasets, Campaign, Budgets, SumLemmas, FiniteSetTheorems,
        SequenceTheorems, TLAPS

(***************************************************************************)
(* Audits: the inductive invariant, in named parts.                        *)
(***************************************************************************)
AuditStates == {"idle", "ask", "renew", "install",
                "accepted", "unsettled", "unauthorized", "failed", "late"}

AuditsTypeOK ==
  /\ issued \in Nat \ {0}
  /\ old \subseteq 1 .. issued
  /\ envFile \in 0 .. issued /\ environ \in 0 .. issued /\ header \in 0 .. issued
  /\ audit \in [Auditors -> [at : AuditStates, token : 0 .. issued, renewed : BOOLEAN,
                             new : SUBSET (1 .. issued), made : Nat]]
  /\ record \in [Auditors -> SUBSET Facts]
  /\ mustSettle \in BOOLEAN
  /\ forbidden \subseteq Auditors

\* What a thread has got, and what was put to use since it began, does not expire
\* while it is busy.
TokensOutlive ==
  \A p \in Auditors :
    Busy(p) => audit[p].token \notin old /\ audit[p].new \cap old = {}

\* A thread that waits to install a token has one, and has not renewed before.
InstallsOnce ==
  \A p \in Auditors :
    /\ audit[p].at = "install" => audit[p].token /= 0
    /\ audit[p].at \in {"renew", "install"} => ~audit[p].renewed

\* Once a thread has renewed, whatever is in the header came after it began.
RenewedHeaderIsNew ==
  \A p \in Auditors : Busy(p) /\ audit[p].renewed => header \in audit[p].new

AuditsIInv ==
  /\ AuditsTypeOK
  /\ TokensOutlive
  /\ InstallsOnce
  /\ RenewedHeaderIsNew
  /\ AuditsAreJustified

-----------------------------------------------------------------------------
\* A step of one thread that leaves its token, its renewal and the platform alone:
\* it only has to end as it may.
LEMMA AuditMoves ==
  ASSUME AuditsIInv, NEW p \in Auditors, NEW outcome \in AuditStates,
         Busy(p), End(p, outcome),
         UNCHANGED <<issued, old, envFile, environ, header, record, mustSettle>>,
         forbidden' \subseteq Auditors, forbidden \subseteq forbidden',
         outcome # "install",
         outcome = "renew" => ~audit[p].renewed,
         outcome = "unauthorized" => p \in forbidden',
         outcome = "accepted" => record[p] = Facts,
         outcome = "unsettled" => ~mustSettle /\ Facts \ {"settled"} \subseteq record[p]
  PROVE  AuditsIInv'
<1>. USE DEF AuditsIInv
<1>1. /\ audit' \in [Auditors -> [at : AuditStates, token : 0 .. issued, renewed : BOOLEAN,
                                 new : SUBSET (1 .. issued), made : Nat]]
      /\ audit'[p].at = outcome /\ audit'[p].token = audit[p].token
      /\ audit'[p].renewed = audit[p].renewed /\ audit'[p].new = audit[p].new
      /\ \A q \in Auditors \ {p} : audit'[q] = audit[q]
  BY DEF AuditsTypeOK, End
<1>2. AuditsTypeOK'
  BY <1>1 DEF AuditsTypeOK
<1>3. \A q \in Auditors : /\ Busy(q)' => Busy(q)
                          /\ audit'[q].token = audit[q].token
                          /\ audit'[q].renewed = audit[q].renewed
                          /\ audit'[q].new = audit[q].new
  BY <1>1 DEF Busy
<1>4. TokensOutlive'
  BY <1>3 DEF TokensOutlive
<1>5. InstallsOnce'
  BY <1>1 DEF InstallsOnce
<1>6. RenewedHeaderIsNew'
  BY <1>3 DEF RenewedHeaderIsNew
<1>7. AuditsAreJustified'
  BY <1>1 DEF AuditsAreJustified
<1>. QED
  BY <1>2, <1>4, <1>5, <1>6, <1>7

\* Nobody is refused for a header that expired: a thread that has renewed once finds
\* a header in place that came after it began.
LEMMA RejectedStep ==
  ASSUME AuditsIInv, NEW p \in Auditors, Rejected(p)
  PROVE  AuditsIInv'
<1>1. Busy(p)
  BY DEF Rejected, Busy
<1>2. ~audit[p].renewed
  BY <1>1 DEF Rejected, AuditsIInv, RenewedHeaderIsNew, TokensOutlive, AuditsTypeOK
<1>3. End(p, "renew")
  BY <1>2 DEF Rejected, MayRenew
<1>. QED
  BY <1>1, <1>2, <1>3, AuditMoves DEF Rejected, AuditStates, AuditsIInv, AuditsTypeOK

LEMMA ForbidStep ==
  ASSUME AuditsIInv, NEW p \in Auditors, Forbid(p)
  PROVE  AuditsIInv'
BY AuditMoves DEF Forbid, Busy, AuditStates, AuditsIInv, AuditsTypeOK

LEMMA AnswerStep ==
  ASSUME AuditsIInv, NEW p \in Auditors, Answer(p)
  PROVE  AuditsIInv'
<1>. DEFINE outcome == IF "usage" \notin record[p] THEN "failed"
                       ELSE IF "settled" \in record[p] THEN "accepted" ELSE "unsettled"
<1>1. Busy(p) /\ End(p, outcome) /\ outcome \in {"failed", "accepted", "unsettled"}
  BY DEF Answer, Busy
<1>2. record[p] \subseteq Facts
  BY DEF AuditsIInv, AuditsTypeOK
<1>3. outcome = "accepted" => record[p] = Facts
  BY <1>2 DEF Answer, Incomplete, Facts
<1>4. outcome = "unsettled" => ~mustSettle /\ Facts \ {"settled"} \subseteq record[p]
  BY <1>2 DEF Answer, Incomplete, Facts
<1>5. /\ UNCHANGED <<issued, old, envFile, environ, header, record, mustSettle>>
      /\ forbidden' \subseteq Auditors /\ forbidden \subseteq forbidden'
  BY DEF Answer, AuditsIInv, AuditsTypeOK
<1>6. outcome \in AuditStates
  BY <1>1 DEF AuditStates
<1>. HIDE DEF outcome
<1>. QED
  BY <1>1, <1>3, <1>4, <1>5, <1>6, AuditMoves

LEMMA GiveUpStep ==
  ASSUME AuditsIInv, NEW p \in Auditors, GiveUp(p)
  PROVE  AuditsIInv'
BY AuditMoves DEF GiveUp, Busy, AuditStates, AuditsIInv, AuditsTypeOK

\* The log grows only under a thread that still asks.
LEMMA GrowStep ==
  ASSUME AuditsIInv, NEW p \in Auditors, Grow(p)
  PROVE  AuditsIInv'
<1>. USE DEF AuditsIInv
<1>1. PICK f \in Facts : record' = [record EXCEPT ![p] = @ \cup {f}]
  BY DEF Grow
<1>2. AuditsTypeOK'
  BY <1>1 DEF Grow, AuditsTypeOK
<1>3. AuditsAreJustified'
  BY <1>1 DEF Grow, Busy, AuditsAreJustified, AuditsTypeOK
<1>. QED
  BY <1>2, <1>3 DEF Grow, TokensOutlive, InstallsOnce, RenewedHeaderIsNew, Busy

LEMMA ExpireStep ==
  ASSUME AuditsIInv, NEW t, Expire(t)
  PROVE  AuditsIInv'
<1>. USE DEF AuditsIInv
<1>1. AuditsTypeOK'
  BY DEF Expire, AuditsTypeOK
<1>2. TokensOutlive'
  BY DEF Expire, TokensOutlive, Busy
<1>. QED
  BY <1>1, <1>2 DEF Expire, InstallsOnce, RenewedHeaderIsNew, AuditsAreJustified, Busy

\* A command begins and ends with no audit under way.
LEMMA AuditsReset ==
  ASSUME AuditsTypeOK', audit' = [p \in Auditors |-> NoAudit]
  PROVE  AuditsIInv'
BY DEF NoAudit, Busy, AuditsIInv, TokensOutlive, InstallsOnce, RenewedHeaderIsNew, AuditsAreJustified

LEMMA CommandStep ==
  ASSUME AuditsIInv, Command
  PROVE  AuditsIInv'
<1>. USE DEF AuditsIInv
<1>1. /\ issued' \in Nat \ {0} /\ issued <= issued' /\ header' \in 0 .. issued'
      /\ envFile' \in 0 .. issued' /\ environ' \in 0 .. issued'
  <2>. DEFINE token == IF environ = 0 THEN envFile ELSE environ
  <2>1. token \in 0 .. issued
    BY DEF AuditsTypeOK
  <2>2. CASE Fresh(token)
    BY <2>1, <2>2 DEF Command, AuditsTypeOK
  <2>3. CASE ~Fresh(token)
    BY <2>3 DEF Command, Login, AuditsTypeOK
  <2>. QED
    BY <2>2, <2>3
<1>2. audit' = [p \in Auditors |-> NoAudit] /\ UNCHANGED <<old, record, mustSettle, forbidden>>
  BY DEF Command
<1>. QED
  BY <1>1, <1>2, AuditsReset DEF AuditsTypeOK, NoAudit, AuditStates

LEMMA QuitStep ==
  ASSUME AuditsIInv, Quit
  PROVE  AuditsIInv'
BY AuditsReset DEF Quit, AuditsIInv, AuditsTypeOK, NoAudit, AuditStates

LEMMA ResolveStep ==
  ASSUME AuditsIInv, NEW p \in Auditors, Resolve(p)
  PROVE  AuditsIInv'
<1>. USE DEF AuditsIInv
<1>1. /\ audit'[p] = [at |-> "ask", token |-> 0, renewed |-> FALSE, new |-> {},
                      made |-> audit[p].made + 1]
      /\ \A q \in Auditors \ {p} : audit'[q] = audit[q]
      /\ record'[p] = {} /\ \A q \in Auditors \ {p} : record'[q] = record[q]
  BY DEF Resolve, NoAudit, AuditsTypeOK
<1>2. AuditsTypeOK'
  <2>1. audit'[p] \in [at : AuditStates, token : 0 .. issued, renewed : BOOLEAN,
                       new : SUBSET (1 .. issued), made : Nat]
    <3>1. audit[p].made + 1 \in Nat /\ 0 \in 0 .. issued
      BY DEF AuditsTypeOK
    <3>. QED
      BY <1>1, <3>1 DEF AuditStates
  <2>2. audit' \in [Auditors -> [at : AuditStates, token : 0 .. issued, renewed : BOOLEAN,
                                new : SUBSET (1 .. issued), made : Nat]]
    BY <1>1, <2>1 DEF Resolve, AuditsTypeOK
  <2>. QED
    BY <2>2 DEF Resolve, AuditsTypeOK
<1>3. TokensOutlive'
  <2>1. 0 \notin old /\ UNCHANGED old
    BY DEF Resolve, AuditsTypeOK
  <2>. QED
    BY <1>1, <2>1 DEF TokensOutlive, Busy
<1>4. InstallsOnce'
  BY <1>1 DEF InstallsOnce
<1>5. RenewedHeaderIsNew'
  <2>1. UNCHANGED header /\ ~audit'[p].renewed
    <3>1. audit'[p] = [NoAudit EXCEPT !.at = "ask", !.made = audit[p].made + 1]
      BY DEF Resolve, AuditsIInv, AuditsTypeOK
    <3>2. audit'[p].renewed = NoAudit.renewed
      BY <3>1 DEF NoAudit
    <3>3. ~NoAudit.renewed
      BY DEF NoAudit
    <3>. QED
      BY <3>2, <3>3 DEF Resolve
  <2>2. \A q \in Auditors \ {p} : (Busy(q)' <=> Busy(q)) /\ audit'[q] = audit[q]
    BY <1>1 DEF Busy
  <2>. QED
    BY <2>1, <2>2 DEF RenewedHeaderIsNew
<1>6. AuditsAreJustified'
  BY <1>1 DEF AuditsAreJustified, Resolve
<1>. QED
  BY <1>2, <1>3, <1>4, <1>5, <1>6

LEMMA RenewStep ==
  ASSUME AuditsIInv, NEW p \in Auditors, Renew(p)
  PROVE  AuditsIInv'
<1>. USE DEF AuditsIInv
<1>1. /\ issued' = issued + 1 /\ audit[p].at = "renew" /\ envFile' = issued' /\ environ' = issued'
      /\ UNCHANGED <<old, header, record, mustSettle, forbidden>>
      /\ audit'[p] = [at |-> "install", token |-> issued', renewed |-> audit[p].renewed,
                      new |-> audit[p].new, made |-> audit[p].made]
      /\ \A q \in Auditors \ {p} : audit'[q] = audit[q]
  BY DEF Renew, Login, AuditsTypeOK
<1>2. AuditsTypeOK'
  <2>1. issued' \in Nat \ {0} /\ issued <= issued'
    BY <1>1 DEF AuditsTypeOK
  <2>2. audit' \in [Auditors -> [at : AuditStates, token : 0 .. issued', renewed : BOOLEAN,
                                new : SUBSET (1 .. issued'), made : Nat]]
    BY <1>1, <2>1 DEF Renew, AuditsTypeOK, AuditStates
  <2>. QED
    BY <1>1, <2>1, <2>2 DEF AuditsTypeOK
<1>3. TokensOutlive'
  BY <1>1 DEF TokensOutlive, Busy, AuditsTypeOK
<1>4. InstallsOnce'
  BY <1>1 DEF InstallsOnce, AuditsTypeOK
<1>5. RenewedHeaderIsNew'
  BY <1>1 DEF RenewedHeaderIsNew, Busy
<1>6. AuditsAreJustified'
  BY <1>1 DEF AuditsAreJustified
<1>. QED
  BY <1>2, <1>3, <1>4, <1>5, <1>6

\* Whoever is busy sees the new header come, however old its token is.
LEMMA InstallStep ==
  ASSUME AuditsIInv, NEW p \in Auditors, Install(p)
  PROVE  AuditsIInv'
<1>. USE DEF AuditsIInv
<1>. DEFINE token == audit[p].token
<1>0. audit[p].at = "install" /\ Busy(p)
  BY DEF Install, Busy
<1>1. token \in 1 .. issued /\ token \notin old
  BY <1>0 DEF TokensOutlive, InstallsOnce, AuditsTypeOK
<1>2. header' = token /\ UNCHANGED <<issued, old, envFile, environ, record, mustSettle, forbidden>>
  BY DEF Install
<1>3. /\ audit'[p].at = "ask"
      /\ \A q \in Auditors :
           /\ q # p => audit'[q].at = audit[q].at /\ audit'[q].renewed = audit[q].renewed
           /\ audit'[q].token = audit[q].token
           /\ Busy(q) => audit'[q].new = audit[q].new \cup {token}
           /\ ~Busy(q) => audit'[q] = audit[q]
  <2>1. \A q \in Auditors :
          audit[q] \in [at : AuditStates, token : 0 .. issued, renewed : BOOLEAN,
                        new : SUBSET (1 .. issued), made : Nat]
    BY DEF AuditsTypeOK
  <2>2. \A q \in Auditors :
          LET a == IF Busy(q) THEN [audit[q] EXCEPT !.new = @ \cup {token}] ELSE audit[q]
          IN audit'[q] = IF q = p THEN [a EXCEPT !.at = "ask", !.renewed = TRUE] ELSE a
    BY <1>2 DEF Install
  <2>. QED
    BY <1>0, <2>1, <2>2
<1>4. \A q \in Auditors :
        audit'[q] \in [at : AuditStates, token : 0 .. issued, renewed : BOOLEAN,
                       new : SUBSET (1 .. issued), made : Nat]
  <2>. TAKE q \in Auditors
  <2>1. audit[q] \in [at : AuditStates, token : 0 .. issued, renewed : BOOLEAN,
                      new : SUBSET (1 .. issued), made : Nat]
    BY DEF AuditsTypeOK
  <2>2. "ask" \in AuditStates
    BY DEF AuditStates
  <2>3. [audit[q] EXCEPT !.new = @ \cup {token}]
          \in [at : AuditStates, token : 0 .. issued, renewed : BOOLEAN,
              new : SUBSET (1 .. issued), made : Nat]
    BY <1>1, <2>1
  <2>4. PICK a \in [at : AuditStates, token : 0 .. issued, renewed : BOOLEAN,
                    new : SUBSET (1 .. issued), made : Nat] :
          audit'[q] = IF q = p THEN [a EXCEPT !.at = "ask", !.renewed = TRUE] ELSE a
    BY <1>2, <2>1, <2>3 DEF Install
  <2>. QED
    BY <2>2, <2>4
<1>5. audit' = [q \in Auditors |-> audit'[q]]
  BY DEF Install
<1>. HIDE DEF token
<1>6. AuditsTypeOK'
  <2>1. audit' \in [Auditors -> [at : AuditStates, token : 0 .. issued, renewed : BOOLEAN,
                                new : SUBSET (1 .. issued), made : Nat]]
    BY <1>4, <1>5
  <2>. QED
    BY <1>1, <1>2, <2>1 DEF AuditsTypeOK
<1>7. \A q \in Auditors : /\ Busy(q)' <=> Busy(q)
                          /\ audit'[q].token = audit[q].token
                          /\ Busy(q) => audit'[q].new = audit[q].new \cup {token}
  BY <1>0, <1>3 DEF Busy
<1>8. TokensOutlive'
  BY <1>1, <1>2, <1>7 DEF TokensOutlive
<1>9. InstallsOnce'
  BY <1>2, <1>3 DEF InstallsOnce
<1>10. RenewedHeaderIsNew'
  BY <1>2, <1>7 DEF RenewedHeaderIsNew
<1>11. AuditsAreJustified'
  BY <1>2, <1>3 DEF AuditsAreJustified
<1>. QED
  BY <1>6, <1>8, <1>9, <1>10, <1>11

\* However the threads, the platform and the clock take their turns, the invariant
\* holds.
THEOREM AuditsInvariant == AuditsSpec => []AuditsIInv
<1>1. AuditsInit => AuditsIInv
  <2>. SUFFICES ASSUME AuditsInit PROVE AuditsIInv
    OBVIOUS
  <2>1. AuditsTypeOK
    BY DEF AuditsInit, AuditsTypeOK, NoAudit, AuditStates
  <2>. QED
    BY <2>1 DEF AuditsInit, NoAudit, Busy, AuditsIInv, TokensOutlive, InstallsOnce,
                RenewedHeaderIsNew, AuditsAreJustified
<1>2. AuditsIInv /\ [AuditsNext]_auditVars => AuditsIInv'
  <2>. SUFFICES ASSUME AuditsIInv, [AuditsNext]_auditVars PROVE AuditsIInv'
    OBVIOUS
  <2>1. CASE UNCHANGED auditVars
    BY <2>1 DEF auditVars, Busy, AuditsIInv, AuditsTypeOK, TokensOutlive, InstallsOnce,
                RenewedHeaderIsNew, AuditsAreJustified
  <2>2. CASE Command \/ Quit \/ \E t \in 1 .. MaxTokens : Expire(t)
    BY <2>2, CommandStep, QuitStep, ExpireStep
  <2>3. ASSUME NEW p \in Auditors,
               \/ Grow(p) \/ Resolve(p) \/ Rejected(p) \/ Forbid(p)
               \/ Renew(p) \/ Install(p) \/ Answer(p) \/ GiveUp(p)
        PROVE  AuditsIInv'
    BY <2>3, GrowStep, ResolveStep, RejectedStep, ForbidStep, RenewStep, InstallStep,
       AnswerStep, GiveUpStep
  <2>. QED
    BY <2>1, <2>2, <2>3 DEF AuditsNext
<1>. QED
  BY <1>1, <1>2, PTL DEF AuditsSpec

\* AuditsAreJustified of audit.py and platform_auth.py: no thread stops for a token
\* that expired, however many threads renew it over each other, and what is accepted
\* is whole.
THEOREM AuditsJustified == AuditsSpec => []AuditsAreJustified
BY AuditsInvariant, PTL DEF AuditsIInv

-----------------------------------------------------------------------------
(***************************************************************************)
(* Datasets: the inductive invariant, in named parts.                      *)
(***************************************************************************)
Doings == {"check", "get", "download", "frozen", "altered", "present", "read",
           "unpack", "write_frozen", "write_altered", "unpacked"}
Steps  == [do : Doings, of : Artifacts]

DatasetsTypeOK ==
  /\ cached \in [Artifacts -> {"absent", "frozen", "altered"}]
  /\ unpacked \in [Range(Resources) -> {"absent", "partial", "frozen", "altered"}]
  /\ shell \in [Shells -> Seq(Steps)]

\* What a command does in the middle of a step.
Midway == {"altered", "write_frozen", "write_altered"}

\* Only the cases are read, only archives are unpacked, and only the first step of a
\* command is under way.
Placed(steps) ==
  \A i \in 1 .. Len(steps) :
    /\ i > 1 => steps[i].do \notin Midway
    /\ steps[i].do = "read" => steps[i].of = CaseFile
    /\ steps[i].do \in {"unpack", "write_frozen", "write_altered"} =>
         steps[i].of \in Range(Resources)

\* Before these steps the hash of the artifact has not been compared.
Untrusting == {"check", "get", "download", "altered"}

\* What these steps read or unpack without another look at its hash.
Trusts(steps, a) ==
  \E i \in 1 .. Len(steps) :
    /\ steps[i].of = a /\ steps[i].do \in {"read", "unpack"}
    /\ \A j \in 1 .. i : steps[j].of = a => steps[j].do \notin Untrusting

\* Who trusts an altered artifact has been overtaken by a download.
TrustIsRaced ==
  \A p \in Shells, a \in Artifacts :
    cached[a] = "altered" /\ Trusts(shell[p], a) => Step("raced", a) \in tainted

\* So has who unpacks one.
WriteIsRaced ==
  \A p \in Shells, a \in Artifacts :
    Now(p, "write_altered", a) => Step("raced", a) \in tainted

DatasetsIInv ==
  /\ DatasetsTypeOK
  /\ \A p \in Shells : Placed(shell[p])
  /\ TrustIsRaced
  /\ WriteIsRaced
  /\ CachesAreHonest

-----------------------------------------------------------------------------
(***************************************************************************)
(* Sequences of steps.                                                     *)
(***************************************************************************)

LEMMA FirstStep ==
  ASSUME NEW steps \in Seq(Steps), steps # <<>>
  PROVE  /\ Len(steps) \in Nat \ {0} /\ 1 \in 1 .. Len(steps)
         /\ steps[1] \in Steps /\ Head(steps) = steps[1]
OBVIOUS

\* What is left of a command after its first step.
LEMMA TailOfSteps ==
  ASSUME NEW steps \in Seq(Steps), steps # <<>>, Placed(steps)
  PROVE  /\ Head(steps) \in Steps /\ Head(steps) = steps[1]
         /\ Tail(steps) \in Seq(Steps) /\ Placed(Tail(steps))
         /\ Tail(steps) # <<>> => Head(Tail(steps)).do \notin Midway
         /\ \A a : Trusts(Tail(steps), a) =>
              Trusts(steps, a) \/ (Head(steps).of = a /\ Head(steps).do \in Untrusting)
<1>1. /\ Len(steps) \in Nat \ {0} /\ Head(steps) \in Steps /\ Head(steps) = steps[1]
      /\ Tail(steps) \in Seq(Steps) /\ Len(Tail(steps)) = Len(steps) - 1
      /\ \A i \in 1 .. Len(steps) - 1 : Tail(steps)[i] = steps[i + 1]
  OBVIOUS
<1>2. Placed(Tail(steps))
  <2>1. \A i \in 1 .. Len(Tail(steps)) :
          i + 1 \in 1 .. Len(steps) /\ i + 1 > 1 /\ Tail(steps)[i] = steps[i + 1]
    BY <1>1
  <2>. QED
    BY <2>1 DEF Placed
<1>3. ASSUME NEW a, Trusts(Tail(steps), a),
             ~(Head(steps).of = a /\ Head(steps).do \in Untrusting)
      PROVE  Trusts(steps, a)
  <2>1. PICK i \in 1 .. Len(steps) - 1 :
          /\ steps[i + 1].of = a /\ steps[i + 1].do \in {"read", "unpack"}
          /\ \A j \in 1 .. i : steps[j + 1].of = a => steps[j + 1].do \notin Untrusting
    BY <1>1, <1>3 DEF Trusts
  <2>2. i + 1 \in 1 .. Len(steps)
    BY <1>1, <2>1
  <2>3. \A j \in 1 .. i + 1 : steps[j].of = a => steps[j].do \notin Untrusting
    <3>. TAKE j \in 1 .. i + 1
    <3>1. CASE j = 1
      BY <3>1, <1>1, <1>3
    <3>2. CASE j # 1
      <4>1. PICK k \in 1 .. i : j = k + 1
        BY <3>2, <2>1, <1>1
      <4>. QED
        BY <2>1, <4>1
    <3>. QED
      BY <3>1, <3>2
  <2>. QED
    BY <2>1, <2>2, <2>3 DEF Trusts
<1>5. Tail(steps) # <<>> => Head(Tail(steps)).do \notin Midway
  <2>. SUFFICES ASSUME Tail(steps) # <<>> PROVE Head(Tail(steps)).do \notin Midway
    OBVIOUS
  <2>1. Head(Tail(steps)) = Tail(steps)[1] /\ Len(Tail(steps)) \in Nat \ {0}
    BY <1>1, FirstStep
  <2>2. Head(Tail(steps)) = steps[2] /\ 2 \in 1 .. Len(steps) /\ 2 > 1
    BY <1>1, <2>1
  <2>. QED
    BY <2>2 DEF Placed
<1>4. \A a : Trusts(Tail(steps), a) =>
         Trusts(steps, a) \/ (Head(steps).of = a /\ Head(steps).do \in Untrusting)
  BY <1>3, Zenon
<1>. QED
  BY <1>1, <1>2, <1>4, <1>5

LEMMA FirstTurned ==
  ASSUME NEW step \in Steps, NEW do \in Doings
  PROVE  /\ [step EXCEPT !.do = do] \in Steps
         /\ [step EXCEPT !.do = do] = Step(do, step.of)
BY DEF Steps, Step

LEMMA FirstReplaced ==
  ASSUME NEW steps \in Seq(Steps), steps # <<>>, NEW step \in Steps
  PROVE  /\ [steps EXCEPT ![1] = step] \in Seq(Steps)
         /\ Len([steps EXCEPT ![1] = step]) = Len(steps)
         /\ \A i \in 1 .. Len(steps) :
              [steps EXCEPT ![1] = step][i] = IF i = 1 THEN step ELSE steps[i]
<1>1. 1 \in 1 .. Len(steps)
  BY FirstStep
<1>. QED
  BY <1>1, ExceptSeq

LEMMA OtherFirst ==
  ASSUME NEW steps \in Seq(Steps), steps # <<>>, Placed(steps), NEW do \in Doings,
         do \notin {"read", "unpack"},
         do \in {"write_frozen", "write_altered"} => Head(steps).of \in Range(Resources),
         NEW next \in Seq(Steps), Len(next) = Len(steps),
         next[1].do = do, next[1].of = Head(steps).of,
         \A i \in 1 .. Len(steps) : i # 1 => next[i] = steps[i]
  PROVE  /\ Placed(next)
         /\ \A a : Trusts(next, a) =>
              Trusts(steps, a) \/ (Head(steps).of = a /\ Head(steps).do \in Untrusting)
         /\ do \in Untrusting => ~Trusts(next, Head(steps).of)
<1>1. /\ Len(steps) \in Nat \ {0} /\ 1 \in 1 .. Len(steps)
      /\ steps[1] \in Steps /\ Head(steps) = steps[1]
  BY FirstStep
<1>2. Placed(next)
  <2>. SUFFICES ASSUME NEW i \in 1 .. Len(steps)
                PROVE  /\ i > 1 => next[i].do \notin Midway
                       /\ next[i].do = "read" => next[i].of = CaseFile
                       /\ next[i].do \in {"unpack", "write_frozen", "write_altered"} =>
                            next[i].of \in Range(Resources)
    BY DEF Placed
  <2>1. CASE i = 1
    BY <2>1
  <2>2. CASE i # 1
    BY <2>2 DEF Placed
  <2>. QED
    BY <2>1, <2>2
<1>3. ASSUME NEW a, Trusts(next, a), ~Trusts(steps, a)
      PROVE  Head(steps).of = a /\ Head(steps).do \in Untrusting
  <2>1. PICK i \in 1 .. Len(steps) :
          /\ next[i].of = a /\ next[i].do \in {"read", "unpack"}
          /\ \A j \in 1 .. i : next[j].of = a => next[j].do \notin Untrusting
    BY <1>3 DEF Trusts
  <2>2. i # 1 /\ next[i] = steps[i]
    BY <2>1
  <2>3. PICK j \in 1 .. i : steps[j].of = a /\ steps[j].do \in Untrusting
    BY <1>3, <2>1, <2>2 DEF Trusts
  <2>4. j \in 1 .. Len(steps)
    BY <1>1, <2>1, <2>3
  <2>5. j = 1
    BY <2>1, <2>3, <2>4
  <2>. QED
    BY <1>1, <2>3, <2>5
<1>4. do \in Untrusting => ~Trusts(next, Head(steps).of)
  <2>1. \A i \in 1 .. Len(next) : 1 \in 1 .. i
    BY <1>1
  <2>. QED
    BY <2>1 DEF Trusts
<1>. QED
  BY <1>2, <1>3, <1>4

\* The first step of a command turns into the next part of itself.
LEMMA TurnOfSteps ==
  ASSUME NEW steps \in Seq(Steps), steps # <<>>, Placed(steps), NEW do \in Doings,
         do \notin {"read", "unpack"},
         do \in {"write_frozen", "write_altered"} => Head(steps).of \in Range(Resources)
  PROVE  LET next == [steps EXCEPT ![1].do = do]
         IN /\ next \in Seq(Steps) /\ next # <<>> /\ Head(next) = Step(do, Head(steps).of)
            /\ Placed(next)
            /\ \A a : Trusts(next, a) =>
                 Trusts(steps, a) \/ (Head(steps).of = a /\ Head(steps).do \in Untrusting)
            /\ do \in Untrusting => ~Trusts(next, Head(steps).of)
<1>1. PICK first : first = [steps[1] EXCEPT !.do = do]
  OBVIOUS
<1>2. /\ Len(steps) \in Nat \ {0} /\ 1 \in 1 .. Len(steps)
      /\ steps[1] \in Steps /\ Head(steps) = steps[1]
  BY FirstStep
<1>3. first \in Steps /\ first = Step(do, Head(steps).of)
  BY <1>1, <1>2, FirstTurned
<1>4. first.do = do /\ first.of = Head(steps).of
  BY <1>3 DEF Step
<1>5. PICK next : next = [steps EXCEPT ![1] = first]
  OBVIOUS
<1>6. /\ next \in Seq(Steps) /\ Len(next) = Len(steps)
      /\ \A i \in 1 .. Len(steps) : next[i] = IF i = 1 THEN first ELSE steps[i]
  <2>1. /\ [steps EXCEPT ![1] = first] \in Seq(Steps)
        /\ Len([steps EXCEPT ![1] = first]) = Len(steps)
        /\ \A i \in 1 .. Len(steps) :
             [steps EXCEPT ![1] = first][i] = IF i = 1 THEN first ELSE steps[i]
    BY <1>3, FirstReplaced
  <2>. QED
    BY <1>5, <2>1, Zenon
<1>7. next[1] = first /\ next # <<>>
  BY <1>2, <1>6
<1>8. Head(next) = Step(do, Head(steps).of)
  BY <1>3, <1>6, <1>7, FirstStep
<1>9. /\ Placed(next)
      /\ \A a : Trusts(next, a) =>
           Trusts(steps, a) \/ (Head(steps).of = a /\ Head(steps).do \in Untrusting)
      /\ do \in Untrusting => ~Trusts(next, Head(steps).of)
  BY <1>4, <1>6, <1>7, OtherFirst
<1>10. next = [steps EXCEPT ![1].do = do]
  BY <1>1, <1>5
<1>. QED
  BY <1>6, <1>7, <1>8, <1>9, <1>10

LEMMA NoSteps ==
  <<>> \in Seq(Steps) /\ Placed(<<>>) /\ \A a : ~Trusts(<<>>, a)
BY DEF Placed, Trusts

\* The same step for every archive.
LEMMA EachStep ==
  ASSUME NEW do \in Doings
  PROVE  /\ Each(do) \in Seq(Steps) /\ Len(Each(do)) = Len(Resources)
         /\ \A i \in 1 .. Len(Resources) :
              /\ Each(do)[i].do = do /\ Each(do)[i].of = Resources[i]
              /\ Resources[i] \in Range(Resources)
<1>1. /\ Len(Resources) \in Nat
      /\ \A i \in 1 .. Len(Resources) : Resources[i] \in Range(Resources)
  BY DatasetsAssumption
<1>2. PICK n \in Nat : n = Len(Resources)
  BY <1>1
<1>3. \A i \in 1 .. n : Step(do, Resources[i]) \in Steps
  BY <1>1, <1>2 DEF Steps, Step, Artifacts
<1>4. \A i \in 1 .. n : Step(do, Resources[i]).do = do /\ Step(do, Resources[i]).of = Resources[i]
  BY DEF Step
<1>5. PICK each : each = [i \in 1 .. n |-> Step(do, Resources[i])]
  OBVIOUS
<1>6. /\ each \in Seq(Steps) /\ Len(each) = n
      /\ \A i \in 1 .. n : each[i] = Step(do, Resources[i])
  BY <1>3, <1>5
<1>7. each = Each(do)
  BY <1>2, <1>5 DEF Each
<1>. QED
  BY <1>1, <1>2, <1>4, <1>6, <1>7

\* A program looks at the hash of an artifact before it reads or unpacks it, and
\* does not start in the middle of a step.
Careful(steps) ==
  /\ steps \in Seq(Steps) /\ Placed(steps)
  /\ \A a : ~Trusts(steps, a)
  /\ \A i \in 1 .. Len(steps) : steps[i].do \notin Midway

LEMMA StepsConcat ==
  ASSUME NEW s \in Seq(Steps), NEW t \in Seq(Steps)
  PROVE  /\ s \o t \in Seq(Steps) /\ Len(s \o t) = Len(s) + Len(t)
         /\ Len(s) \in Nat /\ Len(t) \in Nat
         /\ \A i \in 1 .. Len(s) : (s \o t)[i] = s[i]
         /\ \A i \in 1 .. Len(t) : (s \o t)[Len(s) + i] = t[i]
OBVIOUS

\* Two careful programs after one another are one.
LEMMA CarefulConcat ==
  ASSUME NEW s, NEW t, Careful(s), Careful(t)
  PROVE  Careful(s \o t)
<1>1. PICK u : u = s \o t
  OBVIOUS
<1>2. /\ Len(s) \in Nat /\ Len(t) \in Nat
      /\ u \in Seq(Steps) /\ Len(u) = Len(s) + Len(t)
      /\ \A i \in 1 .. Len(s) : u[i] = s[i]
      /\ \A i \in 1 .. Len(t) : u[Len(s) + i] = t[i]
  <2>1. s \in Seq(Steps) /\ t \in Seq(Steps)
    BY DEF Careful
  <2>. QED
    BY <1>1, <2>1, StepsConcat
<1>3. \A i \in 1 .. Len(u) : i \in 1 .. Len(s) \/ \E k \in 1 .. Len(t) : i = Len(s) + k
  <2>. TAKE i \in 1 .. Len(u)
  <2>1. CASE i <= Len(s)
    BY <1>2, <2>1
  <2>2. CASE i > Len(s)
    <3>1. i - Len(s) \in 1 .. Len(t) /\ i = Len(s) + (i - Len(s))
      BY <1>2, <2>2
    <3>. QED
      BY <3>1
  <2>. QED
    BY <1>2, <2>1, <2>2
<1>5. \A i \in 1 .. Len(u) : u[i].do \notin Midway
  BY <1>2, <1>3 DEF Careful
<1>4. Placed(u)
  <2>1. \A i \in 1 .. Len(u) :
          /\ u[i].do = "read" => u[i].of = CaseFile
          /\ u[i].do \in {"unpack", "write_frozen", "write_altered"} => u[i].of \in Range(Resources)
    <3>1. /\ \A i \in 1 .. Len(s) :
               /\ s[i].do = "read" => s[i].of = CaseFile
               /\ s[i].do \in {"unpack", "write_frozen", "write_altered"} =>
                    s[i].of \in Range(Resources)
          /\ \A i \in 1 .. Len(t) :
               /\ t[i].do = "read" => t[i].of = CaseFile
               /\ t[i].do \in {"unpack", "write_frozen", "write_altered"} =>
                    t[i].of \in Range(Resources)
      BY DEF Careful, Placed
    <3>. TAKE i \in 1 .. Len(u)
    <3>2. CASE i \in 1 .. Len(s)
      <4>1. u[i] = s[i]
        BY <1>2, <3>2
      <4>. QED
        BY <3>1, <3>2, <4>1
    <3>3. ASSUME NEW k \in 1 .. Len(t), i = Len(s) + k
          PROVE  /\ u[i].do = "read" => u[i].of = CaseFile
                 /\ u[i].do \in {"unpack", "write_frozen", "write_altered"} =>
                      u[i].of \in Range(Resources)
      <4>1. u[i] = t[k]
        BY <1>2, <3>3
      <4>. QED
        BY <3>1, <4>1
    <3>. QED
      BY <1>3, <3>2, <3>3, Zenon
  <2>. QED
    BY <1>5, <2>1 DEF Placed
<1>6. ASSUME NEW a, Trusts(u, a) PROVE FALSE
  <2>1. PICK i \in 1 .. Len(u) :
          /\ u[i].of = a /\ u[i].do \in {"read", "unpack"}
          /\ \A j \in 1 .. i : u[j].of = a => u[j].do \notin Untrusting
    BY <1>6 DEF Trusts
  <2>2. CASE i \in 1 .. Len(s)
    <3>1. \A j \in 1 .. i : j \in 1 .. Len(s) /\ u[j] = s[j]
      BY <1>2, <2>2
    <3>2. Trusts(s, a)
      BY <1>2, <2>1, <2>2, <3>1 DEF Trusts
    <3>. QED
      BY <3>2 DEF Careful
  <2>3. ASSUME NEW k \in 1 .. Len(t), i = Len(s) + k PROVE FALSE
    <3>1. \A j \in 1 .. k : /\ j \in 1 .. Len(t) /\ Len(s) + j \in 1 .. i
                            /\ u[Len(s) + j] = t[j]
      BY <1>2, <2>3
    <3>2. \A j \in 1 .. k : t[j].of = a => t[j].do \notin Untrusting
      BY <2>1, <3>1
    <3>3. t[k].of = a /\ t[k].do \in {"read", "unpack"}
      BY <1>2, <2>1, <2>3
    <3>4. Trusts(t, a)
      BY <3>2, <3>3 DEF Trusts
    <3>. QED
      BY <3>4 DEF Careful
  <2>. QED
    BY <1>3, <2>2, <2>3
<1>7. Careful(u)
  BY <1>2, <1>4, <1>5, <1>6 DEF Careful
<1>. QED
  BY <1>1, <1>7

\* Steps that look but take nothing.
LEMMA CarefulEach ==
  ASSUME NEW do \in {"check", "get", "unpacked"}
  PROVE  Careful(Each(do))
<1>1. PICK steps : steps = Each(do)
  OBVIOUS
<1>2. steps \in Seq(Steps) /\ \A i \in 1 .. Len(steps) : steps[i].do = do
  <2>1. do \in Doings
    BY DEF Doings
  <2>. QED
    BY <1>1, <2>1, EachStep
<1>3. Careful(steps)
  BY <1>2 DEF Careful, Placed, Trusts, Midway
<1>. QED
  BY <1>1, <1>3

\* Two steps over the cases, of which the first looks at their hash.
LEMMA CarefulPair ==
  ASSUME NEW first \in {"check", "get"}, NEW second \in {"present", "read"}
  PROVE  Careful(<<Step(first, CaseFile), Step(second, CaseFile)>>)
<1>1. PICK steps : steps = <<Step(first, CaseFile), Step(second, CaseFile)>>
  OBVIOUS
<1>2. Step(first, CaseFile) \in Steps /\ Step(second, CaseFile) \in Steps
  BY DEF Step, Steps, Doings, Artifacts
<1>3. /\ steps \in Seq(Steps) /\ Len(steps) = 2
      /\ steps[1] = Step(first, CaseFile) /\ steps[2] = Step(second, CaseFile)
  BY <1>1, <1>2
<1>4. /\ steps[1].do = first /\ steps[1].of = CaseFile
      /\ steps[2].do = second /\ steps[2].of = CaseFile
  BY <1>3 DEF Step
<1>5. \A i \in 1 .. Len(steps) : i = 1 \/ i = 2
  BY <1>3
<1>6. Placed(steps)
  BY <1>4, <1>5 DEF Placed, Midway
<1>7. \A a : ~Trusts(steps, a)
  <2>1. \A i \in 1 .. Len(steps) : 1 \in 1 .. i
    BY <1>3
  <2>. QED
    BY <1>4, <1>5, <2>1 DEF Trusts, Untrusting
<1>8. Careful(steps)
  BY <1>3, <1>4, <1>5, <1>6, <1>7 DEF Careful, Midway
<1>. QED
  BY <1>1, <1>8

\* All archives are looked at before the first is unpacked.
LEMMA CarefulEvaluator == Careful(Each("get") \o Each("unpack"))
<1>1. PICK n, s, t : n = Len(Resources) /\ s = Each("get") /\ t = Each("unpack")
  OBVIOUS
<1>0. "get" \in Doings /\ "unpack" \in Doings
  BY DEF Doings
<1>2. /\ s \in Seq(Steps) /\ Len(s) = n
      /\ \A i \in 1 .. n : s[i].do = "get" /\ s[i].of = Resources[i]
  BY <1>0, <1>1, EachStep
<1>3. /\ t \in Seq(Steps) /\ Len(t) = n
      /\ \A i \in 1 .. n : t[i].do = "unpack" /\ t[i].of = Resources[i]
                          /\ Resources[i] \in Range(Resources)
  BY <1>0, <1>1, EachStep
<1>4. PICK u : u = s \o t
  OBVIOUS
<1>5. /\ n \in Nat /\ u \in Seq(Steps) /\ Len(u) = n + n
      /\ \A i \in 1 .. n : u[i] = s[i] /\ u[n + i] = t[i]
  <2>1. /\ u \in Seq(Steps) /\ Len(u) = Len(s) + Len(t) /\ Len(s) \in Nat
        /\ \A i \in 1 .. Len(s) : u[i] = s[i]
        /\ \A i \in 1 .. Len(t) : u[Len(s) + i] = t[i]
    BY <1>2, <1>3, <1>4, StepsConcat
  <2>. QED
    BY <1>2, <1>3, <2>1
<1>6. \A i \in 1 .. Len(u) : i \in 1 .. n \/ \E k \in 1 .. n : i = n + k
  <2>. TAKE i \in 1 .. Len(u)
  <2>1. i \in 1 .. n \/ (i - n \in 1 .. n /\ i = n + (i - n))
    BY <1>5
  <2>. QED
    BY <2>1
<1>7. Placed(u)
  <2>. SUFFICES ASSUME NEW i \in 1 .. Len(u)
                PROVE  /\ i > 1 => u[i].do \notin Midway
                       /\ u[i].do = "read" => u[i].of = CaseFile
                       /\ u[i].do \in {"unpack", "write_frozen", "write_altered"} =>
                            u[i].of \in Range(Resources)
    BY DEF Placed
  <2>1. CASE i \in 1 .. n
    BY <1>2, <1>5, <2>1 DEF Midway
  <2>2. ASSUME NEW k \in 1 .. n, i = n + k PROVE u[i].do = "unpack" /\ u[i].of \in Range(Resources)
    BY <1>3, <1>5, <2>2
  <2>. QED
    BY <1>6, <2>1, <2>2 DEF Midway
<1>8. ASSUME NEW a, Trusts(u, a) PROVE FALSE
  <2>1. PICK i \in 1 .. Len(u) :
          /\ u[i].of = a /\ u[i].do \in {"read", "unpack"}
          /\ \A j \in 1 .. i : u[j].of = a => u[j].do \notin Untrusting
    BY <1>8 DEF Trusts
  <2>2. PICK k \in 1 .. n : i = n + k
    BY <1>2, <1>5, <1>6, <2>1
  <2>3. u[k].do = "get" /\ u[k].of = Resources[k] /\ u[i].of = Resources[k]
    BY <1>2, <1>3, <1>5, <2>2
  <2>4. k \in 1 .. i
    BY <1>5, <2>2
  <2>. QED
    BY <2>1, <2>3, <2>4 DEF Untrusting
<1>9. \A i \in 1 .. Len(u) : u[i].do \notin Midway
  <2>. TAKE i \in 1 .. Len(u)
  <2>1. CASE i \in 1 .. n
    BY <1>2, <1>5, <2>1 DEF Midway
  <2>2. ASSUME NEW k \in 1 .. n, i = n + k PROVE u[i].do = "unpack"
    BY <1>3, <1>5, <2>2
  <2>. QED
    BY <1>6, <2>1, <2>2 DEF Midway
<1>10. Careful(u)
  BY <1>5, <1>7, <1>8, <1>9 DEF Careful
<1>. QED
  BY <1>1, <1>4, <1>10

LEMMA ProgramsAreCareful ==
  ASSUME NEW command \in DOMAIN Program
  PROVE  Careful(Program[command])
<1>1. Careful(Readiness)
  <2>1. Careful(<<Step("check", CaseFile), Step("present", CaseFile)>>)
    BY CarefulPair
  <2>2. Careful(Each("check")) /\ Careful(Each("unpacked"))
    BY CarefulEach
  <2>. QED
    BY <2>1, <2>2, CarefulConcat DEF Readiness
<1>2. Careful(Smoke)
  <2>1. Careful(<<Step("check", CaseFile), Step("read", CaseFile)>>)
    BY CarefulPair
  <2>2. Careful(Each("unpacked"))
    BY CarefulEach
  <2>. QED
    BY <2>1, <2>2, CarefulConcat DEF Smoke
<1>3. Careful(Readiness \o Smoke)
  BY <1>1, <1>2, CarefulConcat
<1>4. Careful(<<Step("get", CaseFile), Step("present", CaseFile)>>)
  BY CarefulPair
<1>5. Careful(Each("get") \o Each("unpack"))
  BY CarefulEvaluator
<1>6. /\ Program["dataset"] = <<Step("get", CaseFile), Step("present", CaseFile)>>
      /\ Program["evaluator"] = Each("get") \o Each("unpack")
      /\ Program["smoke"] = Smoke
      /\ Program["publication"] = Readiness \o Smoke
  BY DEF Program
<1>7. command \in {"dataset", "evaluator", "smoke", "publication"}
  BY DEF Program
<1>. QED
  BY <1>2, <1>3, <1>4, <1>5, <1>6, <1>7

-----------------------------------------------------------------------------
(***************************************************************************)
(* The steps of the commands.                                              *)
(***************************************************************************)

\* One command goes on to other steps: what the others trust and the caches decide
\* whether the invariant still holds.
LEMMA ShellMoves ==
  ASSUME DatasetsIInv, NEW p \in Shells, NEW steps \in Seq(Steps), Placed(steps),
         shell' = [shell EXCEPT ![p] = steps], tainted \subseteq tainted',
         cached' \in [Artifacts -> {"absent", "frozen", "altered"}],
         unpacked' \in [Range(Resources) -> {"absent", "partial", "frozen", "altered"}],
         \A a \in Artifacts :
           /\ cached'[a] = "altered" /\ Trusts(steps, a) => Step("raced", a) \in tainted'
           /\ \A q \in Shells \ {p} :
                cached'[a] = "altered" /\ Trusts(shell[q], a) => Step("raced", a) \in tainted'
           /\ steps # <<>> /\ Head(steps) = Step("write_altered", a) =>
                Step("raced", a) \in tainted',
         CachesAreHonest'
  PROVE  DatasetsIInv'
<1>. USE DEF DatasetsIInv
<1>1. /\ shell' \in [Shells -> Seq(Steps)] /\ shell'[p] = steps
      /\ \A q \in Shells \ {p} : shell'[q] = shell[q]
  BY DEF DatasetsTypeOK
<1>2. DatasetsTypeOK'
  BY <1>1 DEF DatasetsTypeOK
<1>3. \A q \in Shells : Placed(shell'[q])
  BY <1>1
<1>4. TrustIsRaced'
  BY <1>1 DEF TrustIsRaced
<1>5. WriteIsRaced'
  <2>. SUFFICES ASSUME NEW q \in Shells, NEW a \in Artifacts,
                       shell'[q] # <<>>, Head(shell'[q]) = Step("write_altered", a)
                PROVE  Step("raced", a) \in tainted'
    BY DEF WriteIsRaced, Now
  <2>1. CASE q = p
    BY <1>1, <2>1
  <2>2. CASE q # p
    <3>1. Now(q, "write_altered", a)
      BY <1>1, <2>2 DEF Now
    <3>. QED
      BY <3>1 DEF WriteIsRaced
  <2>. QED
    BY <2>1, <2>2
<1>. QED
  BY <1>2, <1>3, <1>4, <1>5

\* The caches remain honest if whoever alters an artifact, or unpacks it by half, is
\* still at it or has left it so.
LEMMA CachesRest ==
  ASSUME DatasetsIInv, NEW p \in Shells, NEW steps,
         shell' = [shell EXCEPT ![p] = steps], tainted \subseteq tainted',
         \A a \in Artifacts : cached'[a] = "altered" =>
           \/ Now(p, "altered", a)'
           \/ Step("left", a) \in tainted'
           \/ cached[a] = "altered" /\ ~Now(p, "altered", a),
         \A a \in Range(Resources) :
           /\ unpacked'[a] = "altered" => unpacked[a] = "altered" \/ Step("raced", a) \in tainted'
           /\ unpacked'[a] = "partial" =>
                \/ Writes(p, a)'
                \/ Step("left", a) \in tainted'
                \/ \E q \in Shells \ {p} : Writes(q, a)
                \/ unpacked[a] = "partial" /\ ~Writes(p, a),
         "altered" \in used' => "altered" \in used \/ Step("raced", CaseFile) \in tainted'
  PROVE  CachesAreHonest'
<1>. USE DEF DatasetsIInv
<1>1. \A q \in Shells \ {p} : shell'[q] = shell[q]
  BY DEF DatasetsTypeOK
<1>2. \A q \in Shells \ {p}, a \in Artifacts :
        (Now(q, "altered", a) => Now(q, "altered", a)') /\ (Writes(q, a) => Writes(q, a)')
  BY <1>1 DEF Now, Writes
<1>3. ASSUME NEW a \in Artifacts, cached'[a] = "altered"
      PROVE  (\E q \in Shells : Now(q, "altered", a)') \/ Step("left", a) \in tainted'
  BY <1>2, <1>3 DEF CachesAreHonest
<1>4. ASSUME NEW a \in Range(Resources), unpacked'[a] = "partial"
      PROVE  (\E q \in Shells : Writes(q, a)') \/ Step("left", a) \in tainted'
  BY <1>2, <1>4 DEF CachesAreHonest, Artifacts
<1>5. ASSUME NEW a \in Range(Resources), unpacked'[a] = "altered"
      PROVE  Step("raced", a) \in tainted'
  BY <1>5 DEF CachesAreHonest
<1>6. "altered" \in used' => Step("raced", CaseFile) \in tainted'
  BY DEF CachesAreHonest
<1>. QED
  BY <1>3, <1>4, <1>5, <1>6 DEF CachesAreHonest

\* What the head of a command says is what it is at.
LEMMA AtHead ==
  ASSUME NEW p \in Shells, NEW do, NEW a, Now(p, do, a)
  PROVE  /\ shell[p] # <<>> /\ Head(shell[p]).do = do /\ Head(shell[p]).of = a
         /\ do # "altered" => \A b : ~Now(p, "altered", b)
         /\ do # "write_frozen" /\ do # "write_altered" => \A b : ~Writes(p, b)
<1>1. \A d, b : Step(d, b).do = d /\ Step(d, b).of = b
  BY DEF Step
<1>2. \A d, b : Now(p, d, b) => /\ shell[p] # <<>> /\ Head(shell[p]).do = d
                               /\ Head(shell[p]).of = b
  <2>. SUFFICES ASSUME NEW d, NEW b, Now(p, d, b)
                PROVE  shell[p] # <<>> /\ Head(shell[p]).do = d /\ Head(shell[p]).of = b
    OBVIOUS
  <2>1. shell[p] # <<>> /\ Head(shell[p]) = Step(d, b)
    BY DEF Now
  <2>. QED
    BY <1>1, <2>1
<1>3. Head(shell[p]).do = do
  BY <1>2
<1>4. do # "altered" => \A b : ~Now(p, "altered", b)
  BY <1>2, <1>3
<1>5. do # "write_frozen" /\ do # "write_altered" =>
        \A b : ~Now(p, "write_frozen", b) /\ ~Now(p, "write_altered", b)
  BY <1>2, <1>3
<1>. QED
  BY <1>2, <1>4, <1>5 DEF Writes

\* A command goes on or stops, having looked and nothing else.
LEMMA LookStep ==
  ASSUME DatasetsIInv, NEW p \in Shells, NEW do, NEW a \in Artifacts, Now(p, do, a),
         do \notin Midway,
         Refuse(p) \/ (Proceed(p) /\ (do \in Untrusting => cached[a] # "altered")),
         UNCHANGED <<cached, unpacked, tainted>>,
         "altered" \in used' => "altered" \in used \/ Step("raced", CaseFile) \in tainted'
  PROVE  DatasetsIInv'
<1>. USE DEF DatasetsIInv
<1>1. /\ shell[p] # <<>> /\ Head(shell[p]).do = do /\ Head(shell[p]).of = a
      /\ \A b : ~Now(p, "altered", b) /\ ~Writes(p, b)
  BY AtHead DEF Midway
<1>2. shell[p] \in Seq(Steps) /\ Placed(shell[p])
  BY DEF DatasetsTypeOK
<1>3. /\ Tail(shell[p]) \in Seq(Steps) /\ Placed(Tail(shell[p]))
      /\ Tail(shell[p]) # <<>> => Head(Tail(shell[p])).do \notin Midway
      /\ \A b : Trusts(Tail(shell[p]), b) =>
           Trusts(shell[p], b) \/ (a = b /\ do \in Untrusting)
  BY <1>1, <1>2, TailOfSteps
<1>4. PICK steps : /\ shell' = [shell EXCEPT ![p] = steps]
                   /\ \/ steps = <<>>
                      \/ steps = Tail(shell[p]) /\ (do \in Untrusting => cached[a] # "altered")
  BY DEF Proceed, Refuse
<1>5. /\ steps \in Seq(Steps) /\ Placed(steps)
      /\ \A b : Trusts(steps, b) => Trusts(shell[p], b) \/ (a = b /\ cached[a] # "altered")
      /\ \A b : steps # <<>> => Head(steps) # Step("write_altered", b)
  <2>1. \A b : Step("write_altered", b).do \in Midway
    BY DEF Step, Midway
  <2>2. CASE steps = Tail(shell[p]) /\ (do \in Untrusting => cached[a] # "altered")
    BY <1>3, <2>1, <2>2
  <2>3. CASE steps = <<>>
    BY <2>3, NoSteps
  <2>. QED
    BY <1>4, <2>2, <2>3
<1>6. CachesAreHonest'
  BY <1>1, <1>4, CachesRest
<1>7. \A b \in Artifacts :
        /\ cached'[b] = "altered" /\ Trusts(steps, b) => Step("raced", b) \in tainted'
        /\ \A q \in Shells \ {p} :
             cached'[b] = "altered" /\ Trusts(shell[q], b) => Step("raced", b) \in tainted'
  BY <1>5 DEF TrustIsRaced
<1>8. /\ cached' \in [Artifacts -> {"absent", "frozen", "altered"}]
      /\ unpacked' \in [Range(Resources) -> {"absent", "partial", "frozen", "altered"}]
  BY DEF DatasetsTypeOK
<1>. QED
  BY <1>4, <1>5, <1>6, <1>7, <1>8, ShellMoves

\* A command turns to the next part of its step.
LEMMA TurnMoves ==
  ASSUME DatasetsIInv, NEW p \in Shells, NEW do, NEW a, Now(p, do, a),
         NEW next \in Doings \ {"read", "unpack"},
         next \in {"write_frozen", "write_altered"} => a \in Range(Resources), Turn(p, next)
  PROVE  \E steps \in Seq(Steps) :
           /\ shell' = [shell EXCEPT ![p] = steps]
           /\ Placed(steps) /\ steps # <<>> /\ Head(steps) = Step(next, a)
           /\ \A b : Trusts(steps, b) => Trusts(shell[p], b) \/ (a = b /\ do \in Untrusting)
           /\ next \in Untrusting => ~Trusts(steps, a)
<1>1. /\ shell[p] # <<>> /\ Head(shell[p]).do = do /\ Head(shell[p]).of = a
  BY AtHead
<1>2. shell[p] \in Seq(Steps) /\ Placed(shell[p])
  BY DEF DatasetsIInv, DatasetsTypeOK
<1>3. PICK steps : steps = [shell[p] EXCEPT ![1].do = next]
  OBVIOUS
<1>4. shell' = [shell EXCEPT ![p] = steps]
  BY <1>3 DEF Turn
<1>5. PICK before : before = shell[p]
  OBVIOUS
<1>6. /\ steps \in Seq(Steps) /\ steps # <<>> /\ Head(steps) = Step(next, a)
      /\ Placed(steps)
      /\ \A b : Trusts(steps, b) => Trusts(before, b) \/ (a = b /\ do \in Untrusting)
      /\ next \in Untrusting => ~Trusts(steps, a)
  BY <1>1, <1>2, <1>3, <1>5, TurnOfSteps
<1>. QED
  BY <1>4, <1>5, <1>6

\* Who is about to read or unpack an artifact trusts it.
LEMMA HeadTrusts ==
  ASSUME DatasetsIInv, NEW p \in Shells, NEW do, NEW a, Now(p, do, a)
  PROVE  /\ do \in {"read", "unpack"} => Trusts(shell[p], a)
         /\ do = "read" => a = CaseFile
         /\ do \in {"unpack", "write_frozen", "write_altered"} => a \in Range(Resources)
<1>1. PICK steps : steps = shell[p]
  OBVIOUS
<1>2. /\ steps # <<>> /\ Head(steps).do = do /\ Head(steps).of = a
  BY <1>1, AtHead
<1>3. steps \in Seq(Steps) /\ Placed(steps)
  BY <1>1 DEF DatasetsIInv, DatasetsTypeOK
<1>4. 1 \in 1 .. Len(steps) /\ steps[1].do = do /\ steps[1].of = a
  BY <1>2, <1>3, FirstStep
<1>5. \A j \in 1 .. 1 : j = 1
  OBVIOUS
<1>6. do \in {"read", "unpack"} => Trusts(steps, a)
  BY <1>4, <1>5 DEF Trusts, Untrusting
<1>. QED
  BY <1>1, <1>3, <1>4, <1>6 DEF Placed

LEMMA GiveStep ==
  ASSUME DatasetsIInv, NEW p \in Shells, NEW command \in DOMAIN Program, Give(p, command)
  PROVE  DatasetsIInv'
<1>. USE DEF DatasetsIInv
<1>1. PICK steps : steps = Program[command]
  OBVIOUS
<1>2. Careful(steps)
  BY <1>1, ProgramsAreCareful
<1>3. shell' = [shell EXCEPT ![p] = steps] /\ UNCHANGED <<cached, unpacked, used, tainted>>
  BY <1>1 DEF Give
<1>4. \A b : ~Now(p, "altered", b) /\ ~Writes(p, b)
  BY DEF Give, Now, Writes
<1>5. \A b : steps # <<>> => Head(steps) # Step("write_altered", b)
  <2>1. \A b : Step("write_altered", b).do = "write_altered"
    BY DEF Step
  <2>2. steps # <<>> => Head(steps).do \notin Midway
    <3>. SUFFICES ASSUME steps # <<>> PROVE Head(steps).do \notin Midway
      OBVIOUS
    <3>1. Head(steps) = steps[1] /\ 1 \in 1 .. Len(steps)
      BY <1>2, FirstStep DEF Careful
    <3>. QED
      BY <1>2, <3>1 DEF Careful
  <2>. QED
    BY <2>1, <2>2 DEF Midway
<1>6. CachesAreHonest'
  BY <1>3, <1>4, CachesRest
<1>7. \A b \in Artifacts, q \in Shells :
        cached'[b] = "altered" /\ Trusts(shell[q], b) => Step("raced", b) \in tainted'
  BY <1>3 DEF TrustIsRaced
<1>8. steps \in Seq(Steps) /\ Placed(steps) /\ \A b : ~Trusts(steps, b)
  BY <1>2 DEF Careful
<1>9. /\ cached' \in [Artifacts -> {"absent", "frozen", "altered"}]
      /\ unpacked' \in [Range(Resources) -> {"absent", "partial", "frozen", "altered"}]
  BY <1>3 DEF DatasetsTypeOK
<1>. QED
  BY <1>3, <1>5, <1>6, <1>7, <1>8, <1>9, ShellMoves

LEMMA CheckStep ==
  ASSUME DatasetsIInv, NEW p \in Shells, NEW a \in Artifacts, Check(p, a)
  PROVE  DatasetsIInv'
<1>1. /\ Now(p, "check", a) /\ UNCHANGED <<cached, unpacked, used, tainted>>
      /\ Refuse(p) \/ (Proceed(p) /\ cached[a] # "altered")
  BY DEF Check, Sound
<1>. QED
  BY <1>1, LookStep DEF Midway

LEMMA GetStep ==
  ASSUME DatasetsIInv, NEW p \in Shells, NEW a \in Artifacts, Get(p, a)
  PROVE  DatasetsIInv'
<1>. USE DEF DatasetsIInv
<1>1. Now(p, "get", a) /\ UNCHANGED <<cached, unpacked, used, tainted>>
  BY DEF Get
<1>2. CASE cached[a] # "absent"
  <2>1. Refuse(p) \/ (Proceed(p) /\ cached[a] # "altered")
    BY <1>2 DEF Get, Sound
  <2>2. "get" \notin Midway
    BY DEF Midway
  <2>. QED
    BY <1>1, <2>1, <2>2, LookStep
<1>3. CASE cached[a] = "absent"
  <2>1. Turn(p, "download")
    BY <1>3 DEF Get
  <2>2. PICK steps \in Seq(Steps) :
          /\ shell' = [shell EXCEPT ![p] = steps]
          /\ Placed(steps) /\ steps # <<>> /\ Head(steps) = Step("download", a)
          /\ \A b : Trusts(steps, b) => Trusts(shell[p], b) \/ (a = b /\ "get" \in Untrusting)
    <3>1. "download" \in Doings \ {"read", "unpack"}
      BY DEF Doings
    <3>2. "download" \notin {"write_frozen", "write_altered"}
      OBVIOUS
    <3>. QED
      BY <1>1, <2>1, <3>1, <3>2, TurnMoves
  <2>3. \A b : ~Now(p, "altered", b) /\ ~Writes(p, b)
    BY <1>1, AtHead
  <2>4. CachesAreHonest'
    BY <1>1, <2>2, <2>3, CachesRest
  <2>5. \A b \in Artifacts :
          /\ cached'[b] = "altered" /\ Trusts(steps, b) => Step("raced", b) \in tainted'
          /\ \A q \in Shells \ {p} :
               cached'[b] = "altered" /\ Trusts(shell[q], b) => Step("raced", b) \in tainted'
    BY <1>1, <1>3, <2>2 DEF TrustIsRaced
  <2>6. \A b : Head(steps) # Step("write_altered", b)
    <3>1. \A b : Step("write_altered", b).do # Step("download", a).do
      BY DEF Step
    <3>. QED
      BY <2>2, <3>1
  <2>7. /\ cached' \in [Artifacts -> {"absent", "frozen", "altered"}]
        /\ unpacked' \in [Range(Resources) -> {"absent", "partial", "frozen", "altered"}]
    BY <1>1 DEF DatasetsTypeOK
  <2>. QED
    BY <1>1, <2>2, <2>4, <2>5, <2>6, <2>7, ShellMoves
<1>. QED
  BY <1>2, <1>3

\* A download overtakes whoever trusts what was there.
LEMMA DownloadStep ==
  ASSUME DatasetsIInv, NEW p \in Shells, NEW a \in Artifacts,
         NEW bytes \in {"frozen", "altered"}, Download(p, a, bytes)
  PROVE  DatasetsIInv'
<1>. USE DEF DatasetsIInv
<1>1. /\ Now(p, "download", a) /\ Turn(p, bytes) /\ UNCHANGED <<unpacked, used>>
      /\ cached' = [cached EXCEPT ![a] = bytes] /\ tainted \subseteq tainted'
  BY DEF Download
<1>2. bytes = "altered" /\ Relied(p, a) => Step("raced", a) \in tainted'
  BY DEF Download
<1>3. PICK steps \in Seq(Steps) :
        /\ shell' = [shell EXCEPT ![p] = steps]
        /\ Placed(steps) /\ steps # <<>> /\ Head(steps) = Step(bytes, a)
        /\ \A b : Trusts(steps, b) => Trusts(shell[p], b) \/ (a = b /\ "download" \in Untrusting)
        /\ bytes \in Untrusting => ~Trusts(steps, a)
  <2>1. bytes \in Doings \ {"read", "unpack"}
    BY DEF Doings
  <2>2. bytes \in {"write_frozen", "write_altered"} => a \in Range(Resources)
    OBVIOUS
  <2>3. Now(p, "download", a) /\ Turn(p, bytes)
    BY <1>1
  <2>. HIDE DEF DatasetsIInv
  <2>4. PICK do : do = "download"
    OBVIOUS
  <2>5. \E steps \in Seq(Steps) :
          /\ shell' = [shell EXCEPT ![p] = steps]
          /\ Placed(steps) /\ steps # <<>> /\ Head(steps) = Step(bytes, a)
          /\ \A b : Trusts(steps, b) => Trusts(shell[p], b) \/ (a = b /\ do \in Untrusting)
          /\ bytes \in Untrusting => ~Trusts(steps, a)
    <3>1. Now(p, do, a)
      BY <2>3, <2>4
    <3>. QED
      BY ONLY DatasetsIInv, <2>1, <2>2, <2>3, <3>1, TurnMoves
  <2>. QED
    BY <2>4, <2>5
<1>4. \A b : ~Now(p, "altered", b) /\ ~Writes(p, b)
  BY <1>1, AtHead
<1>5. /\ cached' \in [Artifacts -> {"absent", "frozen", "altered"}]
      /\ unpacked' \in [Range(Resources) -> {"absent", "partial", "frozen", "altered"}]
      /\ cached'[a] = bytes /\ \A b \in Artifacts \ {a} : cached'[b] = cached[b]
  BY <1>1 DEF DatasetsTypeOK
<1>6. bytes = "altered" => Now(p, "altered", a)'
  BY <1>3 DEF Now, DatasetsTypeOK
<1>7. CachesAreHonest'
  BY <1>1, <1>3, <1>4, <1>5, <1>6, CachesRest
<1>8. \A q \in Shells \ {p} : Trusts(shell[q], a) => Relied(p, a)
  BY DEF Trusts, Relied, Untrusting
<1>9. ASSUME NEW b \in Artifacts, cached'[b] = "altered"
      PROVE  /\ Trusts(steps, b) => Step("raced", b) \in tainted'
             /\ \A q \in Shells \ {p} : Trusts(shell[q], b) => Step("raced", b) \in tainted'
  <2>1. CASE b = a
    BY <1>2, <1>3, <1>5, <1>8, <1>9, <2>1 DEF Untrusting
  <2>2. CASE b # a
    BY <1>1, <1>3, <1>5, <1>9, <2>2 DEF TrustIsRaced
  <2>. QED
    BY <2>1, <2>2
<1>10. \A b : Head(steps) # Step("write_altered", b)
  <2>1. \A b : Step("write_altered", b).do # Step(bytes, a).do
    BY DEF Step
  <2>. QED
    BY <1>3, <2>1
<1>. QED
  BY <1>1, <1>3, <1>5, <1>7, <1>9, <1>10, ShellMoves

LEMMA CompareStep ==
  ASSUME DatasetsIInv, NEW p \in Shells, NEW a \in Artifacts, Compare(p, a)
  PROVE  DatasetsIInv'
<1>. USE DEF DatasetsIInv
<1>1. CASE Now(p, "frozen", a) /\ Proceed(p) /\ UNCHANGED cached
  <2>1. UNCHANGED <<cached, unpacked, used, tainted>>
    BY <1>1 DEF Compare
  <2>. QED
    BY <1>1, <2>1, LookStep DEF Midway, Untrusting
<1>2. CASE Now(p, "altered", a) /\ Refuse(p) /\ cached' = [cached EXCEPT ![a] = "absent"]
  <2>1. UNCHANGED <<unpacked, used, tainted>> /\ shell' = [shell EXCEPT ![p] = <<>>]
    BY <1>2 DEF Compare, Refuse
  <2>2. /\ cached' \in [Artifacts -> {"absent", "frozen", "altered"}]
        /\ unpacked' \in [Range(Resources) -> {"absent", "partial", "frozen", "altered"}]
        /\ cached'[a] = "absent" /\ \A b \in Artifacts \ {a} : cached'[b] = cached[b]
    BY <1>2, <2>1 DEF DatasetsTypeOK
  <2>3. \A b \in Artifacts \ {a} : ~Now(p, "altered", b)
    BY <1>2, AtHead
  <2>4. \A b : ~Writes(p, b)
    BY <1>2, AtHead
  <2>5. CachesAreHonest'
    BY <2>1, <2>2, <2>3, <2>4, CachesRest
  <2>6. \A b \in Artifacts, q \in Shells :
          cached'[b] = "altered" /\ Trusts(shell[q], b) => Step("raced", b) \in tainted'
    BY <2>1, <2>2 DEF TrustIsRaced
  <2>. QED
    BY <2>1, <2>2, <2>5, <2>6, NoSteps, ShellMoves
<1>. QED
  BY <1>1, <1>2 DEF Compare

LEMMA PresentStep ==
  ASSUME DatasetsIInv, NEW p \in Shells, NEW a \in Artifacts, Present(p, a)
  PROVE  DatasetsIInv'
<1>1. /\ Now(p, "present", a) /\ UNCHANGED <<cached, unpacked, used, tainted>>
      /\ Refuse(p) \/ Proceed(p)
  BY DEF Present
<1>. QED
  BY <1>1, LookStep DEF Midway, Untrusting

LEMMA ReadStep ==
  ASSUME DatasetsIInv, NEW p \in Shells, NEW a \in Artifacts, Read(p, a)
  PROVE  DatasetsIInv'
<1>1. Now(p, "read", a) /\ UNCHANGED <<cached, unpacked, tainted>> /\ (Refuse(p) \/ Proceed(p))
  BY DEF Read
<1>2. a = CaseFile /\ Trusts(shell[p], a)
  BY <1>1, HeadTrusts
<1>3. cached[a] = "altered" => Step("raced", CaseFile) \in tainted'
  BY <1>1, <1>2 DEF DatasetsIInv, TrustIsRaced
<1>4. "altered" \in used' => "altered" \in used \/ cached[a] = "altered"
  BY DEF Read
<1>. QED
  BY <1>1, <1>3, <1>4, LookStep DEF Midway, Untrusting

LEMMA UnpackedStep ==
  ASSUME DatasetsIInv, NEW p \in Shells, NEW a \in Artifacts, Unpacked(p, a)
  PROVE  DatasetsIInv'
<1>1. /\ Now(p, "unpacked", a) /\ UNCHANGED <<cached, unpacked, used, tainted>>
      /\ Refuse(p) \/ Proceed(p)
  BY DEF Unpacked
<1>. QED
  BY <1>1, LookStep DEF Midway, Untrusting

LEMMA UnpackStep ==
  ASSUME DatasetsIInv, NEW p \in Shells, NEW a \in Artifacts, Unpack(p, a)
  PROVE  DatasetsIInv'
<1>. USE DEF DatasetsIInv
<1>1. Now(p, "unpack", a) /\ UNCHANGED <<cached, used, tainted>>
  BY DEF Unpack
<1>2. CASE Refuse(p) /\ UNCHANGED unpacked
  BY <1>1, <1>2, LookStep DEF Midway
<1>3. CASE /\ cached[a] # "absent"
           /\ Turn(p, IF cached[a] = "frozen" THEN "write_frozen" ELSE "write_altered")
           /\ unpacked' = [unpacked EXCEPT ![a] = "partial"]
  <2>1. a \in Range(Resources) /\ Trusts(shell[p], a)
    BY <1>1, HeadTrusts
  <2>2. PICK next \in {"write_frozen", "write_altered"} :
          Turn(p, next) /\ (next = "write_altered" => cached[a] = "altered")
    BY <1>3 DEF DatasetsTypeOK
  <2>3. next \in Doings \ {"read", "unpack"} /\ next \notin Untrusting
    BY DEF Doings, Untrusting
  <2>4. PICK steps \in Seq(Steps) :
          /\ shell' = [shell EXCEPT ![p] = steps]
          /\ Placed(steps) /\ steps # <<>> /\ Head(steps) = Step(next, a)
          /\ \A b : Trusts(steps, b) => Trusts(shell[p], b) \/ (a = b /\ "unpack" \in Untrusting)
    <3>1. Now(p, "unpack", a) /\ Turn(p, next) /\ next \in Doings \ {"read", "unpack"}
      BY <1>1, <2>2, <2>3
    <3>2. next \in {"write_frozen", "write_altered"} => a \in Range(Resources)
      BY <2>1
    <3>. QED
      BY <3>1, <3>2, TurnMoves
  <2>5. \A b : ~Now(p, "altered", b) /\ ~Writes(p, b)
    BY <1>1, AtHead
  <2>6. /\ cached' \in [Artifacts -> {"absent", "frozen", "altered"}]
        /\ unpacked' \in [Range(Resources) -> {"absent", "partial", "frozen", "altered"}]
        /\ unpacked'[a] = "partial" /\ \A b \in Range(Resources) \ {a} : unpacked'[b] = unpacked[b]
    BY <1>1, <1>3, <2>1 DEF DatasetsTypeOK
  <2>7. Writes(p, a)'
    BY <2>4 DEF Writes, Now, DatasetsTypeOK
  <2>8. CachesAreHonest'
    BY <1>1, <2>4, <2>5, <2>6, <2>7, CachesRest
  <2>9. \A b \in Artifacts :
          /\ cached'[b] = "altered" /\ Trusts(steps, b) => Step("raced", b) \in tainted'
          /\ \A q \in Shells \ {p} :
               cached'[b] = "altered" /\ Trusts(shell[q], b) => Step("raced", b) \in tainted'
    BY <1>1, <2>4 DEF TrustIsRaced, Untrusting
  <2>10. \A b \in Artifacts : Head(steps) = Step("write_altered", b) => Step("raced", b) \in tainted'
    <3>. SUFFICES ASSUME NEW b \in Artifacts, Head(steps) = Step("write_altered", b)
                  PROVE  Step("raced", b) \in tainted'
      OBVIOUS
    <3>1. b = a /\ next = "write_altered"
      <4>1. Step(next, a) = Step("write_altered", b)
        BY <2>4
      <4>. QED
        BY <4>1 DEF Step
    <3>. QED
      BY <1>1, <2>1, <2>2, <3>1 DEF TrustIsRaced
  <2>. QED
    BY <1>1, <2>4, <2>6, <2>8, <2>9, <2>10, ShellMoves
<1>. QED
  BY <1>2, <1>3 DEF Unpack

LEMMA WrittenStep ==
  ASSUME DatasetsIInv, NEW p \in Shells, NEW a \in Artifacts, Written(p, a)
  PROVE  DatasetsIInv'
<1>. USE DEF DatasetsIInv
<1>1. PICK do \in {"write_frozen", "write_altered"} : Now(p, do, a)
  BY DEF Written, Writes
<1>2. /\ a \in Range(Resources) /\ shell[p] # <<>>
      /\ Head(shell[p]).do = do /\ Head(shell[p]).of = a
      /\ \A b : ~Now(p, "altered", b)
  BY <1>1, HeadTrusts, AtHead
<1>3. \A b : Writes(p, b) => b = a
  <2>. SUFFICES ASSUME NEW b, Writes(p, b) PROVE b = a
    OBVIOUS
  <2>1. Head(shell[p]).of = b
    BY AtHead DEF Writes
  <2>. QED
    BY <1>2, <2>1
<1>4. PICK steps : steps = Tail(shell[p])
  OBVIOUS
<1>5. shell' = [shell EXCEPT ![p] = steps] /\ UNCHANGED <<cached, used, tainted>>
  BY <1>4 DEF Written, Proceed
<1>6. /\ steps \in Seq(Steps) /\ Placed(steps)
      /\ steps # <<>> => Head(steps).do \notin Midway
      /\ \A b : Trusts(steps, b) => Trusts(shell[p], b)
  <2>1. shell[p] \in Seq(Steps) /\ Placed(shell[p]) /\ do \notin Untrusting
    BY DEF DatasetsTypeOK, Untrusting
  <2>. QED
    BY <1>2, <1>4, <2>1, TailOfSteps
<1>7. /\ cached' \in [Artifacts -> {"absent", "frozen", "altered"}]
      /\ unpacked' \in [Range(Resources) -> {"absent", "partial", "frozen", "altered"}]
      /\ \A b \in Range(Resources) \ {a} : unpacked'[b] = unpacked[b]
      /\ unpacked'[a] = IF \E q \in Shells \ {p} : Writes(q, a) THEN "partial"
                        ELSE IF Now(p, "write_frozen", a) THEN "frozen" ELSE "altered"
  BY <1>2, <1>5 DEF Written, DatasetsTypeOK
<1>8. unpacked'[a] = "altered" => Step("raced", a) \in tainted'
  <2>. SUFFICES ASSUME unpacked'[a] = "altered" PROVE Step("raced", a) \in tainted'
    OBVIOUS
  <2>1. ~Now(p, "write_frozen", a)
    BY <1>7
  <2>2. Now(p, "write_altered", a)
    BY <1>1, <2>1
  <2>. QED
    BY <1>2, <1>5, <2>2 DEF WriteIsRaced, Artifacts
<1>9. unpacked'[a] = "partial" => \E q \in Shells \ {p} : Writes(q, a)
  BY <1>7
<1>10. CachesAreHonest'
  BY <1>2, <1>3, <1>5, <1>7, <1>8, <1>9, CachesRest
<1>11. \A b \in Artifacts :
         /\ cached'[b] = "altered" /\ Trusts(steps, b) => Step("raced", b) \in tainted'
         /\ \A q \in Shells \ {p} :
              cached'[b] = "altered" /\ Trusts(shell[q], b) => Step("raced", b) \in tainted'
  BY <1>5, <1>6 DEF TrustIsRaced
<1>12. \A b : steps # <<>> => Head(steps) # Step("write_altered", b)
  <2>1. \A b : Step("write_altered", b).do \in Midway
    BY DEF Step, Midway
  <2>. QED
    BY <1>6, <2>1
<1>. QED
  BY <1>5, <1>6, <1>7, <1>10, <1>11, <1>12, ShellMoves

\* A command that dies over an artifact leaves it so.
LEMMA DieStep ==
  ASSUME DatasetsIInv, NEW p \in Shells, Die(p)
  PROVE  DatasetsIInv'
<1>. USE DEF DatasetsIInv
<1>1. /\ shell' = [shell EXCEPT ![p] = <<>>] /\ UNCHANGED <<cached, unpacked, used>>
      /\ tainted \subseteq tainted'
      /\ \A a \in Artifacts : Now(p, "altered", a) \/ Writes(p, a) => Step("left", a) \in tainted'
  BY DEF Die, Refuse
<1>2. Range(Resources) \subseteq Artifacts
  BY DEF Artifacts
<1>3. CachesAreHonest'
  BY <1>1, <1>2, CachesRest
<1>4. \A b \in Artifacts, q \in Shells :
        cached'[b] = "altered" /\ Trusts(shell[q], b) => Step("raced", b) \in tainted'
  BY <1>1 DEF TrustIsRaced
<1>5. /\ cached' \in [Artifacts -> {"absent", "frozen", "altered"}]
      /\ unpacked' \in [Range(Resources) -> {"absent", "partial", "frozen", "altered"}]
  BY <1>1 DEF DatasetsTypeOK
<1>. QED
  BY <1>1, <1>3, <1>4, <1>5, NoSteps, ShellMoves

\* However many commands share the work tree and wherever they die, the invariant
\* holds.
THEOREM DatasetsInvariant == DatasetsSpec => []DatasetsIInv
<1>1. DatasetsInit => DatasetsIInv
  <2>. SUFFICES ASSUME DatasetsInit PROVE DatasetsIInv
    OBVIOUS
  <2>1. DatasetsTypeOK /\ \A p \in Shells : Placed(shell[p])
    BY NoSteps DEF DatasetsInit, DatasetsTypeOK
  <2>2. TrustIsRaced /\ WriteIsRaced
    BY DEF DatasetsInit, TrustIsRaced, WriteIsRaced, Now
  <2>3. CachesAreHonest
    BY DEF DatasetsInit, CachesAreHonest
  <2>. QED
    BY <2>1, <2>2, <2>3 DEF DatasetsIInv
<1>2. DatasetsIInv /\ [DatasetsNext]_datasetVars => DatasetsIInv'
  <2>. SUFFICES ASSUME DatasetsIInv, [DatasetsNext]_datasetVars PROVE DatasetsIInv'
    OBVIOUS
  <2>1. CASE UNCHANGED datasetVars
    BY <2>1 DEF datasetVars, DatasetsIInv, DatasetsTypeOK, TrustIsRaced, WriteIsRaced,
                CachesAreHonest, Now, Writes
  <2>2. CASE DatasetsNext
    <3>1. PICK p \in Shells :
            \/ \E command \in DOMAIN Program : Give(p, command)
            \/ Die(p)
            \/ \E a \in Artifacts :
                 \/ Check(p, a) \/ Get(p, a) \/ Compare(p, a) \/ Present(p, a) \/ Read(p, a)
                 \/ Unpack(p, a) \/ Written(p, a) \/ Unpacked(p, a)
                 \/ \E bytes \in {"frozen", "altered"} : Download(p, a, bytes)
      BY <2>2 DEF DatasetsNext
    <3>. QED
      BY <3>1, GiveStep, DieStep, CheckStep, GetStep, CompareStep, PresentStep, ReadStep,
         UnpackStep, WrittenStep, UnpackedStep, DownloadStep
  <2>. QED
    BY <2>1, <2>2
<1>. QED
  BY <1>1, <1>2, PTL DEF DatasetsSpec

\* CachesAreHonest of dataset.py and evaluator.py: bytes that are not the frozen ones
\* are used only if a download came between the check and the use.
THEOREM CachesHonest == DatasetsSpec => []CachesAreHonest
BY DatasetsInvariant, PTL DEF DatasetsIInv

-----------------------------------------------------------------------------
(***************************************************************************)
(* Campaign: the inductive invariant, in named parts.                      *)
(***************************************************************************)

\* What the relays of a stored plan may reserve is its total.
PlanShape(p) ==
  /\ p.request.suites \subseteq Suites
  /\ p.caps = Reservable(p)

Contents == Versions \cup First \cup {Nothing}

\* A manifest names a payload that is there.
PacksShape ==
  /\ payload \in [Suites -> SUBSET Contents] /\ manifest \in [Suites -> Contents]
  /\ freezing \subseteq [suite : Suites, version : Versions]
  /\ \A s \in Suites : manifest[s] /= Nothing => manifest[s] \in payload[s]

RunShape(r) == r.plan \in plans /\ r.plan.caps <= r.plan.request.budget

\* Runs are numbered in the order of their creation, and each has a stored plan.
RunsShape ==
  /\ IsFiniteSet(admitted)
  /\ \A p \in plans : PlanShape(p)
  /\ creating /= Nothing => RunShape(creating) /\ creating.id = Cardinality(admitted) + 1
  /\ \A r \in admitted : RunShape(r) /\ r.id \in 1 .. Cardinality(admitted)
  /\ \A r, q \in admitted : r.id = q.id => r = q

\* The packs of an admitted run are its plan's, or have been frozen since.
HistoryShape ==
  /\ \A r \in admitted : \A s \in r.plan.request.suites :
       manifest[s] = r.plan.data[s] \/ [run |-> r.id, suite |-> s] \in refrozen
  /\ \A e \in executed : e.run \in 1 .. Cardinality(admitted)
  /\ \A e \in executed : \A r \in admitted : e.run = r.id =>
       \/ e.version = r.plan.data[e.suite]
       \/ [run |-> e.run, suite |-> e.suite] \in refrozen

CampaignIInv ==
  /\ PacksShape
  /\ RunsShape
  /\ HistoryShape

-----------------------------------------------------------------------------
(***************************************************************************)
(* Campaign: the total of a plan.                                          *)
(***************************************************************************)

\* The trials of one variant in one suite.
LEMMA TrialsOfPair ==
  ASSUME NEW s, NEW v, NEW n \in Nat, NEW H, H = {s} \X {v} \X (1 .. n)
  PROVE  IsFiniteSet(H) /\ Cardinality(H) = n
<1>. DEFINE g == [i \in 1 .. n |-> <<s, v, i>>]
<1>1. g \in Bijection(1 .. n, H)
  <2>1. g \in [1 .. n -> H]
    OBVIOUS
  <2>2. \A i, j \in 1 .. n : g[i] = g[j] => i = j
    OBVIOUS
  <2>3. \A t \in H : \E i \in 1 .. n : g[i] = t
    <3>1. TAKE t \in H
    <3>2. t[3] \in 1 .. n /\ t = <<s, v, t[3]>>
      OBVIOUS
    <3>. QED
      BY <3>2
  <2>. HIDE DEF g
  <2>. QED
    BY <2>1, <2>2, <2>3 DEF Bijection, Injection, Surjection, IsInjective
<1>2. ExistsBijection(1 .. n, H)
  BY <1>1 DEF ExistsBijection
<1>3. IsFiniteSet(1 .. n) /\ Cardinality(1 .. n) = n
  BY FS_Interval
<1>. QED
  BY <1>2, <1>3, FS_Bijection

\* What the relays of a plan's episodes may reserve is the plan's total: job by job,
\* variant by variant or by counting, as planner.py does.
LEMMA CapsCoverEpisodes ==
  ASSUME NEW q \in Requests, q.suites \subseteq Suites,
         NEW V, IsFiniteSet(V), \A v \in V : v.budget \in Nat,
         NEW p, p.request = q, p.variants = V
  PROVE  Reservable(p) = CapsTotal(q, V)
<1>. DEFINE B == q.suites
            T == q.trials
            sb == q.simulatorBudget
            J == Jobs(q, V)
            tau(j) == IF j[1] = "tau2" THEN q.simulatorBudget ELSE 0
            f == [j \in J |-> j[2].budget + tau(j)]
            w == [v \in V |-> v.budget]
            isTau == [s \in B |-> IF s = "tau2" THEN 1 ELSE 0]
            X == IF "tau2" \in B THEN sb ELSE 0
            F(v) == {j \in J : j[2] = v}
            H(v, s) == {s} \X {v} \X (1 .. T)
<1>1. /\ T \in Nat /\ sb \in Nat /\ q.sample \in Nat
      /\ IsFiniteSet(B)
  BY CampaignAssumption, FS_Subset
<1>2. J = B \X V \X (1 .. T)
  BY DEF Jobs
<1>3. \A j \in J : j[1] \in B /\ j[2] \in V /\ j[3] \in 1 .. T /\ f[j] \in Nat
  BY <1>1, <1>2
<1>4. IsFiniteSet(J)
  <2>. DEFINE D == (B \X V) \X (1 .. T)
              g == [d \in D |-> <<d[1][1], d[1][2], d[2]>>]
  <2>1. IsFiniteSet(D)
    <3>1. IsFiniteSet(1 .. T)
      <4>. HIDE DEF T
      <4>1. 1 \in Int /\ T \in Int
        BY <1>1
      <4>. QED
        BY <4>1, FS_Interval
    <3>2. IsFiniteSet(B \X V)
      BY <1>1, FS_Product
    <3>. QED
      BY <3>1, <3>2, FS_Product
  <2>2. g \in [D -> J]
    BY <1>2
  <2>3. \A j \in J : \E d \in D : g[d] = j
    <3>1. TAKE j \in J
    <3>2. j = <<j[1], j[2], j[3]>> /\ <<<<j[1], j[2]>>, j[3]>> \in D
      BY <1>2
    <3>. QED
      BY <3>2
  <2>. HIDE DEF D, g, J
  <2>4. g \in Surjection(D, J)
    BY <2>2, <2>3 DEF Surjection
  <2>. QED
    BY <2>1, <2>4, FS_Surjection
<1>5. SumFunctionOnSet(isTau, B) = IF "tau2" \in B THEN 1 ELSE 0
  <2>. DEFINE rest == B \ {"tau2"}
  <2>0. rest \subseteq B /\ \A s \in rest : isTau[s] = 0
    OBVIOUS
  <2>1. IsFiniteSet(rest) /\ \A s \in rest : isTau[s] = 0
    <3>. HIDE DEF rest, isTau
    <3>. QED
      BY <1>1, <2>0, FS_Subset
  <2>2. SumFunctionOnSet(isTau, rest) = 0
    <3>. DEFINE z == [s \in rest |-> 0]
    <3>1. SumFunctionOnSet(z, rest) = 0
      BY <2>1, SumZero
    <3>2. \A s \in rest : isTau[s] = z[s]
      BY <2>1
    <3>. HIDE DEF isTau, z
    <3>. QED
      BY <2>1, <3>1, <3>2, SumAgrees
  <2>3. CASE "tau2" \in B
    <3>1. isTau["tau2"] = 1 /\ \A s \in B : isTau[s] \in Nat
      BY <2>3
    <3>. HIDE DEF isTau
    <3>2. SumFunctionOnSet(isTau, B) = isTau["tau2"] + SumFunctionOnSet(isTau, rest)
      BY <1>1, <2>3, <3>1, SumRemove
    <3>. QED
      BY <2>2, <2>3, <3>1, <3>2
  <2>4. CASE "tau2" \notin B
    <3>1. rest = B
      BY <2>4
    <3>. QED
      BY <2>2, <2>4, <3>1
  <2>. QED
    BY <2>3, <2>4
\* One variant in all suites.
<1>6. ASSUME NEW v \in V
      PROVE  SumFunctionOnSet(f, F(v)) = T * Cardinality(B) * w[v] + T * X
  <2>. DEFINE base == T * w[v]
              bonus == T * sb
              g == [s \in B |-> bonus * isTau[s] + base]
              Hs == [s \in B |-> H(v, s)]
  <2>0. w[v] = v.budget /\ w[v] \in Nat
    BY <1>6
  <2>1. base \in Nat /\ bonus \in Nat
    BY <1>1, <2>0, Products
  <2>2. ASSUME NEW s \in B
        PROVE  g[s] = SumFunctionOnSet(f, H(v, s))
    <3>. DEFINE e == w[v] + sb * isTau[s]
    <3>1. sb * isTau[s] = IF s = "tau2" THEN sb ELSE 0
      BY <1>1
    <3>2. e \in Nat
      BY <1>1, <2>0, <3>1
    <3>3. \A j \in H(v, s) : f[j] = e
      BY <1>2, <2>0, <3>1
    <3>4. IsFiniteSet(H(v, s)) /\ Cardinality(H(v, s)) = T
      <4>1. H(v, s) = {s} \X {v} \X (1 .. T)
        OBVIOUS
      <4>. HIDE DEF T, H
      <4>. QED
        BY <1>1, <4>1, TrialsOfPair
    <3>. HIDE DEF e, f, H
    <3>5. SumFunctionOnSet(f, H(v, s)) = e * T
      BY <3>2, <3>3, <3>4, SumConstant
    <3>6. g[s] = bonus * isTau[s] + base
      OBVIOUS
    <3>7. e * T = bonus * isTau[s] + base
      <4>1. isTau[s] \in Nat
        OBVIOUS
      <4>2. PICK i, b \in Nat : i = isTau[s] /\ b = w[v]
        BY <2>0, <4>1
      <4>3. (b + sb * i) * T = T * sb * i + T * b
        BY <1>1, <4>2
      <4>. QED
        BY <4>2, <4>3 DEF e
    <3>. QED
      BY <3>5, <3>6, <3>7
  <2>3. F(v) = UNION {Hs[s] : s \in B}
    <3>1. ASSUME NEW j \in F(v) PROVE j \in Hs[j[1]] /\ j[1] \in B
      <4>1. j = <<j[1], v, j[3]>> /\ j[1] \in B /\ j[3] \in 1 .. T
        BY <1>2, <3>1
      <4>. QED
        BY <4>1
    <3>2. ASSUME NEW s \in B, NEW j \in Hs[s] PROVE j \in F(v)
      BY <1>2, <1>6, <3>2
    <3>. HIDE DEF F, Hs
    <3>. QED
      BY <3>1, <3>2
  <2>4. /\ \A s \in B : Hs[s] \subseteq J
        /\ \A s, t \in B : s # t => Hs[s] \cap Hs[t] = {}
    BY <1>2, <1>6
  <2>5. SumFunctionOnSet(g, B) = SumFunctionOnSet(f, F(v))
    <3>1. \A s \in B : g[s] = SumFunctionOnSet(f, Hs[s])
      BY <2>2
    <3>2. \A j \in J : f[j] \in Nat
      BY <1>3
    <3>. HIDE DEF f, g, Hs, J, F, H, B, T, sb, w, isTau, X, base, bonus, tau
    <3>3. SumFunctionOnSet(g, B) = SumFunctionOnSet(f, UNION {Hs[s] : s \in B})
      BY ONLY <1>1, <1>4, <2>4, <3>1, <3>2, SumPartition
    <3>. QED
      BY <2>3, <3>3
  <2>6. SumFunctionOnSet(g, B) =
          bonus * SumFunctionOnSet(isTau, B) + base * Cardinality(B)
    <3>1. \A s \in B : isTau[s] \in Nat /\ g[s] = bonus * isTau[s] + base
      OBVIOUS
    <3>. HIDE DEF isTau, g, bonus, base
    <3>. QED
      BY <1>1, <2>1, <3>1, SumLinear
  <2>7. Cardinality(B) \in Nat
    BY <1>1, FS_CardinalityType
  <2>8. bonus * SumFunctionOnSet(isTau, B) = T * X
    BY <1>1, <1>5, <2>1
  <2>9. base * Cardinality(B) = T * Cardinality(B) * w[v]
    BY <1>1, <2>0, <2>7, Commutes
  <2>10. bonus * SumFunctionOnSet(isTau, B) + base * Cardinality(B)
           = T * Cardinality(B) * w[v] + T * X
    <3>1. T * X \in Nat /\ T * Cardinality(B) * w[v] \in Nat
      BY <1>1, <2>0, <2>7, Products
    <3>. QED
      BY <2>8, <2>9, <3>1
  <2>. QED
    BY <2>5, <2>6, <2>10
<1>7. SumFunctionOnSet(f, J) = T * Cardinality(B) * SumFunctionOnSet(w, V) + T * X * Cardinality(V)
  <2>. DEFINE a == T * Cardinality(B)
              b == T * X
              g == [v \in V |-> a * w[v] + b]
              Fs == [v \in V |-> F(v)]
  <2>1. a \in Nat /\ b \in Nat
    BY <1>1, FS_CardinalityType, Products
  <2>2. /\ \A v \in V : Fs[v] \subseteq J
        /\ \A u, v \in V : u # v => Fs[u] \cap Fs[v] = {}
        /\ UNION {Fs[v] : v \in V} = J
    <3>1. \A j \in J : j[2] \in V
      BY <1>3
    <3>. HIDE DEF J
    <3>. QED
      BY <3>1
  <2>3. /\ \A v \in V : g[v] = SumFunctionOnSet(f, Fs[v])
        /\ \A j \in J : f[j] \in Nat
    BY <1>3, <1>6
  <2>4. \A v \in V : w[v] \in Nat /\ g[v] = a * w[v] + b
    OBVIOUS
  <2>. HIDE DEF f, g, Fs, J, F, H, B, T, sb, w, isTau, X, tau, a, b
  <2>5. SumFunctionOnSet(g, V) = SumFunctionOnSet(f, UNION {Fs[v] : v \in V})
    BY ONLY IsFiniteSet(V), <1>4, <2>2, <2>3, SumPartition
  <2>6. SumFunctionOnSet(g, V) = a * SumFunctionOnSet(w, V) + b * Cardinality(V)
    BY <2>1, <2>4, SumLinear
  <2>. QED
    BY <2>2, <2>5, <2>6 DEF a, b
<1>. QED
  <2>. DEFINE W == SumFunctionOnSet(w, V)
              m == Cardinality(B)
              n == Cardinality(V)
              k == q.sample
  <2>1. W \in Nat /\ m \in Nat /\ n \in Nat
    <3>1. \A v \in V : w[v] \in Nat
      OBVIOUS
    <3>. HIDE DEF w
    <3>. QED
      BY <1>1, <3>1, SumNat, FS_CardinalityType
  <2>2. Reservable(p) = k * SumFunctionOnSet(f, J)
    BY DEF Reservable
  <2>3. CapsTotal(q, V) =
          W * m * T * k + (IF "tau2" \in B THEN sb * n * T * k ELSE 0)
    BY DEF CapsTotal
  <2>4. k * (T * m * W + T * X * n) =
          W * m * T * k + (IF "tau2" \in B THEN sb * n * T * k ELSE 0)
    <3>. HIDE DEF W, m, n, k, T, sb, B
    <3>1. k * (T * m * W + T * X * n) = W * m * T * k + X * n * T * k
      <4>1. X \in Nat /\ T \in Nat /\ k \in Nat
        BY <1>1 DEF T, k, sb
      <4>2. \A x, t, z \in Nat :
              z * (t * m * W + t * x * n) = W * m * t * z + x * n * t * z
        BY <2>1
      <4>. HIDE DEF X
      <4>. QED
        BY <4>1, <4>2
    <3>2. CASE "tau2" \in B
      BY <3>1, <3>2
    <3>3. CASE "tau2" \notin B
      <4>1. 0 * n * T * k = 0 /\ W * m * T * k \in Nat
        BY <1>1, <2>1, Products DEF T, k
      <4>. QED
        BY <3>1, <3>3, <4>1
    <3>. QED
      BY <3>2, <3>3
  <2>. QED
    BY <1>7, <2>2, <2>3, <2>4

-----------------------------------------------------------------------------
(***************************************************************************)
(* Campaign: every step keeps the invariant.                               *)
(***************************************************************************)

\* A choice has as many variants as efforts.
LEMMA VariantsOfPlan ==
  ASSUME NEW q \in Requests, \A c \in q.choices : Compatible(c)
  PROVE  IsFiniteSet(Variants(q)) /\ \A v \in Variants(q) : v.budget \in Nat
<1>. DEFINE All == {"provider_default", "low", "medium", "high", "xhigh", "max"}
            D == {d \in q.choices \X All : d[2] \in d[1].efforts}
            variant(c, e) == [target |-> c.target, harness |-> c.harness, effort |-> e,
                              budget |-> c.budget, deadline |-> c.deadline,
                              connection |-> targets[c.target]]
            g == [d \in D |-> variant(d[1], d[2])]
<1>1. IsFiniteSet(All)
  <2>1. IsFiniteSet({"provider_default"} \cup {"low"})
    BY FS_Singleton, FS_AddElement
  <2>2. IsFiniteSet({"medium"} \cup {"high"})
    BY FS_Singleton, FS_AddElement
  <2>3. IsFiniteSet({"xhigh"} \cup {"max"})
    BY FS_Singleton, FS_AddElement
  <2>4. IsFiniteSet((({"provider_default"} \cup {"low"}) \cup ({"medium"} \cup {"high"}))
                      \cup ({"xhigh"} \cup {"max"}))
    BY <2>1, <2>2, <2>3, FS_Union
  <2>5. All = (({"provider_default"} \cup {"low"}) \cup ({"medium"} \cup {"high"}))
                \cup ({"xhigh"} \cup {"max"})
    OBVIOUS
  <2>. QED
    BY <2>4, <2>5
<1>2. IsFiniteSet(q.choices) /\ \A c \in q.choices : c.budget \in Nat
  BY CampaignAssumption
<1>3. IsFiniteSet(q.choices \X All)
  BY <1>1, <1>2, FS_Product
<1>4. IsFiniteSet(D)
  BY <1>3, FS_Subset
<1>5. \A c \in q.choices : c.efforts \subseteq All
  BY DEF Compatible, CandidateEfforts
<1>6. ASSUME NEW v \in Variants(q)
      PROVE  \E c \in q.choices : \E e \in c.efforts : v = variant(c, e)
  BY <1>6 DEF Variants
<1>7. g \in Surjection(D, Variants(q))
  <2>1. g \in [D -> Variants(q)]
    BY DEF Variants
  <2>2. ASSUME NEW v \in Variants(q) PROVE \E d \in D : g[d] = v
    <3>1. PICK c \in q.choices : \E e \in c.efforts : v = variant(c, e)
      BY <1>6
    <3>a. PICK e \in c.efforts : v = variant(c, e)
      BY <3>1
    <3>2. <<c, e>> \in D /\ g[<<c, e>>] = variant(c, e)
      BY <1>5
    <3>. QED
      BY <3>a, <3>2
  <2>. HIDE DEF D, g
  <2>. QED
    BY <2>1, <2>2 DEF Surjection
<1>8. IsFiniteSet(Variants(q))
  <2>. HIDE DEF D, g
  <2>. QED
    BY <1>4, <1>7, FS_Surjection
<1>. QED
  BY <1>2, <1>6, <1>8

LEMMA CampaignInitInv == CampaignInit => CampaignIInv
<1>. SUFFICES ASSUME CampaignInit PROVE CampaignIInv
  OBVIOUS
<1>1. PacksShape
  BY DEF CampaignInit, PacksShape, Contents
<1>2. RunsShape
  BY FS_EmptySet DEF CampaignInit, RunsShape
<1>3. HistoryShape
  BY DEF CampaignInit, HistoryShape
<1>. QED
  BY <1>1, <1>2, <1>3 DEF CampaignIInv

\* Steps that concern neither packs nor runs, and add what plans they will.
LEMMA PlansGrow ==
  ASSUME CampaignIInv, UNCHANGED <<payload, manifest, freezing, creating, admitted,
                                   executed, refrozen>>,
         plans \subseteq plans', \A p \in plans' \ plans : PlanShape(p)
  PROVE  CampaignIInv'
<1>1. PacksShape'
  BY DEF CampaignIInv, PacksShape
<1>2. RunsShape'
  BY DEF CampaignIInv, RunsShape, RunShape
<1>3. HistoryShape'
  BY DEF CampaignIInv, HistoryShape
<1>. QED
  BY <1>1, <1>2, <1>3 DEF CampaignIInv

LEMMA PlanStep ==
  ASSUME CampaignIInv, NEW q \in Requests, Plan(q)
  PROVE  CampaignIInv'
<1>. DEFINE V == Variants(q)
            p == [request |-> q, variants |-> V,
                  data |-> [s \in q.suites |-> IF Loadable(s) THEN manifest[s] ELSE Nothing],
                  simulator |-> IF "tau2" \in q.suites THEN targets[q.simulator] ELSE Nothing,
                  caps |-> CapsTotal(q, V)]
<1>1. /\ plans' = plans \cup {p}
      /\ UNCHANGED <<payload, manifest, freezing, creating, admitted, executed, refrozen>>
  BY DEF Plan, packVars, runVars
<1>2. q.suites \subseteq Suites /\ \A c \in q.choices : Compatible(c)
  BY DEF Plan, ValidMatrix
<1>3. IsFiniteSet(V) /\ \A v \in V : v.budget \in Nat
  BY <1>2, VariantsOfPlan
<1>4. p.request = q /\ p.variants = V /\ p.caps = CapsTotal(q, V)
  OBVIOUS
<1>5. PlanShape(p)
  <2>. HIDE DEF p, V
  <2>. QED
    BY <1>2, <1>3, <1>4, CapsCoverEpisodes DEF PlanShape
<1>. HIDE DEF p
<1>. QED
  BY <1>1, <1>5, PlansGrow

LEMMA FreezeStep ==
  ASSUME CampaignIInv, NEW s \in Suites, NEW v \in Versions, Freeze(s, v)
  PROVE  CampaignIInv'
<1>1. PacksShape'
  BY DEF CampaignIInv, PacksShape, Freeze, Contents
<1>2. RunsShape'
  BY DEF CampaignIInv, RunsShape, RunShape, Freeze, runVars
<1>3. HistoryShape'
  BY DEF CampaignIInv, HistoryShape, Freeze, runVars
<1>. QED
  BY <1>1, <1>2, <1>3 DEF CampaignIInv

LEMMA NameStep ==
  ASSUME CampaignIInv, NEW f \in freezing, Name(f)
  PROVE  CampaignIInv'
<1>1. f.suite \in Suites /\ f.version \in Versions
  BY DEF CampaignIInv, PacksShape
<1>2. PacksShape'
  BY <1>1 DEF CampaignIInv, PacksShape, Name, Contents
<1>3. RunsShape'
  BY DEF CampaignIInv, RunsShape, RunShape, Name, runVars
<1>4. HistoryShape'
  <2>1. /\ manifest' = [manifest EXCEPT ![f.suite] = f.version]
        /\ refrozen' = refrozen \cup {[run |-> r.id, suite |-> f.suite] : r \in Using(f.suite)}
        /\ UNCHANGED <<admitted, executed>>
    BY DEF Name, runVars
  <2>2. ASSUME NEW r \in admitted, NEW s \in r.plan.request.suites
        PROVE  manifest'[s] = r.plan.data[s] \/ [run |-> r.id, suite |-> s] \in refrozen'
    <3>1. s \in Suites
      BY DEF CampaignIInv, RunsShape, RunShape, PlanShape
    <3>2. CASE s = f.suite
      BY <2>1, <3>2 DEF Using
    <3>3. CASE s /= f.suite
      <4>1. manifest'[s] = manifest[s]
        BY <2>1, <3>1, <3>3 DEF CampaignIInv, PacksShape
      <4>. QED
        BY <2>1, <4>1 DEF CampaignIInv, HistoryShape
    <3>. QED
      BY <3>2, <3>3
  <2>. QED
    BY <2>1, <2>2 DEF CampaignIInv, HistoryShape
<1>. QED
  BY <1>2, <1>3, <1>4 DEF CampaignIInv

LEMMA DieFreezingStep ==
  ASSUME CampaignIInv, NEW f \in freezing, DieFreezing(f)
  PROVE  CampaignIInv'
<1>1. PacksShape'
  BY DEF CampaignIInv, PacksShape, DieFreezing
<1>2. RunsShape'
  BY DEF CampaignIInv, RunsShape, RunShape, DieFreezing, runVars
<1>3. HistoryShape'
  BY DEF CampaignIInv, HistoryShape, DieFreezing, runVars
<1>. QED
  BY <1>1, <1>2, <1>3 DEF CampaignIInv

LEMMA CreateStep ==
  ASSUME CampaignIInv, NEW p \in plans, Create(p)
  PROVE  CampaignIInv'
<1>1. PacksShape'
  BY DEF CampaignIInv, PacksShape, Create, packVars
<1>2. RunsShape'
  BY DEF CampaignIInv, RunsShape, RunShape, Create
<1>3. HistoryShape'
  BY DEF CampaignIInv, HistoryShape, Create, packVars
<1>. QED
  BY <1>1, <1>2, <1>3 DEF CampaignIInv

\* The packs are compared in the step that admits.
LEMMA AdmitStep ==
  ASSUME CampaignIInv, NEW public, Admit(public)
  PROVE  CampaignIInv'
<1>1. /\ creating /= Nothing /\ creating' = Nothing
      /\ UNCHANGED <<payload, manifest, freezing, executed, plans, refrozen>>
      /\ \/ admitted' = admitted
         \/ admitted' = admitted \cup {creating} /\ PacksAreThePlans(creating.plan)
  BY DEF Admit, packVars
<1>2. PacksShape'
  BY <1>1 DEF CampaignIInv, PacksShape
<1>3. CASE admitted' = admitted
  <2>1. RunsShape'
    BY <1>1, <1>3 DEF CampaignIInv, RunsShape, RunShape
  <2>2. HistoryShape'
    BY <1>1, <1>3 DEF CampaignIInv, HistoryShape
  <2>. QED
    BY <1>2, <2>1, <2>2 DEF CampaignIInv
<1>4. CASE admitted' = admitted \cup {creating} /\ PacksAreThePlans(creating.plan)
  <2>. DEFINE n == Cardinality(admitted)
  <2>1. /\ IsFiniteSet(admitted) /\ n \in Nat
        /\ RunShape(creating) /\ creating.id = n + 1
        /\ \A r \in admitted : r.id \in 1 .. n
    BY <1>1, FS_CardinalityType DEF CampaignIInv, RunsShape
  <2>2. creating \notin admitted
    BY <2>1
  <2>3. IsFiniteSet(admitted') /\ Cardinality(admitted') = n + 1
    BY <1>4, <2>1, <2>2, FS_AddElement
  <2>4. RunsShape'
    <3>1. \A r \in admitted' : RunShape(r)' /\ r.id \in 1 .. n + 1
      BY <1>1, <1>4, <2>1 DEF CampaignIInv, RunsShape, RunShape
    <3>2. \A r, q \in admitted' : r.id = q.id => r = q
      BY <1>4, <2>1 DEF CampaignIInv, RunsShape
    <3>3. \A p \in plans' : PlanShape(p)
      BY <1>1 DEF CampaignIInv, RunsShape
    <3>. QED
      BY <1>1, <2>3, <3>1, <3>2, <3>3 DEF RunsShape
  <2>5. HistoryShape'
    <3>1. \A s \in creating.plan.request.suites : manifest[s] = creating.plan.data[s]
      BY <1>4 DEF PacksAreThePlans
    <3>2. \A e \in executed : e.run \in 1 .. n /\ e.run /= creating.id
      BY <2>1 DEF CampaignIInv, HistoryShape
    <3>. QED
      BY <1>1, <1>4, <2>1, <2>3, <3>1, <3>2 DEF CampaignIInv, HistoryShape
  <2>. QED
    BY <1>2, <2>4, <2>5 DEF CampaignIInv
<1>. QED
  BY <1>1, <1>3, <1>4

LEMMA StartJobStep ==
  ASSUME CampaignIInv, NEW r \in admitted, NEW s \in r.plan.request.suites, StartJob(r, s)
  PROVE  CampaignIInv'
<1>1. PacksShape'
  BY DEF CampaignIInv, PacksShape, StartJob, packVars
<1>2. RunsShape'
  BY DEF CampaignIInv, RunsShape, RunShape, StartJob
<1>3. HistoryShape'
  <2>1. /\ executed' = executed \cup {[run |-> r.id, suite |-> s, version |-> manifest[s]]}
        /\ UNCHANGED <<admitted, manifest, refrozen>>
    BY DEF StartJob, packVars
  <2>2. /\ manifest[s] = r.plan.data[s] \/ [run |-> r.id, suite |-> s] \in refrozen
        /\ r.id \in 1 .. Cardinality(admitted)
        /\ \A q \in admitted : r.id = q.id => r = q
    BY DEF CampaignIInv, RunsShape, HistoryShape
  <2>. QED
    BY <2>1, <2>2 DEF CampaignIInv, HistoryShape
<1>. QED
  BY <1>1, <1>2, <1>3 DEF CampaignIInv

\* The invariant, for every number of connections, packs, plans and runs.
THEOREM CampaignInvariant == CampaignSpec => []CampaignIInv
<1>1. CampaignIInv /\ [CampaignNext]_campaignVars => CampaignIInv'
  <2>. SUFFICES ASSUME CampaignIInv, [CampaignNext]_campaignVars PROVE CampaignIInv'
    OBVIOUS
  <2>1. ASSUME NEW t \in TargetIds, NEW c \in Connections \cup {Nothing}, EditTarget(t, c)
        PROVE  CampaignIInv'
    BY <2>1, PlansGrow DEF EditTarget, packVars, runVars
  <2>2. ASSUME NEW p \in plans, StartPreparing(p) PROVE CampaignIInv'
    BY <2>2, PlansGrow DEF StartPreparing, packVars, runVars
  <2>3. CASE EndPreparing
    BY <2>3, PlansGrow DEF EndPreparing, packVars, runVars
  <2>4. CASE UNCHANGED campaignVars
    BY <2>4, PlansGrow DEF campaignVars, packVars, runVars
  <2>. QED
    BY <2>1, <2>2, <2>3, <2>4, FreezeStep, NameStep, DieFreezingStep, PlanStep, CreateStep,
       AdmitStep, StartJobStep DEF CampaignNext
<1>. QED
  BY <1>1, CampaignInitInv, PTL DEF CampaignSpec

\* All the relays of an admitted run together cannot reserve more than the operator
\* authorized, its jobs run on the rows its plan froze unless a pack was frozen after
\* the admission, and no reader is sent to a payload that is not there
\* (planner.py:221-234, live_scheduler.py:107-113, packs.py:46-51).
THEOREM PlansAreKept == CampaignSpec => []FrozenPlansAreKept
<1>1. CampaignIInv => FrozenPlansAreKept
  <2>. SUFFICES ASSUME CampaignIInv PROVE FrozenPlansAreKept
    OBVIOUS
  <2>1. \A r \in admitted : Reservable(r.plan) <= r.plan.request.budget
    BY DEF CampaignIInv, RunsShape, RunShape, PlanShape
  <2>2. \A s \in Suites : manifest[s] /= Nothing => Loadable(s)
    BY DEF CampaignIInv, PacksShape, Loadable
  <2>. QED
    BY <2>1, <2>2 DEF FrozenPlansAreKept, CampaignIInv, HistoryShape
<1>. QED
  BY <1>1, CampaignInvariant, PTL


-----------------------------------------------------------------------------
(***************************************************************************)
(* Budgets: the inductive invariant, in named parts.                       *)
(***************************************************************************)

Row == [request : RequestIds, budget : BudgetIds, reserved : Nat,
        settled : Nat \cup {NoAmount}, event : EventIds \cup {"none"}]

ReserveCall == [do : {"reserve"}, request : RequestIds, budget : BudgetIds,
                amount : Nat, may : BOOLEAN]
SettleCall  == [do : {"settle"}, request : RequestIds, event : EventIds,
                amount : Nat, may : BOOLEAN]

BudgetTypes ==
  /\ cap \in [BudgetIds -> Nat]
  /\ rows \subseteq Row /\ IsFiniteSet(rows)
  /\ lock \in Workers \cup {NoWorker}
  /\ call \in [Workers -> {Waiting} \cup ReserveCall \cup SettleCall]

\* A worker in a transaction holds the lock, and what it may do still fits.
LockShape ==
  \A w \in Workers :
    /\ call[w] # Waiting <=> lock = w
    /\ call[w] # Waiting /\ call[w].may => Fits(call[w])

\* A request has one row, an event settles one row.
RowShape ==
  /\ \A r, s \in rows : r.request = s.request => r = s
  /\ \A r, s \in rows : r.event = s.event /\ r.event # "none" => r = s

Mine(b) == {r \in rows : r.budget = b}

\* What a budget holds, less the excess of its settlements, is within its cap.
CapShape ==
  \A b \in BudgetIds : HeldBy(Mine(b)) - ExcessOf(Mine(b)) <= cap[b]

BudgetsIInv ==
  /\ BudgetTypes
  /\ LockShape
  /\ RowShape
  /\ CapShape

-----------------------------------------------------------------------------
(***************************************************************************)
(* What reservations hold.                                                 *)
(***************************************************************************)

\* A row holds its reservation until it is settled, and then what it cost.
LEMMA RowAmounts ==
  ASSUME NEW r \in Row
  PROVE  Held(r) \in Nat /\ Excess(r) \in Nat /\ Held(r) - Excess(r) <= r.reserved
BY BudgetsAssumption DEF Row, Held, Excess

LEMMA SumsAreNat ==
  ASSUME NEW S, S \subseteq Row, IsFiniteSet(S)
  PROVE  HeldBy(S) \in Nat /\ ExcessOf(S) \in Nat
<1>. DEFINE h == [r \in S |-> Held(r)]
            x == [r \in S |-> Excess(r)]
<1>1. \A r \in S : h[r] \in Nat /\ x[r] \in Nat
  BY RowAmounts
<1>. HIDE DEF h, x
<1>2. SumFunctionOnSet(h, S) \in Nat /\ SumFunctionOnSet(x, S) \in Nat
  BY <1>1, SumNat
<1>. QED
  BY <1>2 DEF HeldBy, ExcessOf, h, x

\* A further row adds what it holds, and its excess.
LEMMA SumsAddRow ==
  ASSUME NEW S, S \subseteq Row, IsFiniteSet(S), NEW r \in Row, r \notin S
  PROVE  /\ HeldBy(S \cup {r}) = Held(r) + HeldBy(S)
         /\ ExcessOf(S \cup {r}) = Excess(r) + ExcessOf(S)
<1>. DEFINE h == [q \in S \cup {r} |-> Held(q)]
            g == [q \in S |-> Held(q)]
            x == [q \in S \cup {r} |-> Excess(q)]
            y == [q \in S |-> Excess(q)]
<1>1. /\ \A q \in S \cup {r} : h[q] \in Nat /\ x[q] \in Nat
      /\ \A q \in S : h[q] = g[q] /\ x[q] = y[q]
      /\ h[r] = Held(r) /\ x[r] = Excess(r)
  BY RowAmounts
<1>. HIDE DEF h, g, x, y
<1>2. /\ SumFunctionOnSet(h, S \cup {r}) = h[r] + SumFunctionOnSet(h, S)
      /\ SumFunctionOnSet(x, S \cup {r}) = x[r] + SumFunctionOnSet(x, S)
  BY <1>1, SumAdd
<1>3. /\ SumFunctionOnSet(h, S) = SumFunctionOnSet(g, S)
      /\ SumFunctionOnSet(x, S) = SumFunctionOnSet(y, S)
  BY <1>1, SumAgrees
<1>. QED
  BY <1>1, <1>2, <1>3 DEF HeldBy, ExcessOf, h, g, x, y

-----------------------------------------------------------------------------
(***************************************************************************)
(* Every step keeps the invariant.                                         *)
(***************************************************************************)

\* Steps that write no row.
LEMMA FrameStep ==
  ASSUME BudgetsIInv, UNCHANGED <<cap, rows>>, BudgetTypes',
         \A w \in Workers : call'[w] # Waiting <=> lock' = w,
         \A w \in Workers : call'[w] # Waiting /\ call'[w].may =>
           Fits(call'[w])
  PROVE  BudgetsIInv'
<1>1. \A k : Fits(k)' <=> Fits(k)
  BY DEF Fits, RowsFor, Committed, HeldBy, Held, EventFree
<1>2. LockShape'
  BY <1>1 DEF LockShape, Fits, RowsFor, Committed, HeldBy, Held, EventFree
<1>. QED
  BY <1>2 DEF BudgetsIInv, RowShape, CapShape, Mine, HeldBy, ExcessOf, Held, Excess

LEMMA DefineStep ==
  ASSUME BudgetsIInv, NEW b \in BudgetIds, NEW a \in Amounts, Define(b, a)
  PROVE  BudgetsIInv'
<1>1. /\ a \in Nat /\ lock = NoWorker /\ UNCHANGED <<rows, lock, call>>
      /\ cap' = IF cap[b] = 0 THEN [cap EXCEPT ![b] = a] ELSE cap
  BY BudgetsAssumption DEF Define
<1>2. BudgetTypes'
  BY <1>1 DEF BudgetsIInv, BudgetTypes
<1>3. LockShape'
  BY <1>1, BudgetsAssumption DEF BudgetsIInv, LockShape
<1>4. RowShape'
  BY <1>1 DEF BudgetsIInv, RowShape
<1>5. CapShape'
  <2>1. ASSUME NEW c \in BudgetIds
        PROVE  HeldBy(Mine(c)) - ExcessOf(Mine(c)) <= cap'[c]
    <3>1. Mine(c) \subseteq Row /\ IsFiniteSet(Mine(c))
      BY FS_Subset DEF BudgetsIInv, BudgetTypes, Mine
    <3>2. HeldBy(Mine(c)) \in Nat /\ ExcessOf(Mine(c)) \in Nat
      BY <3>1, SumsAreNat
    <3>3. cap[c] \in Nat /\ cap'[c] \in Nat /\ cap[c] <= cap'[c]
      BY <1>1, <1>2 DEF BudgetsIInv, BudgetTypes
    <3>4. HeldBy(Mine(c)) - ExcessOf(Mine(c)) <= cap[c]
      BY DEF BudgetsIInv, CapShape
    <3>. QED
      BY <3>2, <3>3, <3>4
  <2>. QED
    BY <1>1, <2>1 DEF CapShape, Mine, HeldBy, ExcessOf, Held, Excess
<1>. QED
  BY <1>2, <1>3, <1>4, <1>5 DEF BudgetsIInv

\* A transaction begins when nobody has the lock.
LEMMA BeginStep ==
  ASSUME BudgetsIInv, NEW w \in Workers, Begin(w)
  PROVE  BudgetsIInv'
<1>1. PICK work \in ReserveCall \cup SettleCall :
        BeginImmediate(w, work) /\ ~work.may
  <2>1. ASSUME NEW q \in RequestIds, NEW b \in BudgetIds, NEW a \in Amounts \ {0},
               BeginImmediate(w, [do |-> "reserve", request |-> q, budget |-> b,
                                  amount |-> a, may |-> FALSE])
        PROVE  \E k \in ReserveCall : BeginImmediate(w, k) /\ ~k.may
    <3>. DEFINE k == [do |-> "reserve", request |-> q, budget |-> b,
                      amount |-> a, may |-> FALSE]
    <3>1. k \in ReserveCall /\ ~k.may
      BY BudgetsAssumption DEF ReserveCall
    <3>. HIDE DEF k
    <3>2. BeginImmediate(w, k)
      BY <2>1 DEF k
    <3>. QED
      BY <3>1, <3>2
  <2>2. ASSUME NEW q \in RequestIds, NEW e \in EventIds, NEW a \in Amounts,
               BeginImmediate(w, [do |-> "settle", request |-> q, event |-> e,
                                  amount |-> a, may |-> FALSE])
        PROVE  \E k \in SettleCall : BeginImmediate(w, k) /\ ~k.may
    <3>. DEFINE k == [do |-> "settle", request |-> q, event |-> e,
                      amount |-> a, may |-> FALSE]
    <3>1. k \in SettleCall /\ ~k.may
      BY BudgetsAssumption DEF SettleCall
    <3>. HIDE DEF k
    <3>2. BeginImmediate(w, k)
      BY <2>2 DEF k
    <3>. QED
      BY <3>1, <3>2
  <2>3. (\E k \in ReserveCall : BeginImmediate(w, k) /\ ~k.may)
        \/ (\E k \in SettleCall : BeginImmediate(w, k) /\ ~k.may)
    BY <2>1, <2>2 DEF Begin
  <2>. QED
    BY <2>3
<1>2. /\ lock = NoWorker /\ lock' = w /\ call' = [call EXCEPT ![w] = work]
      /\ UNCHANGED <<cap, rows>>
  BY <1>1 DEF BeginImmediate
<1>3. work # Waiting
  <2>1. work.do # "none"
    BY DEF ReserveCall, SettleCall
  <2>. QED
    BY <2>1 DEF Waiting
<1>4. BudgetTypes'
  BY <1>1, <1>2 DEF BudgetsIInv, BudgetTypes
<1>5. /\ call'[w] = work
      /\ \A v \in Workers : v # w => call'[v] = call[v] /\ call[v] = Waiting
  BY <1>2, BudgetsAssumption DEF BudgetsIInv, BudgetTypes, LockShape
<1>. QED
  BY <1>1, <1>2, <1>3, <1>4, <1>5, FrameStep

\* A statement that reads: the work fits, or the transaction ends; also when a
\* worker dies.
LEMMA SelectStep ==
  ASSUME BudgetsIInv, NEW w \in Workers, Select(w) \/ Rollback(w)
  PROVE  BudgetsIInv'
<1>1. call \in [Workers -> {Waiting} \cup ReserveCall \cup SettleCall]
      /\ \A v \in Workers :
           /\ call[v] # Waiting <=> lock = v
           /\ call[v] # Waiting /\ call[v].may => Fits(call[v])
  BY DEF BudgetsIInv, BudgetTypes, LockShape
<1>2. call[w] # Waiting /\ lock = w /\ UNCHANGED <<cap, rows>>
  BY <1>1 DEF Select, Rollback, Waiting
<1>3. CASE /\ Fits(call[w])
           /\ call' = [call EXCEPT ![w].may = TRUE] /\ lock' = lock
  <2>. DEFINE k == [call[w] EXCEPT !.may = TRUE]
  <2>1. k \in ReserveCall \cup SettleCall /\ call' = [call EXCEPT ![w] = k]
    BY <1>1, <1>2, <1>3 DEF ReserveCall, SettleCall
  <2>2. Fits(k)
    BY <1>1, <1>2, <1>3 DEF Fits, ReserveCall, SettleCall
  <2>. HIDE DEF k
  <2>3. k # Waiting
    <3>1. k.do # "none"
      BY <2>1 DEF ReserveCall, SettleCall
    <3>. QED
      BY <3>1 DEF Waiting
  <2>4. BudgetTypes'
    BY <1>2, <1>3, <2>1 DEF BudgetsIInv, BudgetTypes
  <2>5. call'[w] = k /\ \A v \in Workers : v # w => call'[v] = call[v]
    BY <1>1, <2>1
  <2>. QED
    BY <1>1, <1>2, <1>3, <2>2, <2>3, <2>4, <2>5, FrameStep
<1>4. CASE call' = [call EXCEPT ![w] = Waiting] /\ lock' = NoWorker
  <2>1. BudgetTypes'
    BY <1>2, <1>4 DEF BudgetsIInv, BudgetTypes
  <2>2. call'[w] = Waiting
        /\ \A v \in Workers : v # w => call'[v] = call[v] /\ call[v] = Waiting
    BY <1>1, <1>2, <1>4
  <2>. QED
    BY <1>2, <1>4, <2>1, <2>2, BudgetsAssumption, FrameStep
<1>. QED
  BY <1>2, <1>3, <1>4 DEF Select, Rollback

\* The transaction that writes: its work still fits, because nobody else wrote.
LEMMA CommitStep ==
  ASSUME BudgetsIInv, NEW w \in Workers, Commit(w)
  PROVE  BudgetsIInv'
<1>. DEFINE k == call[w]
<1>1. /\ cap \in [BudgetIds -> Nat] /\ rows \subseteq Row /\ IsFiniteSet(rows)
      /\ call \in [Workers -> {Waiting} \cup ReserveCall \cup SettleCall]
      /\ \A v \in Workers : call[v] # Waiting <=> lock = v
  BY DEF BudgetsIInv, BudgetTypes, LockShape
<1>2. k # Waiting /\ lock = w /\ Fits(k) /\ k.may
  <2>1. k.do # "none" /\ k.may
    BY DEF Commit
  <2>2. k # Waiting
    BY <2>1 DEF Waiting
  <2>. HIDE DEF k
  <2>3. k # Waiting /\ k.may => Fits(k)
    BY DEF BudgetsIInv, LockShape, k
  <2>. QED
    BY <1>1, <2>1, <2>2, <2>3 DEF k
<1>3. /\ call' = [call EXCEPT ![w] = Waiting] /\ lock' = NoWorker /\ cap' = cap
  BY <1>2 DEF Commit
<1>4. /\ call' \in [Workers -> {Waiting} \cup ReserveCall \cup SettleCall]
      /\ \A v \in Workers : call'[v] = Waiting
      /\ \A v \in Workers : lock' # v
  BY <1>1, <1>2, <1>3, BudgetsAssumption
<1>5. LockShape'
  BY <1>4 DEF LockShape
<1>6. ASSUME NEW b \in BudgetIds
      PROVE  /\ Mine(b) \subseteq Row /\ IsFiniteSet(Mine(b))
             /\ HeldBy(Mine(b)) \in Nat /\ ExcessOf(Mine(b)) \in Nat
             /\ HeldBy(Mine(b)) - ExcessOf(Mine(b)) <= cap[b] /\ cap[b] \in Nat
  <2>1. Mine(b) \subseteq Row /\ IsFiniteSet(Mine(b))
    BY <1>1, FS_Subset DEF Mine
  <2>. QED
    BY <1>1, <2>1, SumsAreNat DEF BudgetsIInv, CapShape
<1>7. \A b : HeldBy(Mine(b))' = HeldBy(Mine(b)')
          /\ ExcessOf(Mine(b))' = ExcessOf(Mine(b)')
  BY DEF HeldBy, ExcessOf, Held, Excess
<1>8. CASE k.do = "reserve"
  <2>. DEFINE new == [request |-> k.request, budget |-> k.budget,
                      reserved |-> k.amount, settled |-> NoAmount,
                      event |-> "none"]
  <2>1. k \in ReserveCall
    BY <1>1, <1>2, <1>8 DEF SettleCall
  <2>2. new \in Row /\ rows' = rows \cup {new}
    BY <1>8, <2>1 DEF ReserveCall, Row, Commit
  <2>3. /\ \A r \in rows : r.request # new.request
        /\ HeldBy(Mine(new.budget)) + new.reserved <= cap[new.budget]
    BY <1>2, <1>8 DEF Fits, RowsFor, Committed, Mine
  <2>4. Held(new) = new.reserved /\ Excess(new) = 0 /\ new.event = "none"
    BY DEF Held, Excess
  <2>. HIDE DEF new, k
  <2>5. BudgetTypes'
    <3>1. IsFiniteSet(rows')
      BY <1>1, <2>2, FS_AddElement
    <3>. QED
      BY <1>1, <1>3, <1>4, <2>2, <3>1 DEF BudgetTypes
  <2>6. RowShape'
    BY <2>2, <2>3, <2>4 DEF BudgetsIInv, RowShape
  <2>7. ASSUME NEW b \in BudgetIds
        PROVE  HeldBy(Mine(b)') - ExcessOf(Mine(b)') <= cap[b]
    <3>1. CASE b = new.budget
      <4>1. Mine(b)' = Mine(b) \cup {new} /\ new \notin Mine(b)
        BY <2>2, <2>3, <3>1 DEF Mine
      <4>2. /\ HeldBy(Mine(b)') = Held(new) + HeldBy(Mine(b))
            /\ ExcessOf(Mine(b)') = Excess(new) + ExcessOf(Mine(b))
        BY <1>6, <2>2, <4>1, SumsAddRow
      <4>3. new.reserved \in Nat
        BY <2>2 DEF Row
      <4>. QED
        BY <1>6, <2>3, <2>4, <3>1, <4>2, <4>3
    <3>2. CASE b # new.budget
      <4>1. Mine(b)' = Mine(b)
        BY <2>2, <3>2 DEF Mine
      <4>. QED
        BY <1>6, <4>1
    <3>. QED
      BY <3>1, <3>2
  <2>8. CapShape'
    BY <1>3, <1>7, <2>7 DEF CapShape
  <2>. QED
    BY <1>5, <2>5, <2>6, <2>8 DEF BudgetsIInv
<1>9. CASE k.do = "settle"
  <2>1. k \in SettleCall
    BY <1>1, <1>2, <1>9 DEF ReserveCall
  <2>2. PICK before \in rows : before.request = k.request /\ before.settled = NoAmount
    BY <1>2, <1>9 DEF Fits, RowsFor
  <2>. DEFINE new == [before EXCEPT !.settled = k.amount, !.event = k.event]
              rest == rows \ {before}
  <2>3. \A r \in rows : r.request = k.request <=> r = before
    BY <2>2 DEF BudgetsIInv, RowShape
  <2>4. rows' = rest \cup {new}
    BY <1>9, <2>2, <2>3 DEF Commit
  <2>5. /\ before \in Row /\ new \in Row /\ new.request = before.request
        /\ new.budget = before.budget /\ new.reserved = before.reserved
        /\ new.settled = k.amount /\ new.event = k.event /\ k.amount \in Nat
    BY <1>1, <2>1 DEF Row, SettleCall
  <2>6. \A r \in rest : r.request # new.request /\ r.event # new.event
    <3>1. \A r \in rest : r.request # k.request
      BY <2>3
    <3>2. EventFree(k.event, k.request)
      BY <1>2, <1>9 DEF Fits
    <3>. QED
      BY <2>2, <2>5, <3>1, <3>2 DEF EventFree
  <2>7. /\ Held(before) = before.reserved /\ Excess(before) = 0
        /\ Held(new) - Excess(new) <= before.reserved
        /\ Held(new) \in Nat /\ Excess(new) \in Nat /\ before.reserved \in Nat
    BY <2>2, <2>5, RowAmounts DEF Held, Excess, Row
  <2>. HIDE DEF new, k
  <2>8. BudgetTypes'
    <3>1. IsFiniteSet(rest)
      BY <1>1, FS_Subset
    <3>2. IsFiniteSet(rows')
      BY <2>4, <3>1, FS_AddElement
    <3>. QED
      BY <1>1, <1>3, <1>4, <2>4, <2>5, <3>2 DEF BudgetTypes
  <2>9. RowShape'
    BY <2>4, <2>6 DEF BudgetsIInv, RowShape
  <2>10. ASSUME NEW b \in BudgetIds
         PROVE  HeldBy(Mine(b)') - ExcessOf(Mine(b)') <= cap[b]
    <3>1. CASE b = before.budget
      <4>. DEFINE T == Mine(b) \ {before}
      <4>1. Mine(b)' = T \cup {new} /\ new \notin T
        BY <2>4, <2>5, <2>6, <3>1 DEF Mine
      <4>2. Mine(b) = T \cup {before} /\ before \notin T
        BY <3>1 DEF Mine
      <4>3. T \subseteq Row /\ IsFiniteSet(T)
        BY <1>6, FS_Subset
      <4>. HIDE DEF T
      <4>4. HeldBy(T) \in Nat /\ ExcessOf(T) \in Nat
        BY <4>3, SumsAreNat
      <4>5. /\ HeldBy(T \cup {new}) = Held(new) + HeldBy(T)
            /\ ExcessOf(T \cup {new}) = Excess(new) + ExcessOf(T)
        BY <2>5, <4>1, <4>3, SumsAddRow
      <4>6. /\ HeldBy(T \cup {before}) = Held(before) + HeldBy(T)
            /\ ExcessOf(T \cup {before}) = Excess(before) + ExcessOf(T)
        BY <2>5, <4>2, <4>3, SumsAddRow
      <4>7. HeldBy(T \cup {before}) - ExcessOf(T \cup {before}) <= cap[b]
            /\ cap[b] \in Nat
        BY <1>6, <4>2
      <4>8. HeldBy(T \cup {new}) - ExcessOf(T \cup {new}) <= cap[b]
        BY <2>7, <4>4, <4>5, <4>6, <4>7
      <4>. QED
        BY <4>1, <4>8
    <3>2. CASE b # before.budget
      <4>1. Mine(b)' = Mine(b)
        BY <2>2, <2>4, <2>5, <3>2 DEF Mine
      <4>. QED
        BY <1>6, <4>1
    <3>. QED
      BY <3>1, <3>2
  <2>11. CapShape'
    BY <1>3, <1>7, <2>10 DEF CapShape
  <2>. QED
    BY <1>5, <2>8, <2>9, <2>11 DEF BudgetsIInv
<1>. QED
  BY <1>8, <1>9 DEF Commit

LEMMA BudgetsNextInv == BudgetsIInv /\ [BudgetsNext]_budgetVars => BudgetsIInv'
<1>. SUFFICES ASSUME BudgetsIInv, [BudgetsNext]_budgetVars PROVE BudgetsIInv'
  OBVIOUS
<1>1. CASE UNCHANGED budgetVars
  <2>1. BudgetTypes' /\ UNCHANGED <<cap, rows, lock, call>>
    BY <1>1 DEF BudgetsIInv, BudgetTypes, budgetVars
  <2>2. \A w \in Workers : /\ call'[w] # Waiting <=> lock' = w
                           /\ call'[w] # Waiting /\ call'[w].may => Fits(call'[w])
    BY <2>1 DEF BudgetsIInv, LockShape
  <2>. QED
    BY <2>1, <2>2, FrameStep
<1>. QED
  BY <1>1, DefineStep, BeginStep, SelectStep, CommitStep DEF BudgetsNext

LEMMA BudgetsInitInv == BudgetsInit => BudgetsIInv
<1>. SUFFICES ASSUME BudgetsInit PROVE BudgetsIInv
  OBVIOUS
<1>1. BudgetTypes
  BY FS_EmptySet DEF BudgetsInit, BudgetTypes
<1>2. LockShape
  BY BudgetsAssumption DEF BudgetsInit, LockShape
<1>3. CapShape
  <2>1. \A b \in BudgetIds : Mine(b) = {}
    BY DEF BudgetsInit, Mine
  <2>2. HeldBy({}) = 0 /\ ExcessOf({}) = 0
    BY SumEmpty DEF HeldBy, ExcessOf
  <2>. QED
    BY <2>1, <2>2 DEF CapShape, BudgetsInit
<1>. QED
  BY <1>1, <1>2, <1>3 DEF BudgetsIInv, RowShape, BudgetsInit

-----------------------------------------------------------------------------
\* The inductive invariant holds of every behaviour.
THEOREM BudgetsInvariant == BudgetsSpec => []BudgetsIInv
<1>. QED
  BY BudgetsInitInv, BudgetsNextInv, PTL DEF BudgetsSpec

\* However workers interleave, repeat their calls or die, a budget is exceeded
\* only by what settlements cost beyond their reservations, a request holds one
\* reservation and an event settles one (budget.py).
THEOREM ReservationsAreBounded == BudgetsSpec => []ReservationsHold
<1>1. BudgetsIInv => ReservationsHold
  <2>. SUFFICES ASSUME BudgetsIInv PROVE ReservationsHold
    OBVIOUS
  <2>1. ASSUME NEW q \in RequestIds PROVE Cardinality(RowsFor(q)) <= 1
    <3>1. CASE RowsFor(q) = {}
      BY <3>1, FS_EmptySet
    <3>2. CASE RowsFor(q) # {}
      <4>1. PICK r : r \in RowsFor(q)
        BY <3>2
      <4>2. RowsFor(q) = {r}
        BY <4>1 DEF RowsFor, BudgetsIInv, RowShape
      <4>3. Cardinality({r}) = 1
        BY FS_Singleton
      <4>. QED
        BY <4>2, <4>3
    <3>. QED
      BY <3>1, <3>2
  <2>. QED
    BY <2>1 DEF BudgetsIInv, RowShape, CapShape, Mine, Committed, ReservationsHold
<1>. QED
  BY <1>1, BudgetsInvariant, PTL
=============================================================================
