------------------------------- MODULE Audits -------------------------------
(***************************************************************************)
(* The execution audit (audit.py) and the platform credentials it renews   *)
(* (platform_auth.py).  A command loads the .env file and takes a token    *)
(* that is good for the leeway at least; its worker threads then poll the  *)
(* platform log, each for its own execution, through one client: they      *)
(* share its bearer header and the credential manager, and each may renew  *)
(* the token once per audit.  The platform fills a log record step by step *)
(* and in any order; tokens are numbered as the platform issues them.      *)
(***************************************************************************)
EXTENDS Integers, FiniteSets

CONSTANTS
  Auditors,       \* worker threads, each with the execution it audits
  MaxTokens,      \* bound: tokens the platform issues
  LoginWorks,     \* the account can log in with its password alone
  MaxAudits       \* bound: audits each thread makes

ASSUME AuditsAssumption ==
  MaxTokens \in Nat \ {0} /\ LoginWorks \in BOOLEAN

VARIABLES
  issued,     \* the newest token
  old,        \* tokens that have expired or are about to
  envFile,    \* the token in .env, 0 for none or for one that is no JWT
  environ,    \* the token in the environment, which wins over the file
  manager,    \* the credential manager's token
  header,     \* the token in the client's Authorization header
  audit,      \* each thread: what it does or how it ended, the token it has got,
              \* the tokens put to use since it began, the number of its audits
  record,     \* what the log shows of the execution each thread audits
  mustSettle, \* VOHU_EVALS_ALLOW_UNSETTLED_COST is not 1
  forbidden   \* history: threads whose access was refused, or whose login was

auditVars == <<issued, old, envFile, environ, manager, header, audit, record, mustSettle, forbidden>>

\* A record that is visible but not reconciled, or that lacks attempts, is waited
\* for like none.
Facts == {"reconciled", "usage", "settled"}

NoAudit == [at |-> "idle", token |-> 0, renewed |-> FALSE, new |-> {}, made |-> 0]

AuditsInit ==
  /\ issued = 1
  /\ old \in SUBSET {1}
  /\ envFile \in {0, 1} /\ environ \in {0, 1}
  /\ manager = 0 /\ header = 0
  /\ audit = [p \in Auditors |-> NoAudit]
  /\ record = [p \in Auditors |-> {}]
  /\ mustSettle \in BOOLEAN
  /\ forbidden = {}

\* jwt_is_fresh: good for longer than the leeway, by the clock of the caller.
Fresh(t) == t /= 0 /\ t \notin old

Busy(p) == audit[p].at \notin {"idle", "accepted", "unsettled", "unauthorized", "failed", "late"}

-----------------------------------------------------------------------------
(***************************************************************************)
(* The platform.                                                           *)
(***************************************************************************)

\* The log of an execution grows, which matters while it is polled; once it is
\* settled there is a cost.
Grow(p) ==
  /\ Busy(p)
  /\ \E f \in Facts \ record[p] : record' = [record EXCEPT ![p] = @ \cup {f}]
  /\ UNCHANGED <<issued, old, envFile, environ, manager, header, audit, mustSettle, forbidden>>

\* A token expires.  The leeway is as long as an audit may take, so a token
\* outlives the audits that are under way when it is put to use.
Expire(t) ==
  /\ t \in 1 .. issued /\ Fresh(t)
  /\ \A p \in Auditors : Busy(p) => t /= audit[p].token /\ t \notin audit[p].new
  /\ old' = old \cup {t}
  /\ UNCHANGED <<issued, envFile, environ, manager, header, audit, record, mustSettle, forbidden>>

\* _login gets a token; its owner stores it in .env with one rename.
Login ==
  /\ LoginWorks /\ issued < MaxTokens
  /\ issued' = issued + 1
  /\ envFile' = issued'
  /\ manager' = issued' /\ environ' = issued'

-----------------------------------------------------------------------------
\* load_local_env, ensure_fresh and the adapter, when the command starts; a
\* command that cannot renew its token ends here.
Command ==
  /\ header = 0
  /\ LET token == IF environ = 0 THEN envFile ELSE environ IN
     \/ /\ Fresh(token)
        /\ environ' = token /\ manager' = token /\ header' = token
        /\ UNCHANGED <<issued, envFile>>
     \/ ~Fresh(token) /\ Login /\ header' = issued'
  /\ audit' = [p \in Auditors |-> NoAudit]
  /\ UNCHANGED <<old, record, mustSettle, forbidden>>

\* The command ends or is killed, and the environment of the next is the
\* operator's: without the token or with the one it had.
Quit ==
  /\ header /= 0 /\ header' = 0 /\ manager' = 0
  /\ environ' \in {0, 1}
  /\ audit' = [p \in Auditors |-> NoAudit]
  /\ record' = [p \in Auditors |-> {}]
  /\ forbidden' = {}
  /\ UNCHANGED <<issued, old, envFile, mustSettle>>

\* A thread audits the execution it has just made.
Resolve(p) ==
  /\ header /= 0 /\ ~Busy(p) /\ audit[p].made < MaxAudits
  /\ audit' = [audit EXCEPT ![p] = [NoAudit EXCEPT !.at = "ask",
                                                         !.made = audit[p].made + 1]]
  /\ record' = [record EXCEPT ![p] = {}]
  /\ UNCHANGED <<issued, old, envFile, environ, manager, header, mustSettle, forbidden>>

\* Mutant: the adapter remembers that it has renewed its token.
MayRenewOnce(p) == \A q \in Auditors : ~audit[q].renewed

\* One renewal per audit.
MayRenew(p) == ~audit[p].renewed

End(p, outcome) == audit' = [audit EXCEPT ![p].at = outcome]

\* HTTP 401: renew the token once, else give up.
Rejected(p) ==
  /\ audit[p].at = "ask" /\ header \in old
  /\ IF MayRenew(p) THEN End(p, "renew") ELSE End(p, "unauthorized")
  /\ UNCHANGED <<issued, old, envFile, environ, manager, header, record, mustSettle, forbidden>>

\* HTTP 403, or a login that is refused, asks for a second factor, returns a
\* token that is not fresh or cannot be stored.
Forbid(p) ==
  /\ audit[p].at \in {"ask", "renew"}
  /\ forbidden' = forbidden \cup {p}
  /\ End(p, "unauthorized")
  /\ UNCHANGED <<issued, old, envFile, environ, manager, header, record, mustSettle>>

\* ensure_fresh(force=True) logs in, though another thread may just have.
Renew(p) ==
  /\ audit[p].at = "renew"
  /\ Login
  /\ audit' = [audit EXCEPT ![p].at = "install", ![p].token = issued']
  /\ UNCHANGED <<old, header, record, mustSettle, forbidden>>

\* The header takes the token this thread got, be there a newer one by now.
Install(p) ==
  /\ audit[p].at = "install"
  /\ header' = audit[p].token
  /\ audit' = [q \in Auditors |->
       LET a == IF Busy(q) THEN [audit[q] EXCEPT !.new = @ \cup {header'}] ELSE audit[q]
       IN IF q = p THEN [a EXCEPT !.at = "ask", !.renewed = TRUE] ELSE a]
  /\ UNCHANGED <<issued, old, envFile, environ, manager, record, mustSettle, forbidden>>

\* What is still worth waiting for; a server error is too (and stutters).
Incomplete(p) ==
  \/ "reconciled" \notin record[p]
  \/ "usage" \in record[p] /\ "settled" \notin record[p] /\ mustSettle

Answer(p) ==
  /\ audit[p].at = "ask" /\ header \notin old /\ ~Incomplete(p)
  /\ End(p, IF "usage" \notin record[p] THEN "failed"
            ELSE IF "settled" \in record[p] THEN "accepted" ELSE "unsettled")
  /\ UNCHANGED <<issued, old, envFile, environ, manager, header, record, mustSettle, forbidden>>

\* The deadline passes, or the record is of another execution or has no cost.
GiveUp(p) ==
  /\ audit[p].at = "ask"
  /\ End(p, "late")
  /\ UNCHANGED <<issued, old, envFile, environ, manager, header, record, mustSettle, forbidden>>

AuditsNext ==
  \/ Command \/ Quit
  \/ \E t \in 1 .. MaxTokens : Expire(t)
  \/ \E p \in Auditors : \/ Grow(p) \/ Resolve(p) \/ Rejected(p) \/ Forbid(p)
                         \/ Renew(p) \/ Install(p) \/ Answer(p) \/ GiveUp(p)

AuditsSpec == AuditsInit /\ [][AuditsNext]_auditVars

-----------------------------------------------------------------------------
\* An audit is refused for its authorization only if the platform forbids it or
\* refuses the login: a token that expires during a long run, under any number
\* of threads that renew it over each other, does not stop the run.  An accepted
\* one has the whole record, and a cost of zero stands for one not settled, only
\* where the operator allows it (audit.py:63-131, platform_auth.py:96-109).
AuditsAreJustified ==
  \A p \in Auditors :
    /\ audit[p].at = "unauthorized" => p \in forbidden
    /\ audit[p].at = "accepted" => record[p] = Facts
    /\ audit[p].at = "unsettled" => ~mustSettle /\ Facts \ {"settled"} \subseteq record[p]
=============================================================================
