------------------------------ MODULE AuditLog ------------------------------
(***************************************************************************)
(* The audit log: the tables request_audits and upstream_attempt_audits,   *)
(* the requests that write them (src/http_proxy/mod.rs, audit.rs,          *)
(* stream.rs and src/db/audit.rs), and what else changes them: the         *)
(* deletion of a client, a token, an upstream or a key, and the cleanup of *)
(* a starting server.                                                      *)
(*                                                                         *)
(* A request writes one row for itself and one for each attempt, in as     *)
(* many statements and without a transaction, so anything can happen       *)
(* between two of them.  A streamed answer updates its row once more when  *)
(* the stream has ended, through the id that the handler left in a         *)
(* StreamUsageAuditHandle.                                                 *)
(*                                                                         *)
(* A usage is the number of the upstream's report of it, 0 for none.  In   *)
(* which order the keys are tried, and that one may be tried twice, is     *)
(* ProxyRetry's matter: here each is tried once, in any order.             *)
(***************************************************************************)
EXTENDS Integers, Sequences

CONSTANTS
  Request, Client, Token, Upstream, Key,
  None,         \* NULL
  ClientOf,     \* client_tokens.client_id
  UpstreamOf,   \* upstream_keys.upstream_id
  Retention,    \* ROUTE_LLM_AUDIT_RETENTION_DAYS; 0 or less keeps everything
  Step,         \* the least time that the clock tells apart
  MaxTime,      \* bound: the clock stops after it
  MaxReports,   \* bound: usage reports of one stream
  MaxDeletions  \* bound: deletions by the administrator

ASSUME AuditAssumption ==
  /\ ClientOf \in [Token -> Client] /\ UpstreamOf \in [Key -> Upstream]
  /\ None \notin Client \cup Token \cup Upstream \cup Key
  /\ Retention \in Int /\ Step \in Nat \ {0} /\ MaxTime \in Nat /\ MaxReports \in Nat \ {0}
  /\ MaxDeletions \in Nat

VARIABLES
  now,
  clients, tokens, upstreams, keys,   \* the rows that are there; an id never returns
  request_audits,
  upstream_attempt_audits,
  deletions,  \* so far, for its bound
  next_id,    \* AUTOINCREMENT of request_audits
  pc,         \* Request -> how far it got
  who,        \* Request -> the token it was authenticated with
  left,       \* Request -> candidates not tried yet
  attempts,   \* Request -> what became of the keys it tried
  answer,     \* Request -> what its row will say
  audit_id,   \* Request -> last_insert_rowid() of its row, 0 before
  written,    \* Request -> attempts whose row was inserted
  saved,      \* Request -> whether save_audit_best_effort returned that id
  usage       \* Request -> the last usage that the upstream reported

parties == <<clients, tokens, upstreams, keys, deletions>>
tables == <<request_audits, upstream_attempt_audits, next_id>>
record == <<audit_id, written, saved>>
local == <<who, left, attempts, answer, usage, record>>
vars == <<now, parties, tables, pc, local>>
-----------------------------------------------------------------------------
Bodies == {"whole", "captured", "adapted"}
Answers == [key : Key \cup {None}, body : Bodies]
NoAnswer == [key |-> None, body |-> "whole"]

Init ==
  /\ now = 0
  /\ clients = Client /\ tokens = Token /\ upstreams = Upstream /\ keys = Key
  /\ deletions = 0
  /\ request_audits = {} /\ upstream_attempt_audits = {} /\ next_id = 1
  /\ pc = [r \in Request |-> "idle"]
  /\ who = [r \in Request |-> None]
  /\ left = [r \in Request |-> {}]
  /\ attempts = [r \in Request |-> <<>>]
  /\ answer = [r \in Request |-> NoAnswer]
  /\ audit_id = [r \in Request |-> 0]
  /\ written = [r \in Request |-> 0]
  /\ saved = [r \in Request |-> FALSE]
  /\ usage = [r \in Request |-> 0]

Goto(r, from, to) == pc[r] = from /\ pc' = [pc EXCEPT ![r] = to]
Surviving(x, S) == IF x \in S THEN x ELSE None
ClientFor(t) == IF t = None THEN None ELSE ClientOf[t]
UpstreamFor(k) == IF k = None THEN None ELSE UpstreamOf[k]
-----------------------------------------------------------------------------
(* A request up to its answer *)

Authenticate(r) ==
  /\ Goto(r, "idle", "admitted")
  /\ \E t \in tokens : who' = [who EXCEPT ![r] = t]
  /\ UNCHANGED <<now, parties, tables, left, attempts, answer, usage, record>>

\* No bearer token, or not a known one; and, once it is known, a model list, a body
\* that is too large or cannot be converted, an unknown model, or no candidate.
Refuse(r) ==
  /\ \E from \in {"idle", "admitted"} : Goto(r, from, "inserting")
  /\ UNCHANGED <<now, parties, tables, local>>

Select(r) ==
  /\ Goto(r, "admitted", "trying")
  /\ \E candidates \in SUBSET keys \ {{}} : left' = [left EXCEPT ![r] = candidates]
  /\ UNCHANGED <<now, parties, tables, who, attempts, answer, usage, record>>

Push(r, k) == k \in left[r] /\ attempts' = [attempts EXCEPT ![r] = Append(@, k)]

Conclude(r) == Goto(r, "trying", "inserting") /\ left' = [left EXCEPT ![r] = {}]

\* A retriable status or a transport error.  After the last candidate the request
\* is exhausted, and its row names no upstream and no key.
AttemptFails(r, k) ==
  /\ Push(r, k)
  /\ \/ left[r] = {k} /\ Conclude(r)
     \/ /\ left[r] # {k} /\ left' = [left EXCEPT ![r] = @ \ {k}]
        /\ Goto(r, "trying", "trying")
  /\ UNCHANGED <<now, parties, tables, who, answer, usage, record>>

\* Any other status.  An answer is read as a whole, for its usage or to convert it
\* (which may fail), or passed on; a stream is watched for its usage, or converted,
\* while it passes.
AttemptAnswers(r, k) ==
  /\ Push(r, k)
  /\ Conclude(r)
  /\ \E body \in Bodies, reported \in 0 .. 1 :
       /\ body # "whole" => reported = 0
       /\ answer' = [answer EXCEPT ![r] = [key |-> k, body |-> body]]
       /\ usage' = [usage EXCEPT ![r] = reported]
  /\ UNCHANGED <<now, parties, tables, who, record>>
-----------------------------------------------------------------------------
(* save_audit_best_effort *)

Streamed(r) == answer[r].body \in {"captured", "adapted"}
Answered(r) == IF Streamed(r) THEN "streaming" ELSE "done"

AuditRow(r) ==
  [id |-> next_id, request |-> r, completed_at |-> now,
   client_id |-> ClientFor(who[r]), client_token_id |-> who[r],
   upstream_id |-> UpstreamFor(answer[r].key), upstream_key_id |-> answer[r].key,
   attempts |-> Len(attempts[r]), usage |-> usage[r], stream_error |-> FALSE]

\* The foreign keys of a new row.
RefersToRows(row) ==
  /\ row.client_id \in clients \cup {None} /\ row.client_token_id \in tokens \cup {None}
  /\ row.upstream_id \in upstreams \cup {None} /\ row.upstream_key_id \in keys \cup {None}

\* The first statement: the row of the request.
InsertRequestAudit(r) ==
  /\ RefersToRows(AuditRow(r))
  /\ Goto(r, "inserting", IF attempts[r] = <<>> THEN Answered(r) ELSE "tracing")
  /\ request_audits' = request_audits \cup {AuditRow(r)}
  /\ next_id' = next_id + 1
  /\ audit_id' = [audit_id EXCEPT ![r] = next_id]
  /\ saved' = [saved EXCEPT ![r] = attempts[r] = <<>>]
  /\ UNCHANGED <<now, parties, upstream_attempt_audits, who, left, attempts, answer, usage, written>>

\* Mutant: the attempts are numbered from 0.
AttemptRowFromZero(r, i) ==
  [request_audit_id |-> audit_id[r], attempt_index |-> i - 1, upstream_key_id |-> attempts[r][i]]

AttemptRow(r, i) ==
  [request_audit_id |-> audit_id[r], attempt_index |-> i, upstream_key_id |-> attempts[r][i]]

\* One more statement for every attempt.  The last of them lets insert_request_audit
\* return the id, which the handler hands to the stream before it answers.
InsertAttemptAudit(r) ==
  LET i == written[r] + 1
      last == i = Len(attempts[r])
  IN  /\ Goto(r, "tracing", IF last THEN Answered(r) ELSE "tracing")
      /\ attempts[r][i] \in keys
      /\ \E row \in request_audits : row.id = audit_id[r]
      /\ upstream_attempt_audits' = upstream_attempt_audits \cup {AttemptRow(r, i)}
      /\ written' = [written EXCEPT ![r] = i]
      /\ saved' = [saved EXCEPT ![r] = last]
      /\ UNCHANGED <<now, parties, request_audits, next_id, who, left, attempts, answer, usage,
                     audit_id>>

\* A request that leaves without a row; nothing it held will change one.
LeaveWithoutRow(r) ==
  /\ pc' = [pc EXCEPT ![r] = "cut"]
  /\ who' = [who EXCEPT ![r] = None]
  /\ left' = [left EXCEPT ![r] = {}]
  /\ attempts' = [attempts EXCEPT ![r] = <<>>]
  /\ answer' = [answer EXCEPT ![r] = NoAnswer]
  /\ usage' = [usage EXCEPT ![r] = 0]
  /\ UNCHANGED <<now, parties, tables, record>>

\* A statement fails: the client, the token, the upstream, the key or the request's
\* row was deleted meanwhile, or the database is busy or full.  The request is
\* answered all the same.  Without its row a stream has no id and changes nothing;
\* after the row, what was inserted stays and the id is lost.
InsertRequestAuditFails(r) == pc[r] = "inserting" /\ LeaveWithoutRow(r)

\* Mutant: the id is returned although an attempt could not be written.
InsertAttemptAuditFailsQuietly(r) ==
  /\ Goto(r, "tracing", Answered(r))
  /\ saved' = [saved EXCEPT ![r] = TRUE]
  /\ UNCHANGED <<now, parties, tables, who, left, attempts, answer, usage, audit_id, written>>

InsertAttemptAuditFails(r) ==
  /\ Goto(r, "tracing", Answered(r))
  /\ UNCHANGED <<now, parties, tables, local>>
-----------------------------------------------------------------------------
(* A streamed answer *)

Handle(r) == IF saved[r] THEN audit_id[r] ELSE 0

\* observe_line: a usage in a chunk replaces the one before.
Report(r) ==
  /\ pc[r] = "streaming" /\ usage[r] < MaxReports
  /\ usage' = [usage EXCEPT ![r] = @ + 1]
  /\ UNCHANGED <<now, parties, tables, pc, who, left, attempts, answer, record>>

\* The upstream breaks off, or sends what the adapter cannot convert: the adapter
\* records that, and capture_stream_usage_body records nothing.
BreakOff(r) ==
  /\ Goto(r, "streaming", IF answer[r].body = "adapted" THEN "erring" ELSE "cut")
  /\ UNCHANGED <<now, parties, tables, local>>

\* The stream was passed on to its end.  The adapter then stores the conversation,
\* which may fail (ResponseStates); what it stores is not in these tables.
FinishStream(r) ==
  /\ \/ Goto(r, "streaming", "done")
     \/ answer[r].body = "adapted" /\ Goto(r, "streaming", "erring")
  /\ request_audits' = {IF row.id = Handle(r) /\ usage[r] # 0
                        THEN [row EXCEPT !.usage = usage[r]] ELSE row : row \in request_audits}
  /\ UNCHANGED <<now, parties, upstream_attempt_audits, next_id, local>>

RecordStreamError(r) ==
  /\ Goto(r, "erring", "done")
  /\ request_audits' = {IF row.id = Handle(r) THEN [row EXCEPT !.stream_error = TRUE] ELSE row :
                          row \in request_audits}
  /\ UNCHANGED <<now, parties, upstream_attempt_audits, next_id, local>>

\* The update of the row fails, which is logged and no more.  The adapter stores the
\* conversation all the same, and when that fails too, it still records the error.
UpdateFails(r) ==
  /\ \/ \E from \in {"streaming", "erring"} : Goto(r, from, "cut")
     \/ answer[r].body = "adapted" /\ Goto(r, "streaming", "erring")
  /\ UNCHANGED <<now, parties, tables, local>>
-----------------------------------------------------------------------------
(* Failures of a request *)

\* `?` on the authentication, the registry or the key's health: a 500 and no row.
FailQuery(r) == pc[r] \in {"idle", "admitted", "trying"} /\ LeaveWithoutRow(r)

\* The client hangs up or the process stops: the handler or the body is dropped at
\* an await.  A statement that is executed all the same is a step before this one.
Drop(r) ==
  \/ pc[r] \in {"admitted", "trying", "inserting"} /\ LeaveWithoutRow(r)
  \/ /\ \E from \in {"tracing", "streaming", "erring"} : Goto(r, from, "cut")
     /\ UNCHANGED <<now, parties, tables, local>>
-----------------------------------------------------------------------------
(* The administrator and the clock *)

\* Mutant: the key's id stays in the rows.
ForgetButKey(row) ==
  [row EXCEPT !.client_id = Surviving(@, clients'), !.client_token_id = Surviving(@, tokens'),
              !.upstream_id = Surviving(@, upstreams')]

\* ON DELETE SET NULL
Forget(row) ==
  [row EXCEPT !.client_id = Surviving(@, clients'), !.client_token_id = Surviving(@, tokens'),
              !.upstream_id = Surviving(@, upstreams'), !.upstream_key_id = Surviving(@, keys')]

Delete ==
  /\ deletions < MaxDeletions /\ deletions' = deletions + 1
  /\ request_audits' = {Forget(row) : row \in request_audits}
  /\ upstream_attempt_audits' = {a \in upstream_attempt_audits : a.upstream_key_id \in keys'}
  /\ UNCHANGED <<now, next_id, pc, local>>

\* Mutant: the history of a client goes with it.
DeleteClientAndHistory(c) ==
  /\ c \in clients /\ clients' = clients \ {c}
  /\ tokens' = {t \in tokens : ClientOf[t] # c}
  /\ deletions < MaxDeletions /\ deletions' = deletions + 1
  /\ request_audits' = {row \in request_audits : row.client_id # c}
  /\ upstream_attempt_audits' = {a \in upstream_attempt_audits :
       \E row \in request_audits' : row.id = a.request_audit_id}
  /\ UNCHANGED <<now, upstreams, keys, next_id, pc, local>>

DeleteClient(c) ==
  /\ c \in clients /\ clients' = clients \ {c}
  /\ tokens' = {t \in tokens : ClientOf[t] # c}
  /\ UNCHANGED <<upstreams, keys>>
  /\ Delete

DeleteClientToken(t) ==
  /\ t \in tokens /\ tokens' = tokens \ {t}
  /\ UNCHANGED <<clients, upstreams, keys>>
  /\ Delete

DeleteUpstream(u) ==
  /\ u \in upstreams /\ upstreams' = upstreams \ {u}
  /\ keys' = {k \in keys : UpstreamOf[k] # u}
  /\ UNCHANGED <<clients, tokens>>
  /\ Delete

DeleteUpstreamKey(k) ==
  /\ k \in keys /\ keys' = keys \ {k}
  /\ UNCHANGED <<clients, tokens, upstreams>>
  /\ Delete

Expired(row) == Retention > 0 /\ row.completed_at < now - Retention

\* Mutant: an id returns when its row is gone (no AUTOINCREMENT).
CleanupReusesIds ==
  /\ request_audits' = {row \in request_audits : ~Expired(row)}
  /\ upstream_attempt_audits' = {a \in upstream_attempt_audits :
       \E row \in request_audits' : row.id = a.request_audit_id}
  /\ next_id' = IF request_audits' = {} THEN 1 ELSE next_id
  /\ UNCHANGED <<now, parties, pc, local>>

\* cleanup_runtime_state of a server that starts, on the database that others may
\* be using: the attempts go with their request (ON DELETE CASCADE).
Cleanup ==
  /\ request_audits' = {row \in request_audits : ~Expired(row)}
  /\ upstream_attempt_audits' = {a \in upstream_attempt_audits :
       \E row \in request_audits' : row.id = a.request_audit_id}
  /\ UNCHANGED <<now, parties, next_id, pc, local>>

Tick ==
  /\ now < MaxTime /\ now' = now + Step
  /\ UNCHANGED <<parties, tables, pc, local>>
-----------------------------------------------------------------------------
Handler(r) ==
  \/ Authenticate(r) \/ Refuse(r) \/ Select(r)
  \/ \E k \in Key : AttemptFails(r, k) \/ AttemptAnswers(r, k)
  \/ InsertRequestAudit(r) \/ InsertAttemptAudit(r)
  \/ InsertRequestAuditFails(r) \/ InsertAttemptAuditFails(r)
  \/ FailQuery(r)

Stream(r) ==
  \/ Report(r) \/ BreakOff(r) \/ FinishStream(r) \/ RecordStreamError(r) \/ UpdateFails(r)

Admin ==
  \/ \E c \in Client : DeleteClient(c)
  \/ \E t \in Token : DeleteClientToken(t)
  \/ \E u \in Upstream : DeleteUpstream(u)
  \/ \E k \in Key : DeleteUpstreamKey(k)

Next == Admin \/ Cleanup \/ Tick \/ \E r \in Request : Handler(r) \/ Stream(r) \/ Drop(r)

Spec == Init /\ [][Next]_vars
-----------------------------------------------------------------------------
(* Properties *)

PC == {"idle", "admitted", "trying", "inserting", "tracing", "streaming", "erring",
       "done", "cut"}
RequestRows ==
  [id : Nat \ {0}, request : Request, completed_at : Nat,
   client_id : Client \cup {None}, client_token_id : Token \cup {None},
   upstream_id : Upstream \cup {None}, upstream_key_id : Key \cup {None},
   attempts : Nat, usage : Nat, stream_error : BOOLEAN]
AttemptRows ==
  [request_audit_id : Nat \ {0}, attempt_index : Nat \ {0}, upstream_key_id : Key]

TypeOK ==
  /\ now \in Nat /\ next_id \in Nat \ {0} /\ deletions \in 0 .. MaxDeletions
  /\ clients \subseteq Client /\ tokens \subseteq Token
  /\ upstreams \subseteq Upstream /\ keys \subseteq Key
  /\ request_audits \subseteq RequestRows /\ upstream_attempt_audits \subseteq AttemptRows
  /\ pc \in [Request -> PC] /\ who \in [Request -> Token \cup {None}]
  /\ left \in [Request -> SUBSET Key] /\ attempts \in [Request -> Seq(Key)]
  /\ answer \in [Request -> Answers]
  /\ audit_id \in [Request -> Nat] /\ written \in [Request -> Nat]
  /\ saved \in [Request -> BOOLEAN]
  /\ usage \in [Request -> 0 .. MaxReports]

\* However deletions, inserts and the cleanup are interleaved, a row names the
\* client, the token, the upstream and the key that its own request used, as far as
\* they are still there, and no one else: what the usage of a token and a key is
\* summed by.
NamesItsParties ==
  \A row \in request_audits : LET r == row.request IN
    /\ row.client_id = Surviving(ClientFor(who[r]), clients)
    /\ row.client_token_id = Surviving(who[r], tokens)
    /\ row.upstream_id = Surviving(UpstreamFor(answer[r].key), upstreams)
    /\ row.upstream_key_id = Surviving(answer[r].key, keys)

\* A request's row has under it the attempts that the request made and got to
\* write, each at its place, except those with a key that was deleted; if the
\* handler got the row's id, these are all of its attempts.
AttemptsAccountedFor ==
  /\ \A a \in upstream_attempt_audits :
       \E row \in request_audits : row.id = a.request_audit_id
  /\ \A row \in request_audits : LET r == row.request IN
       /\ row.id = audit_id[r] /\ row.attempts = Len(attempts[r])
       /\ saved[r] => written[r] = Len(attempts[r])
       /\ {a \in upstream_attempt_audits : a.request_audit_id = row.id} =
            {AttemptRow(r, i) : i \in {j \in 1 .. written[r] : attempts[r][j] \in keys}}

\* What a stream reports after its row was written reaches that row and no other:
\* a row has no usage but that of its own request, and when the stream was passed
\* on to its end and the row's id was known, the last usage in it.  Only a stream
\* that was being converted turns the row's outcome into a stream error.
StreamsReachTheirRows ==
  \A row \in request_audits : LET r == row.request IN
    /\ row.usage \in {0, usage[r]}
    /\ ~Streamed(r) => row.usage = usage[r]
    /\ row.stream_error => answer[r].body = "adapted"
    /\ pc[r] = "done" /\ saved[r] =>
         row.usage = usage[r] \/ row.stream_error

KeepsHistory ==
  /\ \A row \in request_audits :
       Expired(row) \/ \E new \in request_audits' : new.id = row.id
  /\ \A row \in request_audits, new \in request_audits' : new.id = row.id =>
       /\ new.request = row.request /\ new.completed_at = row.completed_at
       /\ new.attempts = row.attempts
       /\ new.client_id \in {row.client_id, None}
       /\ new.client_token_id \in {row.client_token_id, None}
       /\ new.upstream_id \in {row.upstream_id, None}
       /\ new.upstream_key_id \in {row.upstream_key_id, None}
       /\ row.usage # 0 => new.usage = row.usage
       /\ row.stream_error => new.stream_error

\* Only the cleanup of what is older than the retention makes a row disappear; a
\* row that stays is still about the same request, forgets parties but never
\* changes them, and its usage and its error are settled at most once.
HistoryIsKept == [][KeepsHistory]_vars
=============================================================================
