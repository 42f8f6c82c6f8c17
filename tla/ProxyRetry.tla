----------------------------- MODULE ProxyRetry -----------------------------
(***************************************************************************)
(* The retry loop of route-llm (src/http_proxy/mod.rs, proxy_inner) run by *)
(* many requests at once against the health columns of upstream_keys       *)
(* (src/db/admin_operations.rs), while an administrator works on the same  *)
(* rows and the clock moves.                                               *)
(*                                                                         *)
(* The handler is a tokio task: between two awaits nothing interleaves, so *)
(* one action is what happens from the end of one await to the end of the  *)
(* next.  Each SQL statement runs alone on SQLite, so an action executes   *)
(* at most one of them.  The candidate list is read once and kept by the   *)
(* request; the key rows go on changing under it.                          *)
(***************************************************************************)
EXTENDS Integers, Sequences, FiniteSets

CONSTANTS
  Key,              \* rows of upstream_keys
  Candidate,        \* (model row, key row) pairs, numbered in (id, id) order
  KeyOf,            \* Candidate -> Key
  Tier,             \* Candidate -> the route or upstream/model priority
  Request,          \* client requests
  Offers,           \* Request -> the candidates its model resolves to
  ResponsesRequest, \* the requests to POST /responses
  Status,           \* HTTP statuses the upstreams answer with
  KeyPriority,      \* priorities that keys are saved with
  RetryAfter,       \* Retry-After values in answers, 0 when there is none
  AuthTtl,          \* auth_failure_ttl_secs
  TransientTtl,     \* transient_failure_ttl_secs
  MaxTime,          \* bound: the clock stops here
  MaxAdminOps       \* bound: administrator actions in a behaviour

NoStatus == 0  \* UpstreamFailure.status = None: no answer came back

ASSUME CandidatesAssumption ==
  /\ Candidate \subseteq Nat /\ IsFiniteSet(Candidate)
  /\ KeyOf \in [Candidate -> Key]
  /\ Tier \in [Candidate -> Nat]
  /\ Offers \in [Request -> SUBSET Candidate]
  /\ ResponsesRequest \subseteq Request

ASSUME NumbersAssumption ==
  /\ Status \subseteq 100 .. 599
  /\ RetryAfter \subseteq Int /\ KeyPriority \subseteq Nat
  /\ AuthTtl \in Int /\ TransientTtl \in Int
  /\ MaxTime \in Nat /\ MaxAdminOps \in Nat

VARIABLES
  now,            \* unixepoch()
  keyRow,         \* Key -> "enabled", "disabled" or "deleted"
  priority,       \* Key -> upstream_keys.priority
  disabledUntil,  \* Key -> upstream_keys.disabled_until, 0 for NULL
  failures,       \* Key -> upstream_keys.consecutive_failures
  adminOps,       \* administrator actions so far
  pc,             \* Request -> the await the handler is suspended at
  cutoff,         \* Request -> the now_epoch() bound to the candidate query, 0 after it
  selected,       \* Request -> the rows the query returned (history)
  queue,          \* Request -> candidates not tried yet, the current one first
  answer,         \* Request -> the upstream answer being recorded
  attempts,       \* Request -> Vec<AttemptAudit>
  lastFailure,    \* Request -> Option<UpstreamFailure>: <<>> or <<status>>
  result          \* Request -> status and outcome of the audit and response

keyVars == <<keyRow, priority, disabledUntil, failures>>
adminVars == <<keyRow, priority, adminOps>>
loopVars == <<selected, queue, answer, attempts, lastFailure>>
vars == <<now, keyRow, priority, disabledUntil, failures, adminOps, pc, cutoff,
          selected, queue, answer, attempts, lastFailure, result>>
-----------------------------------------------------------------------------
(* Answers and what becomes of them *)

\* Mutant: every 5xx is a failure, not only the four that is_retriable_status lists.
IsRetriableAny5xx(s) == s \in {401, 403, 429} \cup 500 .. 599

IsRetriable(s) == s \in {401, 403, 429, 500, 502, 503, 504}
IsSuccess(s) == s \in 200 .. 299

\* The Retry-After of the answer if it has a positive one, else the configured
\* TTL for its status; never less than a second.
FailureTtl(s, retryAfter) ==
  LET ttl == IF retryAfter > 0 THEN retryAfter
             ELSE IF s \in {401, 403} THEN AuthTtl ELSE TransientTtl
  IN IF ttl > 1 THEN ttl ELSE 1

FailureOutcomes == {"retry", "transport_error"}
FinalOutcomes == {"success", "non_retriable_response", "response_conversion_error"}

Answers == [outcome : FailureOutcomes \cup FinalOutcomes \cup {"none"},
            status : Status \cup {NoStatus}, until : Nat]
NoAnswer == [outcome |-> "none", status |-> NoStatus, until |-> 0]

Attempts == [candidate : Candidate, outcome : FailureOutcomes \cup FinalOutcomes,
             status : Status \cup {NoStatus}, until : Nat]
Attempt(c, a) == [candidate |-> c, outcome |-> a.outcome,
                  status |-> a.status, until |-> a.until]

\* Early returns of proxy_inner before a candidate is looked for; the first two
\* before the body is in.
Refusal == {"unauthorized", "request_too_large", "invalid_request", "model_not_found"}
RefusalUnread == {"unauthorized", "request_too_large"}
RefusalStatus == [o \in Refusal |->
  CASE o = "unauthorized" -> 401 [] o = "request_too_large" -> 413
    [] o = "invalid_request" -> 400 [] o = "model_not_found" -> 404]

Outcome == Refusal \cup FinalOutcomes
             \cup {"pending", "no_upstream", "upstream_exhausted", "internal_error"}
Result(o, s) == [outcome |-> o, status |-> s]
Pending == Result("pending", NoStatus)

\* The status a client sees when every candidate failed: that of the last
\* failure, 502 when that one had none, 503 when there was no failure at all.
ExhaustedStatus(failure) ==
  IF failure = <<>> THEN 503
  ELSE IF failure[1] = NoStatus THEN 502 ELSE failure[1]
-----------------------------------------------------------------------------
(* Candidates *)

\* ORDER BY route (or upstream, model) priority, key priority, row ids.
Before(c, d) ==
  \/ Tier[c] < Tier[d]
  \/ /\ Tier[c] = Tier[d]
     /\ \/ priority[KeyOf[c]] < priority[KeyOf[d]]
        \/ priority[KeyOf[c]] = priority[KeyOf[d]] /\ c < d

Ordered(S) ==
  {q \in [1 .. Cardinality(S) -> S] :
     \A i, j \in 1 .. Cardinality(S) : i < j => Before(q[i], q[j])}

\* Mutant: the query forgets enabled = 1.
IsActiveThoughDisabled(k, time) == keyRow[k] # "deleted" /\ disabledUntil[k] <= time

\* enabled = 1 AND (disabled_until IS NULL OR disabled_until <= time)
IsActive(k, time) == keyRow[k] = "enabled" /\ disabledUntil[k] <= time

Active(r) == {c \in Offers[r] : IsActive(KeyOf[c], cutoff[r])}

Current(r) == Head(queue[r])
-----------------------------------------------------------------------------
Init ==
  /\ now = 1
  /\ keyRow = [k \in Key |-> "enabled"]
  /\ priority = [k \in Key |-> 100]
  /\ disabledUntil = [k \in Key |-> 0]
  /\ failures = [k \in Key |-> 0]
  /\ adminOps = 0
  /\ pc = [r \in Request |-> "idle"]
  /\ cutoff = [r \in Request |-> 0]
  /\ selected = [r \in Request |-> <<>>]
  /\ queue = [r \in Request |-> <<>>]
  /\ answer = [r \in Request |-> NoAnswer]
  /\ attempts = [r \in Request |-> <<>>]
  /\ lastFailure = [r \in Request |-> <<>>]
  /\ result = [r \in Request |-> Pending]
-----------------------------------------------------------------------------
(* A request before the loop *)

Goto(r, from, to) == pc[r] = from /\ pc' = [pc EXCEPT ![r] = to]
Conclude(r, o, s) == result' = [result EXCEPT ![r] = Result(o, s)]

\* The client's request reaches the fallback route.
Arrive(r) ==
  /\ Goto(r, "idle", "admitting")
  /\ UNCHANGED <<now, keyVars, adminOps, cutoff, loopVars, result>>

\* The token is known, and the client has sent its whole body, for which the handler
\* waits without a timeout.
ReadBody(r) ==
  /\ Goto(r, "admitting", "admitted")
  /\ UNCHANGED <<now, keyVars, adminOps, cutoff, loopVars, result>>

\* No or unknown token, body over the limit or cut off; bad Responses body, unknown model.
Refuse(r, o) ==
  /\ Goto(r, IF o \in RefusalUnread THEN "admitting" ELSE "admitted", "auditing")
  /\ Conclude(r, o, RefusalStatus[o])
  /\ UNCHANGED <<now, keyVars, adminOps, cutoff, loopVars>>

\* Every check passed; now_epoch() is read and the candidate query awaited.
StartSelection(r) ==
  /\ Goto(r, "admitted", "selecting")
  /\ cutoff' = [cutoff EXCEPT ![r] = now]
  /\ UNCHANGED <<now, keyVars, adminOps, loopVars, result>>

\* The query finds rows: the loop starts and the first one is sent.
Select(r) ==
  /\ Active(r) # {}
  /\ Goto(r, "selecting", "sending")
  /\ \E q \in Ordered(Active(r)) :
       /\ selected' = [selected EXCEPT ![r] = q]
       /\ queue' = [queue EXCEPT ![r] = q]
  /\ cutoff' = [cutoff EXCEPT ![r] = 0]
  /\ UNCHANGED <<now, keyVars, adminOps, answer, attempts, lastFailure, result>>

\* Mutant: with no candidate the handler waits for one.
SelectNothingWaits(r) ==
  /\ Active(r) = {} /\ pc[r] = "selecting"
  /\ UNCHANGED vars

SelectNothing(r) ==
  /\ Active(r) = {}
  /\ Goto(r, "selecting", "auditing")
  /\ Conclude(r, "no_upstream", 503)
  /\ cutoff' = [cutoff EXCEPT ![r] = 0]
  /\ UNCHANGED <<now, keyVars, adminOps, loopVars>>
-----------------------------------------------------------------------------
(* send_once: what comes back for the current candidate *)

AwaitRecord(r, to, a) ==
  /\ Goto(r, "sending", to)
  /\ answer' = [answer EXCEPT ![r] = a]
  /\ UNCHANGED <<now, keyVars, adminOps, cutoff, selected, queue, attempts,
                 lastFailure, result>>

\* Mutant: the TTL is taken off the clock.
ReceiveRetriableInThePast(r) ==
  \E s \in Status, retryAfter \in RetryAfter :
    /\ IsRetriable(s)
    /\ AwaitRecord(r, "failing", [outcome |-> "retry", status |-> s,
                                  until |-> now - FailureTtl(s, retryAfter)])

\* A retriable status; mark_failure reads the clock before its UPDATE waits.
ReceiveRetriable(r) ==
  \E s \in Status, retryAfter \in RetryAfter :
    /\ IsRetriable(s)
    /\ AwaitRecord(r, "failing", [outcome |-> "retry", status |-> s,
                                  until |-> now + FailureTtl(s, retryAfter)])

\* builder.send() failed: connection refused, reset, or the client's timeout.
ReceiveNothing(r) ==
  AwaitRecord(r, "failing", [outcome |-> "transport_error", status |-> NoStatus,
                             until |-> now + FailureTtl(NoStatus, 0)])

ReceiveSuccess(r) ==
  \E s \in Status :
    /\ IsSuccess(s)
    /\ AwaitRecord(r, "succeeding", [outcome |-> "success", status |-> s, until |-> 0])

\* Mutant: the iterator is not advanced.
PushAttemptStays(r, a) ==
  /\ attempts' = [attempts EXCEPT ![r] = Append(@, Attempt(Current(r), a))]
  /\ answer' = [answer EXCEPT ![r] = NoAnswer]
  /\ UNCHANGED <<selected, queue>>

\* Push the attempt's audit and take the next candidate from the iterator.
PushAttempt(r, a) ==
  /\ attempts' = [attempts EXCEPT ![r] = Append(@, Attempt(Current(r), a))]
  /\ queue' = [queue EXCEPT ![r] = Tail(@)]
  /\ answer' = [answer EXCEPT ![r] = NoAnswer]
  /\ UNCHANGED selected

\* Any other status goes back to the client (audited as client_error,
\* upstream_error or non_success by its class); the key's health is not touched.
ReceiveNonRetriable(r) ==
  \E s \in Status :
    /\ ~IsRetriable(s) /\ ~IsSuccess(s)
    /\ Goto(r, "sending", "auditing")
    /\ PushAttempt(r, [outcome |-> "non_retriable_response", status |-> s, until |-> 0])
    /\ Conclude(r, "non_retriable_response", s)
    /\ UNCHANGED <<now, keyVars, adminOps, cutoff, lastFailure>>

\* A 2xx the Responses adapter cannot convert (or store): 502, key untouched.
ReceiveUnconvertible(r) ==
  \E s \in Status :
    /\ r \in ResponsesRequest
    /\ IsSuccess(s)
    /\ Goto(r, "sending", "auditing")
    /\ PushAttempt(r, [outcome |-> "response_conversion_error", status |-> s, until |-> 0])
    /\ Conclude(r, "response_conversion_error", 502)
    /\ UNCHANGED <<now, keyVars, adminOps, cutoff, lastFailure>>
-----------------------------------------------------------------------------
(* Recording the answer on the key's row.  An UPDATE of a deleted row *)
(* changes nothing and is no error.                                   *)

\* Mutant: every failure in a row adds to the wait.
MarkFailureBackingOff(k, until) ==
  IF keyRow[k] = "deleted" THEN UNCHANGED <<disabledUntil, failures>>
  ELSE /\ disabledUntil' = [disabledUntil EXCEPT ![k] = until + failures[k]]
       /\ failures' = [failures EXCEPT ![k] = @ + 1]

MarkFailure(k, until) ==
  IF keyRow[k] = "deleted" THEN UNCHANGED <<disabledUntil, failures>>
  ELSE /\ disabledUntil' = [disabledUntil EXCEPT ![k] = until]
       /\ failures' = [failures EXCEPT ![k] = @ + 1]

\* Mutant: the failure count survives.
ClearHealthKeepsCount(K) ==
  /\ disabledUntil' = [k \in Key |-> IF k \in K THEN 0 ELSE disabledUntil[k]]
  /\ UNCHANGED failures

ClearHealth(K) ==
  /\ disabledUntil' = [k \in Key |-> IF k \in K THEN 0 ELSE disabledUntil[k]]
  /\ failures' = [k \in Key |-> IF k \in K THEN 0 ELSE failures[k]]

MarkSuccess(k) == ClearHealth({k})

\* Mutant: the first failure is the one that is kept.
RecordFailureKeepsFirst(r) ==
  /\ pc[r] = "failing"
  /\ MarkFailure(KeyOf[Current(r)], answer[r].until)
  /\ PushAttempt(r, answer[r])
  /\ lastFailure' = [lastFailure EXCEPT ![r] = IF @ = <<>> THEN <<answer[r].status>> ELSE @]
  /\ \/ /\ Len(queue[r]) > 1
        /\ pc' = [pc EXCEPT ![r] = "sending"]
        /\ UNCHANGED result
     \/ /\ Len(queue[r]) = 1
        /\ pc' = [pc EXCEPT ![r] = "auditing"]
        /\ Conclude(r, "upstream_exhausted", ExhaustedStatus(lastFailure'[r]))
  /\ UNCHANGED <<now, adminVars, cutoff>>

\* Mutant: the first failure ends the request.
RecordFailureGivesUp(r) ==
  /\ Goto(r, "failing", "auditing")
  /\ MarkFailure(KeyOf[Current(r)], answer[r].until)
  /\ PushAttempt(r, answer[r])
  /\ lastFailure' = [lastFailure EXCEPT ![r] = <<answer[r].status>>]
  /\ Conclude(r, "upstream_exhausted", ExhaustedStatus(lastFailure'[r]))
  /\ UNCHANGED <<now, adminVars, cutoff>>

RecordFailure(r) ==
  /\ pc[r] = "failing"
  /\ MarkFailure(KeyOf[Current(r)], answer[r].until)
  /\ PushAttempt(r, answer[r])
  /\ lastFailure' = [lastFailure EXCEPT ![r] = <<answer[r].status>>]
  /\ \/ /\ Len(queue[r]) > 1
        /\ pc' = [pc EXCEPT ![r] = "sending"]
        /\ UNCHANGED result
     \/ /\ Len(queue[r]) = 1
        /\ pc' = [pc EXCEPT ![r] = "auditing"]
        /\ Conclude(r, "upstream_exhausted", ExhaustedStatus(lastFailure'[r]))
  /\ UNCHANGED <<now, adminVars, cutoff>>

RecordSuccess(r) ==
  /\ Goto(r, "succeeding", "auditing")
  /\ MarkSuccess(KeyOf[Current(r)])
  /\ PushAttempt(r, answer[r])
  /\ Conclude(r, "success", answer[r].status)
  /\ UNCHANGED <<now, adminVars, cutoff, lastFailure>>

\* save_audit_best_effort: the response is returned whether the rows are written
\* or not; the audit tables themselves are not part of this module.
SaveAudit(r) ==
  /\ Goto(r, "auditing", "answered")
  /\ UNCHANGED <<now, keyVars, adminOps, cutoff, loopVars, result>>

\* A query of the handler fails and `?` leaves it: a 500 and no audit, even when
\* the upstream has already answered.
FailQuery(r) ==
  /\ pc[r] \in {"admitting", "admitted", "selecting", "failing", "succeeding"}
  /\ pc' = [pc EXCEPT ![r] = "answered"]
  /\ Conclude(r, "internal_error", 500)
  /\ cutoff' = [cutoff EXCEPT ![r] = 0]
  /\ UNCHANGED <<now, keyVars, adminOps, loopVars>>

\* The client hangs up (or the process stops) and the handler's future is
\* dropped.  A statement already handed to SQLite is executed all the same.
Drop(r) ==
  /\ pc[r] \in {"admitting", "admitted", "selecting", "sending", "failing", "succeeding",
                "auditing"}
  /\ pc' = [pc EXCEPT ![r] = "dropped"]
  /\ \/ UNCHANGED <<disabledUntil, failures>>
     \/ pc[r] = "failing" /\ MarkFailure(KeyOf[Current(r)], answer[r].until)
     \/ pc[r] = "succeeding" /\ MarkSuccess(KeyOf[Current(r)])
  /\ cutoff' = [cutoff EXCEPT ![r] = 0]
  /\ UNCHANGED <<now, adminVars, loopVars, result>>
-----------------------------------------------------------------------------
(* The administrator (the /admin pages, and `api-router` on the same file) *)

AdminOp == adminOps < MaxAdminOps /\ adminOps' = adminOps + 1
requestVars == <<pc, cutoff, loopVars, result>>

SetKeyEnabled(k, row) ==
  /\ AdminOp
  /\ keyRow[k] # "deleted"
  /\ keyRow' = [keyRow EXCEPT ![k] = row]
  /\ UNCHANGED <<now, priority, disabledUntil, failures, requestVars>>

\* `add-key`, or the add-key form, under the name of a row that exists: the row
\* is saved over and its health is kept, though the API key may be another one.
SaveKey(k, row, p) ==
  /\ AdminOp
  /\ keyRow[k] # "deleted"
  /\ keyRow' = [keyRow EXCEPT ![k] = row]
  /\ priority' = [priority EXCEPT ![k] = p]
  /\ UNCHANGED <<now, disabledUntil, failures, requestVars>>

ResetKeyHealth(k) ==
  /\ AdminOp
  /\ keyRow[k] # "deleted"
  /\ ClearHealth({k})
  /\ UNCHANGED <<now, keyRow, priority, requestVars>>

ResetAllKeyHealth ==
  /\ AdminOp
  /\ ClearHealth(Key)
  /\ UNCHANGED <<now, keyRow, priority, requestVars>>

DeleteUpstreamKey(k) ==
  /\ AdminOp
  /\ keyRow[k] # "deleted"
  /\ keyRow' = [keyRow EXCEPT ![k] = "deleted"]
  /\ ClearHealth({k})
  /\ UNCHANGED <<now, priority, requestVars>>

\* One transaction over the ids of the page: the i-th gets priority i * 10; an
\* id that is gone rolls all of it back.
ReorderKeys(ids) ==
  /\ AdminOp
  /\ \A i \in DOMAIN ids : keyRow[ids[i]] # "deleted"
  /\ priority' = [k \in Key |-> IF \E i \in DOMAIN ids : ids[i] = k
                                THEN 10 * (CHOOSE i \in DOMAIN ids : ids[i] = k)
                                ELSE priority[k]]
  /\ UNCHANGED <<now, keyRow, disabledUntil, failures, requestVars>>

Tick ==
  /\ now < MaxTime
  /\ now' = now + 1
  /\ UNCHANGED <<keyVars, adminOps, requestVars>>
-----------------------------------------------------------------------------
Receive(r) ==
  \/ ReceiveRetriable(r) \/ ReceiveNothing(r) \/ ReceiveSuccess(r)
  \/ ReceiveNonRetriable(r) \/ ReceiveUnconvertible(r)

\* The handler's own steps, once a request is in.
Proceed(r) ==
  \/ ReadBody(r)
  \/ \E o \in Refusal : Refuse(r, o)
  \/ StartSelection(r) \/ Select(r) \/ SelectNothing(r)
  \/ Receive(r)
  \/ RecordFailure(r) \/ RecordSuccess(r)
  \/ SaveAudit(r)

\* The ids of a page: the keys it was rendered with, in the order dragged to.
KeyOrders == {ids \in UNION {[1 .. n -> Key] : n \in 1 .. Cardinality(Key)} :
                \A i, j \in DOMAIN ids : ids[i] = ids[j] => i = j}

Admin ==
  \/ \E k \in Key, row \in {"enabled", "disabled"} :
       SetKeyEnabled(k, row) \/ \E p \in KeyPriority : SaveKey(k, row, p)
  \/ \E k \in Key : ResetKeyHealth(k) \/ DeleteUpstreamKey(k)
  \/ ResetAllKeyHealth
  \/ \E ids \in KeyOrders : ReorderKeys(ids)

Next ==
  \/ \E r \in Request : Arrive(r) \/ Proceed(r) \/ FailQuery(r) \/ Drop(r)
  \/ Admin
  \/ Tick

Spec == Init /\ [][Next]_vars

\* The runtime goes on polling a handler, reqwest's timeout ends every wait for
\* an upstream and SQLite's busy timeout every wait for the database.  No timeout
\* ends the wait for a client's body, so that fairness begins after it.  Nothing
\* is assumed of clients, of the administrator or of which answer comes, and no
\* query is assumed to fail.
FairSpec == Spec /\ \A r \in Request : WF_vars(pc[r] # "admitting" /\ Proceed(r))
-----------------------------------------------------------------------------
(* Properties *)

PC == {"idle", "admitting", "admitted", "selecting", "sending", "failing", "succeeding",
       "auditing", "answered", "dropped"}

KeysTypeOK ==
  /\ now \in Nat /\ adminOps \in Nat
  /\ keyRow \in [Key -> {"enabled", "disabled", "deleted"}]
  /\ priority \in [Key -> Nat]
  /\ disabledUntil \in [Key -> Nat]
  /\ failures \in [Key -> Nat]

RequestsTypeOK ==
  /\ pc \in [Request -> PC]
  /\ cutoff \in [Request -> Nat]
  /\ selected \in [Request -> Seq(Candidate)]
  /\ queue \in [Request -> Seq(Candidate)]
  /\ answer \in [Request -> Answers]
  /\ attempts \in [Request -> Seq(Attempts)]
  /\ lastFailure \in [Request -> Seq(Status \cup {NoStatus})]
  /\ result \in [Request -> [outcome : Outcome, status : Nat]]

\* Every variable keeps its type (the columns of upstream_keys and the locals of
\* proxy_inner).
TypeOK == KeysTypeOK /\ RequestsTypeOK

\* The audit trail is the selection, tried in order: attempt i is the i-th row of
\* the candidate query, what is left of the iterator is the rest of it, and
\* nothing an administrator or another request does in between changes that.
TrailFollowsSelection ==
  \A r \in Request :
    /\ Len(attempts[r]) + Len(queue[r]) = Len(selected[r])
    /\ \A i \in 1 .. Len(attempts[r]) : attempts[r][i].candidate = selected[r][i]
    /\ \A i \in 1 .. Len(queue[r]) : queue[r][i] = selected[r][Len(attempts[r]) + i]

Failed(a) == a.outcome \in FailureOutcomes
LastAttempt(r) == attempts[r][Len(attempts[r])]

\* Only the last attempt of a request can be anything but a failure: the loop
\* never goes on after an answer it returns.
RetriesOnlyAfterFailure ==
  \A r \in Request : \A i \in 1 .. Len(attempts[r]) :
    i < Len(attempts[r]) \/ result[r].outcome \notin FinalOutcomes => Failed(attempts[r][i])

\* A request that ends with an upstream's answer ends with that of its last
\* attempt, and reports its status (502 when the conversion failed).
AnswerIsLastAttempts ==
  \A r \in Request :
    result[r].outcome \in FinalOutcomes =>
      /\ attempts[r] # <<>>
      /\ LastAttempt(r).outcome = result[r].outcome
      /\ result[r].status = IF result[r].outcome = "response_conversion_error"
                            THEN 502 ELSE LastAttempt(r).status

\* Giving up is honest: upstream_exhausted means every selected candidate was
\* tried and failed, and the client gets the last one's status; the fallback
\* with no failure at all (mod.rs:402-411) is never taken.
ExhaustionIsHonest ==
  \A r \in Request :
    result[r].outcome = "upstream_exhausted" =>
      /\ queue[r] = <<>> /\ attempts[r] # <<>>
      /\ result[r].status = IF LastAttempt(r).status = NoStatus THEN 502
                            ELSE LastAttempt(r).status

\* A refused request, and one with nothing to send to, never reached an upstream.
RefusedBeforeUpstream ==
  \A r \in Request :
    result[r].outcome \in Refusal \cup {"no_upstream"} =>
      selected[r] = <<>> /\ attempts[r] = <<>>

\* What the client is told is what the upstreams did, for every outcome.
OutcomeMatchesTrail ==
  /\ RetriesOnlyAfterFailure
  /\ AnswerIsLastAttempts
  /\ ExhaustionIsHonest
  /\ RefusedBeforeUpstream

\* A disabled key is disabled by an upstream's answer: disabled_until is always
\* the time some request computed when an attempt on that very key failed (it
\* shows in that request's trail, unless its client had hung up), whatever
\* resets, late successes and other requests did to the row in between.
DisableIsExplained ==
  \A k \in Key : disabledUntil[k] # 0 =>
    \E r \in Request :
      \/ \E i \in 1 .. Len(attempts[r]) :
           /\ Failed(attempts[r][i])
           /\ KeyOf[attempts[r][i].candidate] = k
           /\ attempts[r][i].until = disabledUntil[k]
      \/ /\ pc[r] = "dropped" /\ Failed(answer[r]) /\ queue[r] # <<>>
         /\ KeyOf[Current(r)] = k
         /\ answer[r].until = disabledUntil[k]

\* The two health columns agree: a key has consecutive failures exactly when it
\* has a disabled_until, so the admin pages never show a failing key as healthy.
HealthColumnsAgree ==
  \A k \in Key : failures[k] = 0 <=> disabledUntil[k] = 0

\* The failure cache and the enabled flag hold for new work: while a key is
\* parked (deleted, disabled, or before its disabled_until) no request takes it
\* into its candidate list.  Requests that listed it earlier still use it.
Parked(k) == keyRow[k] # "enabled" \/ disabledUntil[k] > now
Lists(r, k) == \E i \in 1 .. Len(queue[r]) : KeyOf[queue[r][i]] = k
FailureCacheRespected ==
  [][\A r \in Request, k \in Key : Parked(k) /\ Lists(r, k)' => Lists(r, k)]_vars

\* The statuses that count against a key; NoStatus when no answer came back.  A 501,
\* which is a 5xx too, is not one of them.
FailureStatus == {NoStatus, 401, 403, 429, 500, 502, 503, 504}

\* Health changes on evidence only: a key's columns move when a request records what
\* came back for that very key, as a failure when it was no answer or one of the
\* statuses above and as a success when it was a 2xx, or when the administrator
\* acts.  Every other answer leaves them alone: a client error, an answer that
\* cannot be converted, and a 501, though src/README.md:27 speaks of 5xx.
HealthChangesOnEvidence ==
  [][\A k \in Key :
       disabledUntil'[k] # disabledUntil[k] \/ failures'[k] # failures[k] =>
         \/ adminOps' # adminOps
         \/ \E r \in Request :
              /\ pc'[r] # pc[r] /\ KeyOf[Current(r)] = k
              /\ IF failures'[k] > failures[k]
                 THEN pc[r] = "failing" /\ answer[r].status \in FailureStatus
                 ELSE pc[r] = "succeeding" /\ answer[r].status \in 200 .. 299]_vars

\* Every request whose body has come in is settled: answered, or dropped because
\* its client left.
EveryRequestSettles ==
  \A r \in Request :
    pc[r] = "admitted" ~> pc[r] \in {"answered", "dropped"}
=============================================================================
