# route-llm in TLA+

A verification project for [route-llm](../src/README.md), a small Rust router
that accepts OpenAI-style requests, picks an upstream API key for each of them,
retries on the next key when one fails, and keeps everything (upstreams, keys,
models, clients, tokens, audits, response states) in one SQLite file that an
admin UI, a command line and the request handlers change at the same time.

The modules model the router's own decisions, its shared state, and what a
conversation becomes between the two APIs; the rest of the HTTP bodies and the HTML
are left out. Line numbers below are those of `src/`, and
`PROJECT.json` names the lines of every definition.

## 1. The system

### Components

| Component | Code | State it keeps | Operations |
|---|---|---|---|
| HTTP proxy | `http_proxy/mod.rs`, `support.rs`, `errors.rs` | per request: candidates, attempts, last failure | authenticate, parse, select, send, retry, answer |
| Key health | `db/admin_operations.rs` | `upstream_keys.enabled, priority, disabled_until, consecutive_failures` | mark failure or success, enable, reset, delete, reorder |
| Registry and selection | `db/admin_mutations.rs`, `db/routing.rs` | aliases, models, capabilities, client and alias routes | save, delete, prune; candidates for a client, capability and model |
| Clients and tokens | `db/admin_mutations.rs`, `admin_operations.rs`, `schema.rs` | `clients`, `client_tokens` | save client, issue token, delete either, backfill |
| Authentication | `db/routing.rs` | none | a bearer token to its enabled client |
| Responses conversion | `responses_compat/mod.rs`, `input.rs`, `tools.rs`, `json_response.rs` | none | `/responses` bodies to chat bodies and back |
| Streaming adapter | `responses_compat/stream.rs` | one adapter per stream: line buffer, text, tool calls, usage | chat chunks to Responses events |
| Response states | `db/response_state.rs` | `response_states` | store after an answer, look up by `previous_response_id` |
| Audit log | `http_proxy/audit.rs`, `stream.rs`, `db/audit.rs` | `request_audits`, `upstream_attempt_audits` | insert, update a stream's usage |
| Retention | `db/runtime_cleanup.rs` | the two tables above | delete by age at startup |
| Schema | `db/schema.rs` | the tables | create, add columns, fill in, index, on every open |
| Discovered models | `admin_ui/actions.rs` | one list per upstream | fetch over HTTP, replace in a transaction |
| Admin UI | `admin_ui/` | a session cookie | one action per button, each one or a few statements |
| Server and command line | `server.rs`, `main.rs`, `cli.rs` | none | every command opens the same file and runs one statement |

### How they interact

There are no locks and no in-memory caches: everything shared is a row of
SQLite. A handler is a tokio task that awaits the database (a pool of ten
connections with a busy timeout of five seconds, `schema.rs:7-22`) and the
upstream (reqwest with a request timeout, `server.rs:40-42`). Statements are
serialised by SQLite and only a few operations are transactions (the deletes of
clients, upstreams and models, and the reorders); everything else is a sequence
of statements that other tasks, the admin pages and other processes
(`api-router add-key`, ...) interleave with. axum drops a handler's future when
its client disconnects, so each handler may also stop at any await.

### What is hard, and what makes each part correct

* **Retry loop.** The candidate list is read once and used over many awaits while
  keys fail, are disabled, reordered and deleted. Correct: candidates are tried
  in the selected order, each at most once; a retry follows only a failure; the
  answer is the last attempt's; exhaustion is reported only when all failed; a
  request is always settled once its body is in.
* **Key health.** Concurrent requests overwrite each other on a row, with times
  computed before the UPDATE waited. Correct: a key is parked only because a
  request to it failed; the two columns agree; a parked key is in no new list.
* **Clients and tokens.** One save is two statements, a number is counted before
  it is used, and every open re-inserts tokens. Correct: no token without its
  client, no key changes hands, nothing that was revoked comes back, and the
  database can be opened.
* **Registry.** A request reads it in four statements, and deleting prunes
  aliases that another action may be about to use. Correct: an explicit client
  route hides the others; a pruned alias had no route; no route without a model.
* **Response states and streams.** The end of a stream is delivered before its
  state is stored; usage and audits are written when the body has been consumed
  or dropped. Correct: the events of a stream are well-formed in every order of
  chunks; a stored state belongs to the client that may continue it.
* **Responses conversion.** A conversation that is continued by its id and one that
  is sent again take different conversions, and tools of several kinds share one
  space of chat names. Correct: both ways say the same to the upstream; a call
  comes back as the tool that the client declared; a result follows its call.
* **Audit.** A request's row and its attempts are written one by one, best effort,
  and a stream updates the row long after by an id that it kept. Correct: a row
  names its own request's parties, or nothing; the attempts under it are that
  request's; a late update reaches no other request's row, whatever was deleted.
* **Migration.** Forty statements without a transaction, which several processes run
  at once and which any of them may leave half done. Correct: each statement finds
  what it names; whoever gets to the end has the whole schema and every fill-in.

`PROJECT.json` lists each hazard at its line with the properties that cover it.

## 2. The modules

| Module | What it is |
|---|---|
| `ProxyRetry` | the retry loop, key health, the administrator's key actions and the clock |
| `Failover` | what one request is promised, as an abstract specification |
| `ProxyRetryRefinement` | the mapping from `ProxyRetry` to `Failover` |
| `ProxyRetryProofs` | the loop's inductive invariant and its theorems; those about the health columns and the failure cache; the refinement's safety part |
| `ClientTokens` | clients, tokens, their two-statement saves and the backfill |
| `ClientTokensProofs` | its invariants and action property, proved |
| `ResponsesStream` | one streamed `/responses` answer: chunks in, events out, records after |
| `ResponsesStreamProofs` | its invariants, proved |
| `ResponseStates` | the conversations that requests read, extend, and lose to deletions |
| `ResponseStatesProofs` | its invariants, proved |
| `Registry` | models, aliases and routes, the actions that change them, a request's lookups |
| `Resolution` | what a request's model stands for, as an abstract specification in one step |
| `RegistryRefinement` | the mapping from `Registry` to `Resolution` |
| `RegistryProofs` | its invariants and action property, and the refinement, proved |
| `AuditLog` | the audit rows of requests and attempts, their late updates, deletions and the cleanup |
| `AuditLogProofs` | its invariants and action property, proved |
| `SchemaMigration` | `migrate`, statement by statement, by several processes |
| `SchemaMigrationProofs` | its invariants and action property, proved |
| `Conversation` | a `/responses` conversation as chat messages and back, continued or sent again |
| `ConversationProofs` | its invariants, proved |
| `MC...` | instances for TLC |
| `ClientTokensClaims`, `RegistryClaims` | sentences of the docs and tests that the code does not keep |

### ProxyRetry

`pc[r]` is the await at which request `r` is suspended, so that one action is
what happens between two awaits and executes at most one statement:

| `pc` | The handler awaits | Left by |
|---|---|---|
| `idle` | nothing: not arrived | `Arrive` |
| `admitting` | the token check, then the client's body (`mod.rs:91-136`) | `ReadBody`, `Refuse` |
| `admitted` | the checks of the body and its model (`mod.rs:137-167`) | `Refuse`, `StartSelection` |
| `selecting` | the candidate query, bound to an earlier `now_epoch()` | `Select`, `SelectNothing` |
| `sending` | the upstream (`send_once`) | one `Receive...` action per kind of answer |
| `failing` | the UPDATE of `mark_key_failure` | `RecordFailure` |
| `succeeding` | the UPDATE of `mark_key_success` | `RecordSuccess` |
| `auditing` | `save_audit_best_effort` | `SaveAudit` |
| `answered`, `dropped` | nothing: over | |

`FailQuery` is a `?` on a query, a 500 that leaves without an audit. `Drop` is a
future dropped at an await: the statement it was waiting for may still be
executed. The checks before the body is in are one step, and so are those after
it, because nothing in this module tells their order apart; the body is a step of
its own because the handler waits for the client there, without a timeout. The registry they read is a constant (`Offers`: the
candidates a request's model resolves to). `ReceiveNonRetriable` stands for the
three audit outcomes of a status class. `keyRow`, `priority`, `disabledUntil`
and `failures` are columns, with 0 for NULL; `answer[r].until` is the value that
`mark_failure` computed and bound before it waited for the database.

`selected`, and the `until` kept in `attempts`, are history: the code keeps
neither, and no guard reads them.

### Failover

Six steps over a stage, the offered set and the set of missed candidates. The
mapping reads the stage from `result` and `pc`. It ignores the order, health,
time and administration, which is the point: none of them can make a request
try a candidate twice, go on after an answer, or give up early.

### ClientTokens

`session[p]` is the statement that an admin request or a command is about to
execute: the second of `upsert_client`, or the INSERT of an issued token.
`SaveClient`, `IssueNumbered` and `IssueNamed` run up to it, `WriteToken` and
`RejectToken` execute it, and `Stop` is a process or request that ends before
it. `Open` is `db::connect`, run by every start and every command, with the
backfill of `schema.rs:58-68`; it is disabled when its INSERT violates
`UNIQUE(client_id, name)`, which its ON CONFLICT clause does not name, and which
makes the process exit (`OpenFails`). A hash stands for its key. `revoked` and
`torn` are history.

### ResponsesStream

`pc` is where the generator of `convert_streaming_response` is: `reading` (the
upstream), `pushing` (the lines of a chunk, `push_bytes`), `yielding` (the client),
`leftover` (`finish` and the line without a newline), `completing` (the last
frames), `counting` and `storing` (the UPDATE of the usage, the INSERT of the
state), and one value per error that goes to the audit row. The adapter's fields
keep their names. A frame is a record of the event, its item, `output_index`, the
kind of item and the deltas in it; a delta's payload is its number, so that what
is lost, doubled or out of order shows.

* `push_bytes` returns the frames of a whole chunk, so `batch` collects them and
  nothing is sent before `EndChunk`. A bad line discards the batch, although the
  adapter has counted its deltas (`ObserveGarbage`).
* A line with several deltas is as many lines with one each. The line left at
  the end may hold any deltas.
* `Resized` fills skipped slots with the `output_index` of the call that skipped
  them, and they are finished without having been announced, as in the code.
* The final list of a response without text and tools is one empty message that
  no event announced.
* A hang-up (`Disconnect`) drops the body where it waits, also between the
  statements after `response.completed`.

### ResponseStates

A request stands for the id of its response and a history is the sequence of
its turns. `prepare_request` looks up the row among the client's own (`Prepare`,
`Refuse`) and copies the history into the request, so what is deleted later does
not reach it. A JSON answer is stored and then sent, a streamed one sent and then
stored. `Referenced` is what the foreign keys ask of an INSERT, `Remove` what
`ON DELETE` does. The cleanup runs while requests are served, because a second
server may start on the same file. Deleting a client also deletes its states.

### Registry

`session[p]` is an administrator's action between its statements: `add_model`
has ensured the alias and not yet linked the model, `add_client_route` has
checked the capability and not yet saved the route, one of the four deletions
has not yet pruned. `request[r]` is a request between its lookups:
`is_registered_request_model` (two), the alias again, the count of the client's
routes, that of the default routes, and one of four candidate queries. An
operation in a transaction is one action. Models deleted and saved again get new
ids, so `RemoveModels` fails the saves that wait for the old one. `Open` is
`seed_default_model_aliases`. `seen[r]` is history.

`Registry` has all keys healthy and no order; `ProxyRetry` has both and takes the
candidates as given.

### Resolution

Up to five statements decide what a request is offered, and the README of the program
(`README.md:216-222`) says it in a sentence. `Resolution` is that sentence: a client asks
for a name and gets what the name stands for (`Stands` in `RegistryRefinement`). The
lookups implement it in quiet times (`QuietSpec`: administrators and commands change the
tables only while no request is at its lookups), whatever is in the tables and however
many requests run at once. At other times they need not: when a client's last route is
deleted between the count and the query, its request is offered nothing, though it would
have been served before and after. What holds then are the properties of `Registry`.

### AuditLog

`request_audits` and `upstream_attempt_audits` are sets of rows, `next_id` is the
AUTOINCREMENT of the first. `pc[r]` is where a request is:

| `pc` | Where | Left by |
|---|---|---|
| `idle`, `admitted`, `trying` | `proxy_inner` up to its answer; only who it is, what it tried and what it will say are kept | `Authenticate`, `Refuse`, `Select`, `AttemptFails`, `AttemptAnswers`, `FailQuery` |
| `inserting` | the INSERT into `request_audits` (`db/audit.rs:4-87`) | `InsertRequestAudit`, `InsertRequestAuditFails` |
| `tracing` | the INSERTs of its attempts, one statement each (`88-137`) | `InsertAttemptAudit`, `InsertAttemptAuditFails` |
| `streaming` | a body that is passed on and watched, or converted | `Report`, `BreakOff`, `FinishStream`, `UpdateFails` |
| `erring` | the UPDATE of a stream's error | `RecordStreamError`, `UpdateFails` |
| `done`, `cut` | nothing: over | |

`saved[r]` is that `save_audit_best_effort` returned the id, so that `Handle(r)` is
the id in the `StreamUsageAuditHandle`, or 0 when there is none and the updates
change no row. `RefersToRows` is what the foreign keys ask of an INSERT, `Forget`
their ON DELETE SET NULL; an attempt goes with its request and its key (CASCADE).
`Cleanup` belongs to any server that starts on the file. Keys are tried once each in
any order: the order is `ProxyRetry`'s. Names, hashes, headers, statuses and
durations are left out; a usage is the number of the upstream's report.

### SchemaMigration

`Statements` is `migrate` in its order: the CREATE TABLEs, each `ensure_column`, the
two UPDATE and INSERT ... SELECT that fill in, the aliases, the indexes. `step[p]` is
the statement of process `p`; `missing[p]` is that `table_info` did not list its
column, which is read one statement before the ALTER TABLE that uses it (`Inspect`,
then `Alter` or `LoseRace`). `Start` and `Stop` may come anywhere, `Stop` also for
a statement that SQLite refuses. `old`, what the first process found, and `lost`
are history. Of an old database only the columns with an `ensure_column` may be
missing, and the two fill-ins stand for the rows that still lack a token or a date.
Whether a token can be inserted is `ClientTokens`' matter (`Open`, `OpenFails`).

### Conversation

One conversation of several requests, followed along both ways a client may take
at each of them: `body` is the chat body when the last response is continued by
its id, `resent` the messages when every item that was sent or received (`transcript`)
is sent again. `PrepareRequest` is `prepare_request`, `RefuseRequest` its 400s,
`ConvertJsonResponse` the conversion of the answer and what is stored of it. The
operators keep the names of the functions: `ContentToChat`, `AppendInputItem`,
`MapTools`, `ToolMap`, `MapToolChoice`, `OutputFromChatMessage`,
`AssistantMessageForState`, the two custom-input conversions.

A text is a sequence of words, a name the sequence of its parts between dots, so
that a namespaced tool and one whose name has the dot in it meet under one chat name,
as in the code. Arguments have one of the five forms that
`custom_input_from_chat_arguments` tells apart, and the layout of a JSON text, which
writing it again changes. Abstracted: names and ids have no blanks at their ends
(`string_field` trims them); the upstream's content is a string or null (a content
of parts comes back as an empty text); malformed tools (refused before anything is
kept) and the fields that are copied unchanged.

## 3. What the runs check

`retry_loop` (`MCProxyRetry`, about 1.1 million states)

* `TypeOK`.
* `TrailFollowsSelection`: attempts and what is left of the iterator are the
  selected rows, in their order.
* `OutcomeMatchesTrail`: retries only after failures; the answer is the last
  attempt's; exhaustion is honest; a refused request reached nobody.
* `DisableIsExplained`: a `disabled_until` is one that a request computed when an
  attempt on that very key failed.
* `HealthColumnsAgree`: failures are counted exactly on keys with a
  `disabled_until`.
* `FailureCacheRespected`: no request takes a parked key into its list.
* `HealthChangesOnEvidence`: a key's columns move only when a request records what
  came back for that key, or the administrator acts: as a failure on no answer, 401,
  403, 429, 500, 502, 503 and 504, as a success on a 2xx. The run has a 501, which
  leaves them alone, and the mutant is the code as the README's "5xx" would have it.

`retry_loop_live` (`MCProxyRetryLive`), under `FairSpec`:

* `EveryRequestSettles`: a request whose body has come in is answered or dropped.
* `ImplementsFairFailover`: the refinement of `Failover`, its fairness included.

`client_tokens` (`MCClientTokens`, about 270 thousand states up to symmetry)

* `TypeOK`.
* `TokensHaveClients`: no token row outlives its client.
* `OnlyTornSavesBlockOpening`: exactly who can stop the database from opening.
* `OnlyOwnKeysRevive`: a revoked key comes back only as the default token of the
  client whose own key it is.
* `KeysNeverChangeHands`.

`responses_stream` (`MCResponsesStream`, about 630 thousand states)

* `TypeOK`.
* `EventsInOrder`: an item is announced once and before its deltas, nothing
  follows its end, nothing follows the end of the stream.
* `DeltasAddUp`: what is declared done, and what is stored, is what was sent.
* `IndexesMatchOutput`: when items were announced in the order of the final
  list, every `output_index` is the place in it. (Announced in another order,
  they are not: text after a tool call gets the place of that call. The
  property says what does hold.)
* `RecordsMatchStream`: stored means completed; the audit row has an error class
  exactly when nothing was stored, and else the last usage report.

`response_states` (`MCResponseStates`, about 460 thousand states up to symmetry)

* `TypeOK`.
* `WholeConversations`: a replayed history misses no turn, whatever expired.
* `OwnConversations`: nor does it hold another client's.
* `JsonAnswersCanBeContinued`: unlike a stream's.

`registry` (`MCRegistry`, about 380 thousand states up to symmetry)

* `TypeOK`.
* `RoutesHaveEnds`: no route to or from a row that is gone, in spite of the gaps.
* `RestrictedClientsStayRestricted`: a client that had routes for an alias all
  through a request is offered nothing else, though the count and the query are
  two statements and the models behind the routes may be switched off.
* `DefaultsServeTheirAlias`: `add_model` reads the target it links for in the
  transaction that links, so a model never becomes the default of an alias that
  was given another target in between.

`audit_log` (`MCAuditLog`, about 1.9 million states up to symmetry)

* `TypeOK`.
* `NamesItsParties`: a row names the client, token, upstream and key of its own
  request as far as they are still there, and no others: what usage is summed by.
* `AttemptsAccountedFor`: the rows under a request's row are the attempts that it got
  to write, at their places, but for deleted keys; a handler that has the id wrote
  them all. (The row's own `attempts` may say more: the code does not undo it.)
* `StreamsReachTheirRows`: a late usage or error reaches its own request's row only,
  and does reach it when the stream was passed on to its end and the id was known.
* `HistoryIsKept`: only the cleanup removes a row; a row forgets parties, never
  changes them; its usage and its error are settled once.

`schema_migration` (`MCSchemaMigration`, about 1.4 million states up to symmetry)

* `TypeOK`, with what holds of any release's database.
* `StatementsFindWhatTheyName`: the order of `migrate` is right, from every start.
* `OpenedIsComplete`: who serves has every table, column and index, both aliases, a
  token for every old client, a date on every old row.
* `RacesAreLostOnce`: a start fails over a duplicate column only beside another
  process, over a column that the old database lacked, and never twice over the
  same one: starting again gets everyone there.

`conversation` (`MCConversation`, about 510 thousand states)

* `TypeOK`: every message in a body has a role and what that role needs.
* `CallsKeepTheirTools`: calls come back in order, as a tool that was declared under
  that chat name, with its kind and namespace; a forced tool is one that was offered.
* `SameConversationEitherWay`: continued or sent again, the same texts, calls and
  results in the same order. (Up to what is lost on purpose: arguments of a custom
  tool are wrapped anew, a call without an id gets one, the stored instructions of
  earlier turns are repeated only when the response is continued.)
* `ResultsReachTheirCalls`: a refusal of what was received before is the upstream's
  fault (no id, no name), and a result that reaches an upstream follows its call.

Each property has a mutant in `PROJECT.json`, a definition of the model changed
the way a bug would change that code (an iterator that is not advanced, an
UPDATE without its WHERE, foreign keys off), and TLC finds it violated there.

### Bounds

| Instance | Bounds | Why they are enough |
|---|---|---|
| `MCProxyRetry` | 2 requests, 2 keys, 3 candidates of which two share a key, answers 200, 401, 501 and transport errors, times 1..2, 1 administrator action | Two writers of one row, a request that meets the same key twice, both TTLs, every class of answer. A third request adds no new pair of writers; a second administrator action was not needed to break any mutant. |
| `MCProxyRetryLive` | the same keys, one request with all three candidates, answers 200 and 429, the clock standing still | Longest loop and a competitor; time is in no guard that liveness needs. |
| `MCResponsesStream` | 3 deltas or usage reports, tool-call indexes 0..1, names of one fragment at a time | A text and two calls in every order, a skipped index, a call that comes back; a chunk with several lines and several chunks; a name that is custom only until more of it arrives. |
| `MCResponseStates` | 2 clients, 3 requests, times 0..1 | A follow-up of a follow-up, and a stranger's; old and new turns of one conversation. |
| `MCRegistry` | 1 upstream with 2 models, one of them named like the alias, 2 capabilities, 1 client, 2 administrators, 1 request, 5 actions | Two actions overlap with each other and with every lookup; an upstream, its models, a route and its undoing fit in the actions. |
| `MCClientTokens` | 2 names, 2 client ids, 3 keys, 2 sessions, labels 0, 2 and 3, 4 saves or issues | Two overlapping saves plus what they overwrite and what is revoked; a default token and two numbered ones give gaps. `MaxClients` and `MaxSaves` are the guards. |

| `MCAuditLog` | 2 requests, 1 token, 2 keys of 1 upstream, 2 usage reports, 1 deletion, two ticks of the clock either side of the retention | A row of one request under every step of another; each kind of deletion between any two statements; a cleanup between a row and its update. Any two deletions touch separate columns. |
| `MCSchemaMigration` | 2 processes of 2 starts each; a new database, an early release's, two that broke off before a fill-in, today's | Each race over a column, lost and tried again; each place to stop. |
| `MCConversation` | 3 requests out of 5, 13 answers | A turn on a turn on a turn; tools that share a chat name, calls with repeated and missing ids, every form of arguments. |

`MaxTime` stops the clock; `MaxAdminOps`, `MaxSaves`, `MaxDeltas`, `MaxChanges`,
`MaxReports`, `MaxDeletions`, `MaxStarts` and `MaxTurns` count actions; at the
bounds, and when every request is over, nothing is left to do, which is why the
configurations do not check deadlock. Symmetry is used in `client_tokens`, `response_states`,
`registry`, `audit_log` and `schema_migration`, which have no liveness property; the values that are permuted are
never compared other than for equality.

### Fairness

`FairSpec` is weak fairness of `Proceed(r)`, a request's own steps, for each
request once it has left `admitting`. The runtime keeps polling a ready task;
reqwest's timeout (`server.rs:40-42`) ends every wait for an upstream (a transport
error, `ReceiveNothing`); the busy timeout ends every wait for the database. In
`admitting` the handler waits for the client's body (`to_bytes`, `mod.rs:122`), which
no timeout ends: there no step is assumed, so that a request may stay there for ever,
and `EveryRequestSettles` begins after it. Nothing is assumed of arrivals, hang-ups,
failing queries, the administrator, the clock, or which answer comes: a request
may meet only failures, and settles because its list is finite.

## 4. What is proved

Every theorem holds for every set of keys, candidates, requests, names, tokens,
models, aliases, clients and sessions, every TTL and every bound.

| Module | Theorem | States |
|---|---|---|
| `ProxyRetryProofs` | `TypeCorrect`, `TrailSafety`, `OutcomeSafety` | `Spec => []TypeOK`, `[]TrailFollowsSelection`, `[]OutcomeMatchesTrail` |
| | `HealthSafety`, `ExplanationSafety` | `[]HealthColumnsAgree`, `[]DisableIsExplained` |
| | `EvidenceSafety`, `CacheSafety` | the action properties `HealthChangesOnEvidence`, `FailureCacheRespected` |
| | `RequestsComeToAnEnd` | `Spec => []StepsAreBounded /\ [][Nearer]_vars`: each request over n candidates takes at most 2 n + 5 steps of its own |
| | `Refinement` | `Spec => ImplementsFailover`, the safety part of the refinement |
| `ClientTokensProofs` | `TypeCorrect`, `DeletionSafety`, `OpeningSafety`, `RevocationSafety` | the four invariants of `ClientTokens` |
| | `OwnershipSafety` | the action property `KeysNeverChangeHands` |
| `ResponseStatesProofs` | `TypeCorrect`, `ReferenceSafety`, `ConversationSafety`, `OwnershipSafety`, `ContinuationSafety` | the four invariants that its run checks, and `ReferencesHold`: a row's client exists, its previous row is the one continued or NULL |
| `ResponsesStreamProofs` | `StreamTypesCorrect`, `RecordsAreRight`, `StreamInOrder`, `StreamAddsUp`, `StreamIndexes` | `[]TypeOK`, `[]RecordsMatchStream`, `[]EventsInOrder`, `[]DeltasAddUp`, `[]IndexesMatchOutput` |
| `RegistryProofs` | `TypeCorrect`, `ReferenceSafety`, `RestrictionSafety`, `SwitchSafety` | the three invariants that its run checks, and `DisabledAliasesOfferNothing` |
| | `DefaultsSafety` | the action property `DefaultsServeTheirAlias` |
| | `QuietResolution` | `QuietSpec => ImplementsResolution` |
| `AuditLogProofs` | `AuditTypesCorrect`, `RowsNameTheirParties`, `AttemptsAreAccountedFor`, `StreamsReachOwnRows` | the four invariants of `AuditLog` |
| | `AuditHistoryIsKept` | the action property `HistoryIsKept` |
| `SchemaMigrationProofs` | `MigrationTypesCorrect`, `EveryStatementRuns`, `OpenedDatabaseIsComplete` | the three invariants of `SchemaMigration` |
| | `RacesLostOnlyOnce` | the action property `RacesAreLostOnce` |
| `ConversationProofs` | `ConversationTypes`, `ToolsSafety`, `ConversationIsTheSame`, `ResultsSafety` | the four invariants of `Conversation` |

They rest on the named assumptions of the modules only:
`CandidatesAssumption` (finitely many candidates, each with a key and a tier),
`NumbersAssumption` (statuses in 100..599; TTLs and Retry-After any integers, as
`FailureTtl` never goes below a second), `TablesAssumption` (the default
label is a label, no key is the null), `StatesAssumption` (the null is no request,
times are numbers), `RegistryAssumption` (the seeded aliases are aliases, each
with a capability), `AuditAssumption` (a token has a client, a key an upstream),
`StreamAssumption` (the bounds are numbers, names are sequences of fragments),
`MigrationAssumption` (what connect may find is well formed: a column has its table) and
`ConversationAssumption`, which says what a request and an answer are:

* An answer's content is a string or null, as a chat completion's is. The code takes
  anything there: it would store parts as they are and show the client an empty text,
  and the two ways would differ.
* Calls are there only with a `tool_calls` (`has_calls`), which may also be empty or no
  array.
* A tool that is forced is a function or a custom tool: `map_tool_choice` passes other
  choices on as they are or drops them.
* A request's `input` is what the client says for itself. Its calls and their results
  are not free: they are those of the conversation (`Results`, `transcript`).
* `Word` holds the words that the model itself writes, which in a run are strings.

**The loop.** The inductive invariant is `IInv == TypeOK /\ TrailFollowsSelection
/\ OutcomeMatchesTrail /\ LoopInv`. `OutcomeMatchesTrail` alone is not inductive:
it says nothing of a request still in the loop. `LoopInv` adds what the handler
knows at each await: before its selection it has no rows and no attempts; in the
loop its queue is not empty and its result is pending; and the answer it waits
to record is of the kind its UPDATE is for. With it `RecordFailure` closes the
case that matters: the queue becomes empty exactly when the last attempt is a
failure, whose status the client gets. `TrailFollowsSelection` supplies that
what is taken from the queue is the next selected row.

**Key health.** `HealthSteps` shows that only three kinds of step touch the
columns: a failure recorded, a success recorded, the administrator.
`HealthColumnsAgree` needs `UntilInv`, that a time waiting to be written is
never 0, which is NULL; `FailureCacheRespected` needs `CutoffInv`, that the time
bound to a candidate query is not ahead of the clock; `HealthChangesOnEvidence` needs
`StatusInv`, that an answer that waits to be recorded has a status of its kind;
`DisableIsExplained` needs
that trails only grow and that a dropped handler stays as it was.

**The refinement.** `RInv` adds to `IInv` that no row is selected twice, because
the order of the query is strict, and that a request that left the loop has a
result. `LoopMapped` then gives that the current candidate is offered and not
yet missed, and that with one candidate left nothing else is.

**The end of a request.** `StepsLeft` counts two steps for each candidate left, the
answer and its UPDATE, and one for the audit. `Nearer` says that a step of a request
lowers its count and that no other step touches it: `StepLeads` lists where a step leads,
and `FewSelected`, that no more rows are selected than the model's candidates, bounds
the count. This is all of `EveryRequestSettles` but its fairness: that a request which has
its body and is not settled does take another step.

**Tokens.** `SavesAgree` says that a save that is not torn is about to write the
key it gave its client, and is alone; `DefaultsAgree` that the default token of
a settled client has the client's own key. Together with the two UNIQUE
constraints, as invariants of the statements that respect them, they make
`OnlyTornSavesBlockOpening` and `OnlyOwnKeysRevive` inductive.

**The stream.** The properties speak of what was sent, and what will be sent depends
on what is ready: `StreamInv` is about `sent \o batch`, which a delivered frame leaves
as it is (`DeliveryIsSame`) and which a dropped batch shortens to a prefix
(`PrefixIsGood`: order and sums hold of every prefix, because no delta follows what
finishes it). While the adapter runs, `Accounted` relates the two copies of the same
facts: an item is announced in the frames exactly when the adapter has it started, and
the deltas in the frames are those the adapter has put together, ascending because
each is newer than all before (`Tallies`). A line's frames keep this (`AppendIsGood`,
with `SlotsAfterResize` for the slots a tool call skips), and then the frames of
`finish` fit (`ClosingFrames`, `ClosingIsGood`). `RecordsInv` adds what the records
hold at each place of the generator; it needs that a batch that completes ends in
`completed`.

**Its indexes.** `IndexesMatchOutput` speaks of the end of a stream, so `PlacedInv` says
of every slot, from the moment it is announced, that it is in its place (as many items
are announced before it as come before it in the final list) or displaced for good: an
item that comes later in the list was announced before it. Both last when the stream
goes on (`StaysPlaced`), and a displaced slot is one that the property excepts.

**Kept histories.** None of the properties speaks of what a request read and still
carries, so none is inductive. `TurnsInv` says that a request's copy of the
history ends in its own turn and that each turn continues the one before it;
`RowInv` that a stored row is the copy its request was prepared with, and
`PreviousInv` that what a stored response continued was stored earlier. From
these a new copy is a whole conversation again, whatever was deleted since the
row was written. `PcInv` and `DeliveredInv` say that a request is past its insert
exactly when its row was stored, which orders a JSON answer after the row.

**The registry.** `RoutesHaveEnds` is inductive beside the types: each insert of a
route tests its foreign keys, each deletion takes the routes of its rows along,
and the prune spares an alias that a route names. What a request is offered
depends on moments, so the invariant (`SeenInv`, `LookupOK`) keeps what each step
of the lookups must have seen: its alias on before the client's routes are
counted, no route of the client's before other routes are looked at, neither an
alias nor a route (by `RoutesHaveEnds`, a route would need the alias) before an
upstream's model of that name is. At the end, a client whose routes never all
went away can only have come through its own.

**Its resolution.** In quiet times the same knowledge needs no history: `Fits` says that
what a request found out in its lookups so far is so in the tables now, and each lookup
either goes on (a stutter) or ends with `Stands` (`StandsIs`, `EndsWith`). That a name
under which nothing is registered stands for nothing takes the types: a model that
serves has a row.

**The audit log.** The invariant says of each request where its row can be: there is
none before the INSERT, then at most one, under the id that the request keeps, below
`next_id`, which never goes back; and what the row repeats of the request agrees with
it, as nothing of that changes once the row is written. Late updates go by an id that
was the request's own when it got it, and an id is never given twice, so whoever was
cleaned up in between, no other row can answer to it. Steps are grouped by what they
do to the tables: they leave them alone, insert, settle one row (`SettleKeeps`),
or shrink them (`ShrinkKeeps`, for every deletion; `CleanupKeeps`).

**The migration.** `DoneSoFar`, a process has done every statement before the one it
is at, is inductive because no step takes anything back from the database (`Grown`),
whoever takes it. What remains is about the list alone: `OrderOfStatements` (a statement
finds what it names when those before it are done) and `StatementsAreComplete`
(nothing is missing when all are done). For the races, `MissingIsNew`: a column that
a process did not find was not there before, and if it is now, another process was
started.

**The conversation.** Each invariant says of the next moment what the property says of
this one. `CallsKept` and `ChoiceKept` read the property off `request`, `answer` and
`output`; the work is in the lemmas: the last tool of a chat name is found exactly when
one was declared (`ToolMapFinds`), and the calls among the output items are the
answer's, one by one (`CallsOfOutput`). `ReadySame` says that what is stored
and what the transcript converts to are alike when a request may come, `CallingSame`
the same of the two bodies on their way. They need that saying is a homomorphism
(`SaidConcat`, `MessagesConcat`), that instructions are not said, that a text's round
trip is itself (`TextAlike`) and a call's is itself up to a custom tool's wrapping
(`CallAlike`). `ReachInv` holds that every call with an id that the client
received last is in both histories (`HoldsInv`), and that results there follow their
calls (`FollowInv`).

The model says these things with `FlattenSeq`, a fold over sequences of any length. The
library's induction theorems have an operator for a parameter and cannot be cited, but a
fact about every number or every sequence is also one about a set, that of the numbers
or sequences it holds of: `NumberInduction` and `SequenceInduction` prove, from `WFMin`,
that such a set is everything if it has the first element and is closed under the step.
With them `FlattenSeq` is shown to distribute over concatenation (`FlattenConcat`), to
keep types, to have the elements of its parts (`FlattenHas`), and to be the sequence
itself when its parts are singletons.

Only model-checked: `EveryRequestSettles` and the fairness of `ImplementsFairFailover`,
since liveness under fairness and ENABLED are out of the prover's reach. Every invariant
and every action property that a passing run checks is proved.

## 5. Where the code and its words differ

Each is a run that TLC finds violated, with a `findings` entry that quotes the
sentence.

* `DeletedTokensStayDeleted` (`claim_deleted_tokens`): a deleted default token is
  inserted again by the next start or command.
* `DatabaseOpens` (`claim_database_opens`): when a save of a client ends between its
  statements, the next open violates UNIQUE and fails.
* `FallbackAliasesSurvive` (`claim_pruned_aliases`): an alias without routes falls back
  to models of its capability, says the README, whose set-up commands make such an
  alias; any deletion prunes it.

One more is in a passing run, which states what the code does: README.md:27 promises
the `disabled_until` cache for 5xx failures, and `is_retriable_status`
(`support.rs:157-168`) lists four of them. A 501 goes straight to the client and leaves
the key alone, as `HealthChangesOnEvidence` says.

Seen on the way, and without a run: after a deletion, the next numbered token may get the name of an existing one, whose
key it replaces; a streamed response is refused as `previous_response_id` until its
state is stored, which happens after `response.completed` was delivered, or never
if the client hangs up then.

## 6. What is not modelled, and why

* `GET /models`, the 404s of ignored paths and header forwarding: no state.
* The branch for an upstream URL that does not parse: a saved URL is validated.
* `last_status` and `last_error`: text for the admin page that nothing reads.
* The width of `now + Retry-After`: times are small integers; listed as a hazard.
* Inserting keys (saving over one is `SaveKey`): a new key reaches later requests
  only. Priorities and `max_model_len` of models and routes, requests without a
  model, discovered models: they order or describe what `Registry` offers.
* Discovered models: a model list fetched over HTTP replaces an upstream's rows in one
  transaction. The rows fill a list of suggestions in a form, no request is routed
  by them, and the last answer wins.
* A server of an older release that goes on writing undated rows while a new one
  migrates: `SchemaMigration` has the old rows only.
* Times and lengths in audit rows, the statistics (read-only queries over them), and
  the pages that show them.
* UTF-8 characters split over chunks, and the memory that a large tool-call
  index takes: listed as hazards.
* Usage numbers, tool schemas and descriptions, fields of a body that are copied
  unchanged, HTML, argument parsing, sessions and their cookies: data and pure
  functions that the properties do not tell apart, or checks that keep no state.
* Statements that fail half-way: SQLite rolls a statement back.

## 7. Plan

Done: the retry loop and key health with their proofs and refinement; clients and
tokens, streams, response states, the registry, the audit log, the migration and
conversations, each with proofs of all that its run checks. What could follow:

1. `ProxyRetry` composed with `Registry` in place of the constant `Offers`.
2. Liveness of `ResponsesStream`: a stream that ends is completed and recorded; its
   measure, as for the retry loop.
3. `Conversation` with streamed answers in place of whole ones.

## 8. Running it

    tlc -config MCProxyRetry.cfg MCProxyRetry.tla
    tlc -config MCProxyRetryLive.cfg MCProxyRetryLive.tla
    tlc -config MCClientTokens.cfg MCClientTokens.tla
    tlc -config MCResponsesStream.cfg MCResponsesStream.tla
    tlc -config MCResponseStates.cfg MCResponseStates.tla
    tlc -config MCRegistry.cfg MCRegistry.tla
    tlc -config MCAuditLog.cfg MCAuditLog.tla
    tlc -config MCSchemaMigration.cfg MCSchemaMigration.tla
    tlc -config MCConversation.cfg MCConversation.tla
    tlc -config ClaimDatabaseOpens.cfg ClientTokensClaims.tla     # violated, as are all Claim...
    for m in ProxyRetry ClientTokens ResponsesStream ResponseStates Registry AuditLog SchemaMigration Conversation
    do tlapm ${m}Proofs.tla; done
