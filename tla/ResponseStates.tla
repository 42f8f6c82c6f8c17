-------------------------- MODULE ResponseStates ---------------------------
(***************************************************************************)
(* The conversations of /v1/responses: the table response_states           *)
(* (src/db/response_state.rs), the requests that read it for their         *)
(* previous_response_id and write it with their answer                     *)
(* (src/responses_compat), and what deletes from it: a client's deletion   *)
(* and the cleanup of a starting server (src/db/runtime_cleanup.rs).       *)
(*                                                                         *)
(* A request makes one response, whose id it stands for: prepare_request   *)
(* draws a new id, so no insert meets a row of its own id.  A message      *)
(* history is the sequence of the turns in it; a turn is a request's input *)
(* and its answer.  A JSON answer is stored before it is sent, a streamed  *)
(* one after.                                                              *)
(***************************************************************************)
EXTENDS Integers, Sequences

CONSTANTS
  Client,   \* clients.id
  Request,  \* requests to /v1/responses, and the ids of their responses
  None,     \* no previous_response_id: NULL
  MaxTime   \* bound: the last value of the clock

ASSUME StatesAssumption == None \notin Request /\ MaxTime \in Nat

VARIABLES
  clock,
  clients,    \* the rows of clients
  pc,         \* Request -> how far it got
  ask,        \* Request -> whose it is, what it continues, whether it streams
  messages,   \* Request -> chat_messages of the prepared request
  stored,     \* the ids that have a row in response_states
  row,        \* Request -> that row
  delivered,  \* responses the client received as completed (history)
  removed     \* responses whose row was deleted (history)

requestVars == <<pc, ask, messages, delivered>>
tableVars == <<stored, row, removed>>
vars == <<clock, clients, requestVars, tableVars>>
-----------------------------------------------------------------------------
Asks == [client : Client, previous : Request \cup {None}, stream : BOOLEAN]

Init ==
  /\ clock = 0 /\ clients = Client
  /\ pc = [r \in Request |-> "idle"]
  /\ ask \in [Request -> Asks]
  /\ messages = [r \in Request |-> <<>>]
  /\ stored = {} /\ removed = {} /\ delivered = {}
  /\ row = [r \in Request |->
             [client |-> ask[r].client, previous |-> None, messages |-> <<>>, created |-> 0]]

Move(r, from, to) == pc[r] = from /\ pc' = [pc EXCEPT ![r] = to]
-----------------------------------------------------------------------------
(* Requests *)

\* The client is authenticated and its body was read.  The id it continues is
\* one that some request was given, or none.
Arrive(r) ==
  /\ ask[r].client \in clients
  /\ ask[r].previous # None => messages[ask[r].previous] # <<>>
  /\ Move(r, "idle", "preparing")
  /\ UNCHANGED <<clock, clients, ask, messages, delivered, tableVars>>

\* Mutant: the row is looked up by its id only.
MayContinueAnything(r) == ask[r].previous # None => ask[r].previous \in stored

\* get_response_state finds the row among those of this client.
MayContinue(r) ==
  ask[r].previous # None =>
    /\ ask[r].previous \in stored
    /\ row[ask[r].previous].client = ask[r].client

Prepare(r) ==
  /\ MayContinue(r)
  /\ Move(r, "preparing", "calling")
  /\ messages' = [messages EXCEPT ![r] =
       Append(IF ask[r].previous = None THEN <<>> ELSE row[ask[r].previous].messages, r)]
  /\ UNCHANGED <<clock, clients, ask, delivered, tableVars>>

\* 400, previous_response_id not found for this client.
Refuse(r) ==
  /\ ~MayContinue(r)
  /\ Move(r, "preparing", "refused")
  /\ UNCHANGED <<clock, clients, ask, messages, delivered, tableVars>>

\* An upstream answered 2xx in the form the request asked for.
ReceiveAnswer(r) ==
  /\ Move(r, "calling", IF ask[r].stream THEN "streaming" ELSE "storing")
  /\ UNCHANGED <<clock, clients, ask, messages, delivered, tableVars>>

\* The request ends without a completed response: its lookup fails, no upstream
\* answers, the answer cannot be converted, the stream breaks off, the insert
\* fails.
Fail(r) ==
  /\ \E at \in {"preparing", "calling", "storing", "streaming", "completed"} : Move(r, at, "failed")
  /\ UNCHANGED <<clock, clients, ask, messages, delivered, tableVars>>

\* The foreign keys of the row.
Referenced(r) ==
  /\ ask[r].client \in clients
  /\ ask[r].previous # None => ask[r].previous \in stored

\* Mutant: the time to delete the row instead of the time it was made.
InsertWithExpiry(r) ==
  /\ Referenced(r)
  /\ stored' = stored \cup {r}
  /\ row' = [row EXCEPT ![r] = [client |-> ask[r].client, previous |-> ask[r].previous,
                                messages |-> messages[r], created |-> clock + 1]]
  /\ UNCHANGED <<clock, clients, ask, messages, removed>>

InsertResponseState(r) ==
  /\ Referenced(r)
  /\ stored' = stored \cup {r}
  /\ row' = [row EXCEPT ![r] = [client |-> ask[r].client, previous |-> ask[r].previous,
                                messages |-> messages[r], created |-> clock]]
  /\ UNCHANGED <<clock, clients, ask, messages, removed>>

\* Mutant: only streamed answers are stored.
StoreJsonNever(r) ==
  /\ Move(r, "storing", "answering")
  /\ UNCHANGED <<clock, clients, ask, messages, delivered, tableVars>>

StoreJson(r) ==
  /\ Move(r, "storing", "answering")
  /\ InsertResponseState(r)
  /\ UNCHANGED delivered

AnswerJson(r) ==
  /\ Move(r, "answering", "done")
  /\ delivered' = delivered \cup {r}
  /\ UNCHANGED <<clock, clients, ask, messages, tableVars>>

\* The last frame of the stream, response.completed, reaches the client.
CompleteStream(r) ==
  /\ Move(r, "streaming", "completed")
  /\ delivered' = delivered \cup {r}
  /\ UNCHANGED <<clock, clients, ask, messages, tableVars>>

StoreStream(r) ==
  /\ Move(r, "completed", "done")
  /\ InsertResponseState(r)
  /\ UNCHANGED delivered

\* The client hangs up or the process stops.
Abandon(r) ==
  /\ pc[r] \notin {"idle", "done", "refused", "failed", "abandoned"}
  /\ pc' = [pc EXCEPT ![r] = "abandoned"]
  /\ UNCHANGED <<clock, clients, ask, messages, delivered, tableVars>>
-----------------------------------------------------------------------------
(* Deletions *)

\* Mutant: a deleted row takes the history of its follow-ups with it.
RemoveWithHistory(gone) ==
  /\ stored' = stored \ gone /\ removed' = removed \cup gone
  /\ row' = [r \in Request |->
       IF row[r].previous \in gone
       THEN [row[r] EXCEPT !.previous = None, !.messages = <<r>>] ELSE row[r]]

\* Rows are deleted, and previous_response_id is set to NULL where it names one.
Remove(gone) ==
  /\ stored' = stored \ gone /\ removed' = removed \cup gone
  /\ row' = [r \in Request |->
       IF row[r].previous \in gone THEN [row[r] EXCEPT !.previous = None] ELSE row[r]]

DeleteClient(c) ==
  /\ c \in clients /\ clients' = clients \ {c}
  /\ Remove({r \in stored : row[r].client = c})
  /\ UNCHANGED <<clock, requestVars>>

\* A server starts and deletes what is older than its retention.  Another one
\* may be serving requests from the same file.
Cleanup(cutoff) ==
  /\ Remove({r \in stored : row[r].created < cutoff})
  /\ UNCHANGED <<clock, clients, requestVars>>

Tick ==
  /\ clock < MaxTime /\ clock' = clock + 1
  /\ UNCHANGED <<clients, requestVars, tableVars>>

Serve(r) ==
  \/ Arrive(r) \/ Prepare(r) \/ Refuse(r) \/ ReceiveAnswer(r) \/ Fail(r)
  \/ StoreJson(r) \/ AnswerJson(r) \/ CompleteStream(r) \/ StoreStream(r) \/ Abandon(r)

Next ==
  \/ \E r \in Request : Serve(r)
  \/ \E c \in Client : DeleteClient(c)
  \/ \E cutoff \in 1 .. MaxTime : cutoff <= clock /\ Cleanup(cutoff)
  \/ Tick

Spec == Init /\ [][Next]_vars
-----------------------------------------------------------------------------
(* Properties *)

Steps == {"idle", "preparing", "calling", "storing", "answering", "streaming", "completed",
          "done", "refused", "failed", "abandoned"}

\* Every variable keeps its type, and what was deleted is not there.
TypeOK ==
  /\ clock \in 0 .. MaxTime /\ clients \subseteq Client
  /\ pc \in [Request -> Steps] /\ ask \in [Request -> Asks]
  /\ messages \in [Request -> Seq(Request)]
  /\ stored \subseteq Request /\ delivered \subseteq Request
  /\ removed \subseteq Request \ stored
  /\ row \in [Request -> [client : Client, previous : Request \cup {None},
                          messages : Seq(Request), created : 0 .. clock]]

\* A stored row belongs to a client that exists, and previous_response_id is the
\* response its request continued as long as that one has a row.
ReferencesHold ==
  \A r \in stored :
    /\ row[r].client \in clients /\ row[r].client = ask[r].client
    /\ row[r].previous = IF ask[r].previous \in stored THEN ask[r].previous ELSE None

\* A turn of m follows the one that its request continued, from the first on.
Follows(m) ==
  \A k \in 1 .. Len(m) : ask[m[k]].previous = IF k = 1 THEN None ELSE m[k - 1]

\* The history that a follow-up replays is the whole conversation that led to
\* it, every turn once and none missing, though rows of earlier turns expired or
\* went with their server.
WholeConversations ==
  \A r \in stored :
    LET m == row[r].messages IN m # <<>> /\ m[Len(m)] = r /\ Follows(m)

\* No client's history holds a turn of another client.
OwnConversations ==
  \A r \in Request :
    /\ \A k \in DOMAIN messages[r] : ask[messages[r][k]].client = ask[r].client
    /\ \A k \in DOMAIN row[r].messages : ask[row[r].messages[k]].client = row[r].client

\* A client that received a JSON answer can go on from it until the response is
\* deleted: the lookup of its next request will not refuse it.
JsonAnswersCanBeContinued ==
  \A r \in Request : LET p == ask[r].previous IN
    /\ pc[r] = "preparing"
    /\ p \in delivered \ removed /\ ask[p].client = ask[r].client /\ ~ask[p].stream
    => MayContinue(r)
=============================================================================
