---------------------------- MODULE ClientTokens ----------------------------
(***************************************************************************)
(* The clients of the router and the tokens they authenticate with: the    *)
(* tables clients and client_tokens, the statements that write them        *)
(* (src/db/admin_mutations.rs, admin_operations.rs) and the backfill that  *)
(* every start of the server and every command runs (src/db/schema.rs).    *)
(*                                                                         *)
(* A save of a client is two statements in no transaction, and issuing a   *)
(* token under a number is a COUNT and then an INSERT: administrators'     *)
(* sessions and commands interleave between the two, and stop there.       *)
(***************************************************************************)
EXTENDS Integers, FiniteSets

CONSTANTS
  Name,        \* clients.name
  Label,       \* client_tokens.name: 0 the default token's, n "token n"
  Secret,      \* API keys; a hash stands for its key
  NoSecret,    \* no row
  Session,     \* administrators' requests and commands running at once
  MaxClients,  \* bound: rows ever inserted into clients
  MaxSaves     \* bound: saves and issues in a behaviour

Default == 0
Client == 1 .. MaxClients  \* clients.id, AUTOINCREMENT: never used again
Token == Client \X Label

ASSUME TablesAssumption ==
  /\ Label \subseteq Nat /\ Default \in Label
  /\ NoSecret \notin Secret
  /\ MaxClients \in Nat /\ MaxSaves \in Nat

VARIABLES
  idOf,           \* Name -> the id of its row, 0 when there is none
  nextId,         \* the next id of clients
  clientHash,     \* Client -> clients.api_key_hash
  enabledClients, \* the clients with enabled = 1
  tokenHash,      \* Token -> client_tokens.api_key_hash
  enabledTokens,  \* the tokens with enabled = 1
  session,        \* Session -> the token it is about to write
  saves,          \* saves and issues so far
  revoked,        \* keys whose token was deleted or given another key (history)
  torn            \* clients whose two rows were not saved as one (history)

clientVars == <<idOf, nextId, clientHash, enabledClients>>
tokenVars == <<tokenHash, enabledTokens, revoked>>
vars == <<clientVars, tokenVars, session, saves, torn>>
-----------------------------------------------------------------------------
Idle == [kind |-> "idle", client |-> 0, label |-> Default, secret |-> NoSecret,
         enabled |-> FALSE]

\* The second statement of upsert_client, or the only one of an issue.
Saving(kind, c, l, s, e) ==
  [kind |-> kind, client |-> c, label |-> l, secret |-> s, enabled |-> e]

Exists(c) == clientHash[c] # NoSecret
TokensOf(c) == {t \in Token : t[1] = c /\ tokenHash[t] # NoSecret}

\* Mutant: the column is not UNIQUE.
MayHoldAnyway(t, s) == TRUE

\* UNIQUE(client_tokens.api_key_hash) lets row t take this key.
MayHold(t, s) == \A u \in Token : tokenHash[u] = s => u = t

\* /dev/urandom never gives a key that is or was in use.
Fresh(s) ==
  /\ s \notin revoked
  /\ \A c \in Client : clientHash[c] # s
  /\ \A t \in Token : tokenHash[t] # s
  /\ \A p \in Session : session[p].secret # s

\* The clients whose own key no token row has.
Missing == {c \in Client : Exists(c) /\ \A t \in Token : tokenHash[t] # clientHash[c]}

\* The backfill would insert a second default token for such a client, and its
\* ON CONFLICT clause names api_key_hash, not (client_id, name).
OpenFails == \E c \in Missing : tokenHash[<<c, Default>>] # NoSecret

\* authenticate_client
Authenticates(s, c) ==
  \E l \in Label :
    /\ tokenHash[<<c, l>>] = s
    /\ <<c, l>> \in enabledTokens /\ c \in enabledClients

Init ==
  /\ idOf = [n \in Name |-> 0] /\ nextId = 1
  /\ clientHash = [c \in Client |-> NoSecret] /\ enabledClients = {}
  /\ tokenHash = [t \in Token |-> NoSecret] /\ enabledTokens = {}
  /\ session = [p \in Session |-> Idle]
  /\ saves = 0 /\ revoked = {} /\ torn = {}
-----------------------------------------------------------------------------
(* Saving *)

Start(p, work) ==
  /\ session[p] = Idle /\ saves < MaxSaves
  /\ saves' = saves + 1
  /\ session' = [session EXCEPT ![p] = work]

End(p) == session' = [session EXCEPT ![p] = Idle]

\* Another session is between the two statements of a save of client c.
Overlaps(p, c) == \E q \in Session \ {p} : session[q].kind = "client" /\ session[q].client = c

\* upsert_client up to its first await: `add-client` with any key, or the admin
\* page with a fresh one.  A key of another client violates UNIQUE and nothing
\* is changed.
SaveClient(p, n, s, e) ==
  LET c == IF idOf[n] = 0 THEN nextId ELSE idOf[n] IN
  /\ c \in Client
  /\ \A d \in Client : clientHash[d] = s => d = c
  /\ Start(p, Saving("client", c, Default, s, e))
  /\ idOf' = [idOf EXCEPT ![n] = c]
  /\ nextId' = IF c = nextId THEN nextId + 1 ELSE nextId
  /\ clientHash' = [clientHash EXCEPT ![c] = s]
  /\ enabledClients' = IF e THEN enabledClients \cup {c} ELSE enabledClients \ {c}
  /\ torn' = IF Overlaps(p, c) THEN torn \cup {c} ELSE torn
  /\ UNCHANGED tokenVars

\* The admin page issues a token under a name the administrator typed.
IssueNamed(p, c, l, s) ==
  /\ Fresh(s)
  /\ Start(p, Saving("named", c, l, s, TRUE))
  /\ UNCHANGED <<clientVars, tokenVars, torn>>

\* Mutant: the count itself is the number.
IssueNumberedByCount(p, c, s) ==
  /\ Fresh(s)
  /\ Start(p, Saving("numbered", c, Cardinality(TokensOf(c)), s, TRUE))
  /\ UNCHANGED <<clientVars, tokenVars, torn>>

\* ... or under none: next_client_token_name counts the client's tokens.
IssueNumbered(p, c, s) ==
  /\ Fresh(s)
  /\ Cardinality(TokensOf(c)) + 1 \in Label
  /\ Start(p, Saving("numbered", c, Cardinality(TokensOf(c)) + 1, s, TRUE))
  /\ UNCHANGED <<clientVars, tokenVars, torn>>

\* Mutant: foreign keys are not enforced.
WriteTokenOfAnybody(p) ==
  LET w == session[p]
      t == <<w.client, w.label>>
  IN
  /\ w # Idle
  /\ MayHold(t, w.secret)
  /\ tokenHash' = [tokenHash EXCEPT ![t] = w.secret]
  /\ enabledTokens' = IF w.enabled THEN enabledTokens \cup {t} ELSE enabledTokens \ {t}
  /\ revoked' = (revoked \cup {tokenHash[t]}) \ {w.secret, NoSecret}
  /\ End(p)
  /\ UNCHANGED <<clientVars, saves, torn>>

\* Mutant: ON CONFLICT(client_id, name) DO NOTHING.
WriteTokenUnlessPresent(p) ==
  LET w == session[p]
      t == <<w.client, w.label>>
      kept == tokenHash[t] # NoSecret
  IN
  /\ w # Idle
  /\ Exists(w.client) /\ MayHold(t, w.secret)
  /\ tokenHash' = [tokenHash EXCEPT ![t] = IF kept THEN @ ELSE w.secret]
  /\ enabledTokens' = IF w.enabled /\ ~kept THEN enabledTokens \cup {t} ELSE enabledTokens
  /\ End(p)
  /\ UNCHANGED <<clientVars, saves, revoked, torn>>

\* upsert_client_token: insert the row, or give the one of that name a new key.
WriteToken(p) ==
  LET w == session[p]
      t == <<w.client, w.label>>
  IN
  /\ w # Idle
  /\ Exists(w.client) /\ MayHold(t, w.secret)
  /\ tokenHash' = [tokenHash EXCEPT ![t] = w.secret]
  /\ enabledTokens' = IF w.enabled THEN enabledTokens \cup {t} ELSE enabledTokens \ {t}
  /\ revoked' = (revoked \cup {tokenHash[t]}) \ {w.secret, NoSecret}
  /\ torn' = IF w.kind # "client" /\ w.label = Default THEN torn \cup {w.client} ELSE torn
  /\ End(p)
  /\ UNCHANGED <<clientVars, saves>>

\* The client is gone (foreign key) or another token has the key (UNIQUE): an
\* error, and what the first statement changed stays changed.
RejectToken(p) ==
  LET w == session[p] IN
  /\ w # Idle
  /\ ~Exists(w.client) \/ ~MayHold(<<w.client, w.label>>, w.secret)
  /\ torn' = IF w.kind = "client" THEN torn \cup {w.client} ELSE torn
  /\ End(p)
  /\ UNCHANGED <<clientVars, tokenVars, saves>>

\* The process stops or the browser hangs up before the statement is sent.
Stop(p) ==
  LET w == session[p] IN
  /\ w # Idle
  /\ torn' = IF w.kind = "client" THEN torn \cup {w.client} ELSE torn
  /\ End(p)
  /\ UNCHANGED <<clientVars, tokenVars, saves>>
-----------------------------------------------------------------------------
(* Deleting, and opening the database *)

RemoveTokens(T) ==
  /\ tokenHash' = [t \in Token |-> IF t \in T THEN NoSecret ELSE tokenHash[t]]
  /\ enabledTokens' = enabledTokens \ T
  /\ revoked' = revoked \cup {tokenHash[t] : t \in T}

\* Mutant: the row is disabled instead.
DeleteTokenSoftly(t) ==
  /\ tokenHash[t] # NoSecret
  /\ enabledTokens' = enabledTokens \ {t}
  /\ revoked' = revoked \cup {tokenHash[t]}
  /\ UNCHANGED <<clientVars, tokenHash, session, saves, torn>>

DeleteToken(t) ==
  /\ tokenHash[t] # NoSecret
  /\ RemoveTokens({t})
  /\ UNCHANGED <<clientVars, session, saves, torn>>

\* One transaction: its routes (not modelled here), its tokens, its row.
DeleteClient(n) ==
  LET c == idOf[n] IN
  /\ c # 0
  /\ RemoveTokens(TokensOf(c))
  /\ idOf' = [idOf EXCEPT ![n] = 0]
  /\ clientHash' = [clientHash EXCEPT ![c] = NoSecret]
  /\ enabledClients' = enabledClients \ {c}
  /\ UNCHANGED <<nextId, session, saves, torn>>

\* connect: a restart of the server, or a command run beside it, gives every
\* client whose key is in no token row a default token with that key.  When the
\* INSERT fails the process exits and nothing is changed.
Open ==
  /\ ~OpenFails
  /\ tokenHash' = [t \in Token |-> IF t[1] \in Missing /\ t[2] = Default
                                   THEN clientHash[t[1]] ELSE tokenHash[t]]
  /\ enabledTokens' = enabledTokens \cup {<<c, Default>> : c \in Missing \cap enabledClients}
  /\ UNCHANGED <<clientVars, session, saves, revoked, torn>>

Work(p) ==
  \/ \E n \in Name, s \in Secret, e \in BOOLEAN : SaveClient(p, n, s, e)
  \/ \E c \in Client, s \in Secret :
       IssueNumbered(p, c, s) \/ \E l \in Label : IssueNamed(p, c, l, s)
  \/ WriteToken(p) \/ RejectToken(p) \/ Stop(p)

Next ==
  \/ \E p \in Session : Work(p)
  \/ \E t \in Token : DeleteToken(t)
  \/ \E n \in Name : DeleteClient(n)
  \/ Open

Spec == Init /\ [][Next]_vars
-----------------------------------------------------------------------------
(* Properties *)

SessionsTypeOK ==
  session \in [Session ->
    {Idle} \cup [kind : {"client", "named", "numbered"}, client : Client,
                 label : Label, secret : Secret, enabled : BOOLEAN]]

\* Every column keeps its type.
TypeOK ==
  /\ idOf \in [Name -> 0 .. MaxClients] /\ nextId \in 1 .. MaxClients + 1
  /\ clientHash \in [Client -> Secret \cup {NoSecret}]
  /\ enabledClients \subseteq Client
  /\ tokenHash \in [Token -> Secret \cup {NoSecret}]
  /\ enabledTokens \subseteq Token
  /\ SessionsTypeOK
  /\ saves \in 0 .. MaxSaves
  /\ revoked \subseteq Secret
  /\ torn \subseteq Client

\* A deleted client is gone for good: no token row outlives its client, so none
\* of its keys authenticates, though a save or an issue for it was under way
\* when delete_client committed (admin_operations.rs:102-121).
TokensHaveClients == \A t \in Token : tokenHash[t] # NoSecret => Exists(t[1])

\* A save of client c is between its two statements, or one was torn: stopped,
\* refused or overlapped there, or the default token issued over.
Unsettled(c) ==
  \/ c \in torn
  \/ \E p \in Session : session[p].kind = "client" /\ session[p].client = c

\* A client whose two rows were always saved as one never stops the database from
\* opening: the backfill fails only for an unsettled client, whatever tokens were
\* issued, replaced and deleted (schema.rs:58-68, admin_mutations.rs:6-37).
OnlyTornSavesBlockOpening ==
  \A c \in Missing : tokenHash[<<c, Default>>] # NoSecret => Unsettled(c)

\* A key whose token was deleted or replaced comes back, if at all, as the default
\* token of the client whose own key it is: opening the database revives nothing
\* else, so deleting an issued token is final.
OnlyOwnKeysRevive ==
  \A t \in Token :
    tokenHash[t] \in revoked =>
      t[2] = Default /\ (clientHash[t[1]] = tokenHash[t] \/ Unsettled(t[1]))

\* No step moves a key from one client to another: a save with somebody else's
\* key is refused, whatever was saved, issued or deleted before.
KeysNeverChangeHands ==
  [][\A t, u \in Token :
       tokenHash[t] # NoSecret /\ tokenHash'[u] = tokenHash[t] => t[1] = u[1]]_vars
=============================================================================
