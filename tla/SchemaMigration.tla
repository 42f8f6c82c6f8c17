-------------------------- MODULE SchemaMigration --------------------------
(***************************************************************************)
(* Opening the database (src/db/schema.rs): connect runs the statements of *)
(* migrate one after the other, on a database that an older release left,  *)
(* that an earlier start left half migrated, or that is not there yet.     *)
(* Every command of the binary opens the database, so several processes    *)
(* may migrate it at the same time, and there is no transaction around the *)
(* statements: another process, or the end of this one, fits between any   *)
(* two of them, and between the two statements of ensure_column.           *)
(*                                                                         *)
(* Of a table only the columns count that some CREATE TABLE IF NOT EXISTS  *)
(* of an older release did not have; of its rows only whether a backfill   *)
(* still has something to fill.                                            *)
(***************************************************************************)
EXTENDS Integers, Sequences

CONSTANTS
  Process,
  Client,        \* the clients of the old database
  Databases,     \* what connect may find
  MaxStarts      \* bound: starts of each process

Table ==
  {"clients", "client_tokens", "upstreams", "upstream_keys", "model_aliases",
   "upstream_models", "upstream_model_capabilities", "upstream_discovered_models",
   "client_model_routes", "model_alias_routes", "request_audits",
   "upstream_attempt_audits", "response_states"}

AuditColumns ==
  {"client_token_id", "client_token_name", "completed_date", "input_tokens",
   "output_tokens", "total_tokens"}
AttemptColumns ==
  {"upstream_content_type", "upstream_body_bytes", "upstream_body_hash", "upstream_body_kind"}

\* The columns with an ensure_column.  CREATE TABLE has all of them but one: even a
\* new table clients is altered.
LateColumns(t) ==
  CASE t = "clients" -> {"api_key"}
    [] t \in {"upstream_models", "upstream_discovered_models"} -> {"max_model_len"}
    [] t = "request_audits" -> AuditColumns
    [] t = "upstream_attempt_audits" -> AttemptColumns
    [] OTHER -> {}
Column == UNION {{t} \X LateColumns(t) : t \in Table}
CreatedColumns(t) == IF t = "clients" THEN {} ELSE {t} \X LateColumns(t)

DefaultAliases == {"llm-model", "multimodal-model"}

Database ==
  [tables : SUBSET Table, columns : SUBSET Column, indexed : SUBSET Table,
   aliases : SUBSET DefaultAliases, tokenless : SUBSET Client, undated : BOOLEAN]

\* A column and an index have a table; no release has an index of its own on
\* upstreams; a row without its date is in a table.
WellFormed(d) ==
  /\ \A c \in d.columns : c[1] \in d.tables
  /\ d.indexed \subseteq d.tables \ {"upstreams"}
  /\ d.aliases # {} => "model_aliases" \in d.tables
  /\ d.tokenless # {} => "clients" \in d.tables
  /\ d.undated => "request_audits" \in d.tables

ASSUME MigrationAssumption ==
  /\ MaxStarts \in Nat \ {0}
  /\ Databases \subseteq Database
  /\ \A d \in Databases : WellFormed(d)

VARIABLES
  db,       \* the database
  old,      \* what the first start found (history)
  status,   \* Process -> down, opening, open, raced
  step,     \* Process -> its statement
  missing,  \* Process -> table_info did not list the column
  starts,   \* Process -> starts so far, for their bound
  lost      \* Process -> columns whose ALTER TABLE came too late (history)

process == <<status, step, missing, starts, lost>>
vars == <<db, old, process>>
-----------------------------------------------------------------------------
(* The statements of migrate, in their order *)

Create(t) == [op |-> "create", table |-> t, name |-> t]
Ensure(t, c) == [op |-> "ensure", table |-> t, name |-> c]
Index(t) == [op |-> "index", table |-> t, name |-> t]
Seed(a) == [op |-> "seed", table |-> "model_aliases", name |-> a]
IssueTokens == [op |-> "tokens", table |-> "client_tokens", name |-> "api_key"]
FillDates == [op |-> "dates", table |-> "request_audits", name |-> "completed_date"]

\* seed_default_model_aliases inserts the aliases one by one; the indexes of one table
\* are one statement here.
Statements ==
  <<Create("clients"), Ensure("clients", "api_key"), Create("client_tokens"), IssueTokens,
    Create("upstreams"), Create("upstream_keys"), Create("model_aliases"),
    Create("upstream_models"), Ensure("upstream_models", "max_model_len"),
    Create("upstream_model_capabilities"), Create("upstream_discovered_models"),
    Ensure("upstream_discovered_models", "max_model_len"), Create("client_model_routes"),
    Create("model_alias_routes"), Seed("llm-model"), Seed("multimodal-model"),
    Create("request_audits"), Ensure("request_audits", "client_token_id"),
    Ensure("request_audits", "client_token_name"), Ensure("request_audits", "completed_date"),
    Ensure("request_audits", "input_tokens"), Ensure("request_audits", "output_tokens"),
    Ensure("request_audits", "total_tokens"), FillDates, Create("upstream_attempt_audits"),
    Ensure("upstream_attempt_audits", "upstream_content_type"),
    Ensure("upstream_attempt_audits", "upstream_body_bytes"),
    Ensure("upstream_attempt_audits", "upstream_body_hash"),
    Ensure("upstream_attempt_audits", "upstream_body_kind"), Create("response_states"),
    Index("clients"), Index("client_tokens"), Index("upstream_keys"), Index("model_aliases"),
    Index("upstream_models"), Index("upstream_model_capabilities"),
    Index("upstream_discovered_models"), Index("client_model_routes"),
    Index("model_alias_routes"), Index("request_audits"), Index("upstream_attempt_audits"),
    Index("response_states")>>

\* The columns that a statement names and that an older table may lack.
ColumnsOf(s) ==
  CASE s.op = "tokens" -> {<<"clients", "api_key">>}
    [] s.op = "dates" -> {<<"request_audits", "completed_date">>}
    [] s.op = "index" /\ s.table = "request_audits" ->
         {"request_audits"} \X {"completed_date", "client_token_id"}
    [] OTHER -> {}
TablesOf(s) ==
  CASE s.op = "create" -> {}
    [] s.op = "tokens" -> {"clients", "client_tokens"}
    [] OTHER -> {s.table}
Runs(s) == TablesOf(s) \subseteq db.tables /\ ColumnsOf(s) \subseteq db.columns
-----------------------------------------------------------------------------
Init ==
  /\ db \in Databases /\ old = db
  /\ status = [p \in Process |-> "down"]
  /\ step = [p \in Process |-> 1]
  /\ missing = [p \in Process |-> FALSE]
  /\ starts = [p \in Process |-> 0]
  /\ lost = [p \in Process |-> {}]

Start(p) ==
  /\ status[p] \in {"down", "raced"} /\ starts[p] < MaxStarts
  /\ status' = [status EXCEPT ![p] = "opening"]
  /\ step' = [step EXCEPT ![p] = 1]
  /\ missing' = [missing EXCEPT ![p] = FALSE]
  /\ starts' = [starts EXCEPT ![p] = @ + 1]
  /\ UNCHANGED <<db, old, lost>>

\* It crashes or is stopped, or a statement fails: the database stays busy, the disk
\* is full, a token cannot be given (ClientTokens).
Stop(p) ==
  /\ status[p] \in {"opening", "open"}
  /\ status' = [status EXCEPT ![p] = "down"]
  /\ step' = [step EXCEPT ![p] = 1]
  /\ missing' = [missing EXCEPT ![p] = FALSE]
  /\ UNCHANGED <<db, old, starts, lost>>

At(p, ops) ==
  /\ status[p] = "opening" /\ step[p] <= Len(Statements) /\ ~missing[p]
  /\ Statements[step[p]].op \in ops

Advance(p) == step' = [step EXCEPT ![p] = @ + 1]

\* Mutant: a table that is there already is taken to have its rows, too.
CreateTableAndSkip(p) ==
  LET s == Statements[step[p]]
  IN  /\ At(p, {"create"})
      /\ db' = IF s.table \in db.tables THEN db
               ELSE [db EXCEPT !.tables = @ \cup {s.table},
                               !.columns = @ \cup CreatedColumns(s.table)]
      /\ step' = [step EXCEPT ![p] =
           @ + IF s.table \in db.tables /\ s.table = "client_tokens" THEN 2 ELSE 1]
      /\ UNCHANGED <<old, status, missing, starts, lost>>

\* IF NOT EXISTS: an older table is left as it is.
CreateTable(p) ==
  LET s == Statements[step[p]]
  IN  /\ At(p, {"create"})
      /\ db' = IF s.table \in db.tables THEN db
               ELSE [db EXCEPT !.tables = @ \cup {s.table},
                               !.columns = @ \cup CreatedColumns(s.table)]
      /\ Advance(p)
      /\ UNCHANGED <<old, status, missing, starts, lost>>

\* The column that the ensure_column of this process is about.
Ensured(p) == <<Statements[step[p]].table, Statements[step[p]].name>>

\* Mutant: ensure_column does not look.
InspectNothing(p) ==
  /\ At(p, {"ensure"})
  /\ missing' = [missing EXCEPT ![p] = TRUE]
  /\ UNCHANGED <<db, old, status, step, starts, lost>>

\* PRAGMA table_info
Inspect(p) ==
  /\ At(p, {"ensure"})
  /\ \/ Ensured(p) \in db.columns /\ Advance(p) /\ UNCHANGED missing
     \/ /\ Ensured(p) \notin db.columns
        /\ missing' = [missing EXCEPT ![p] = TRUE]
        /\ UNCHANGED step
  /\ UNCHANGED <<db, old, status, starts, lost>>

\* Mutant: what was read stays for the next column.
AlterAndGoOn(p) ==
  /\ status[p] = "opening" /\ missing[p] /\ Ensured(p) \notin db.columns
  /\ Statements[step[p]].table \in db.tables
  /\ db' = [db EXCEPT !.columns = @ \cup {Ensured(p)}]
  /\ Advance(p)
  /\ UNCHANGED <<old, status, missing, starts, lost>>

\* Mutant: an ALTER TABLE that fails is passed over.
AlterOrNot(p) ==
  /\ status[p] = "opening" /\ missing[p] /\ Ensured(p) \notin db.columns
  /\ Statements[step[p]].table \in db.tables
  /\ db' \in {db, [db EXCEPT !.columns = @ \cup {Ensured(p)}]}
  /\ missing' = [missing EXCEPT ![p] = FALSE]
  /\ Advance(p)
  /\ UNCHANGED <<old, status, starts, lost>>

\* ALTER TABLE ADD COLUMN, for what was read before.
Alter(p) ==
  /\ status[p] = "opening" /\ missing[p] /\ Ensured(p) \notin db.columns
  /\ Statements[step[p]].table \in db.tables
  /\ db' = [db EXCEPT !.columns = @ \cup {Ensured(p)}]
  /\ missing' = [missing EXCEPT ![p] = FALSE]
  /\ Advance(p)
  /\ UNCHANGED <<old, status, starts, lost>>

\* Duplicate column name: another process was faster, and connect fails.
LoseRace(p) ==
  /\ status[p] = "opening" /\ missing[p] /\ Ensured(p) \in db.columns
  /\ status' = [status EXCEPT ![p] = "raced"]
  /\ step' = [step EXCEPT ![p] = 1]
  /\ missing' = [missing EXCEPT ![p] = FALSE]
  /\ lost' = [lost EXCEPT ![p] = @ \cup {Ensured(p)}]
  /\ UNCHANGED <<db, old, starts>>

\* A statement that fills in rows or makes an index, once or again: a token for every
\* client that has none, a date for every row without, an alias, an index.
Fill(p) ==
  LET s == Statements[step[p]]
  IN  /\ At(p, {"tokens", "dates", "seed", "index"}) /\ Runs(s)
      /\ db' = CASE s.op = "tokens" -> [db EXCEPT !.tokenless = {}]
                 [] s.op = "dates" -> [db EXCEPT !.undated = FALSE]
                 [] s.op = "seed" -> [db EXCEPT !.aliases = @ \cup {s.name}]
                 [] s.op = "index" -> [db EXCEPT !.indexed = @ \cup {s.table}]
      /\ Advance(p)
      /\ UNCHANGED <<old, status, missing, starts, lost>>

\* connect returns the pool.
Open(p) ==
  /\ status[p] = "opening" /\ step[p] = Len(Statements) + 1
  /\ status' = [status EXCEPT ![p] = "open"]
  /\ UNCHANGED <<db, old, step, missing, starts, lost>>

Next ==
  \E p \in Process :
    \/ Start(p) \/ Stop(p) \/ CreateTable(p) \/ Inspect(p) \/ Alter(p) \/ LoseRace(p)
    \/ Fill(p) \/ Open(p)

Spec == Init /\ [][Next]_vars
-----------------------------------------------------------------------------
(* Properties *)

TypeOK ==
  /\ db \in Database /\ WellFormed(db) /\ old \in Databases
  /\ status \in [Process -> {"down", "opening", "open", "raced"}]
  /\ step \in [Process -> 1 .. Len(Statements) + 1]
  /\ missing \in [Process -> BOOLEAN]
  /\ \A p \in Process :
       missing[p] => /\ status[p] = "opening" /\ step[p] <= Len(Statements)
                     /\ Statements[step[p]].op = "ensure"
  /\ starts \in [Process -> 0 .. MaxStarts]
  /\ lost \in [Process -> SUBSET Column]

\* Whatever release left the database, wherever an earlier start broke off and
\* whoever else is migrating, a statement finds the tables and the columns that it
\* names: no start fails over the order of migrate.
StatementsFindWhatTheyName ==
  \A p \in Process :
    status[p] = "opening" /\ step[p] <= Len(Statements) => Runs(Statements[step[p]])

\* A server that serves, and every command, has the whole schema and both default
\* aliases under it, every old client has a token, and every old audit row has the
\* date that the statistics group by, even when the start that created the table or
\* added the column never got to fill it.
OpenedIsComplete ==
  (\E p \in Process : status[p] = "open") =>
    /\ db.tables = Table /\ db.columns = Column
    /\ db.indexed = Table \ {"upstreams"}
    /\ db.aliases = DefaultAliases
    /\ db.tokenless = {} /\ ~db.undated

\* A start fails over a duplicate column only when another process migrates, too, and
\* over a column that the old database lacked; no process fails over it again, so that
\* starting again gets everyone there.
RacesAreLostOnce ==
  [][\A p \in Process :
       status'[p] = "raced" /\ status[p] # "raced" =>
         /\ Ensured(p) \notin old.columns \cup lost[p]
         /\ \E q \in Process \ {p} : starts[q] > 0]_vars
=============================================================================
