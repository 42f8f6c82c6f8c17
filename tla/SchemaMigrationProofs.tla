------------------------ MODULE SchemaMigrationProofs ------------------------
(***************************************************************************)
(* Proofs about SchemaMigration, for any number of processes, clients and  *)
(* starts and any set of old databases: the statements of migrate are in   *)
(* an order in which each finds what it names, a process has done every    *)
(* statement before the one it is at, whatever the others do meanwhile,    *)
(* and a start loses a race over a column only to another process and      *)
(* never twice over the same one.                                          *)
(***************************************************************************)
EXTENDS SchemaMigration, TLAPS

Names ==
  Table \cup AuditColumns \cup AttemptColumns \cup DefaultAliases \cup {"api_key", "max_model_len"}
Statement ==
  [op : {"create", "ensure", "index", "seed", "tokens", "dates"}, table : Table, name : Names]

\* What a statement is there for is in the database.
Done(s) ==
  CASE s.op = "create" -> s.table \in db.tables
    [] s.op = "ensure" -> <<s.table, s.name>> \in db.columns
    [] s.op = "index" -> s.table \in db.indexed
    [] s.op = "seed" -> s.name \in db.aliases
    [] s.op = "tokens" -> db.tokenless = {}
    [] OTHER -> ~db.undated
-----------------------------------------------------------------------------
(* The list of statements *)

\* What the constructors of migrate's statements make are statements.
LEMMA CreateOrIndex ==
  ASSUME NEW t \in Table
  PROVE  Create(t) \in Statement /\ Index(t) \in Statement
  BY DEF Create, Index, Statement, Names

LEMMA EnsureColumn ==
  ASSUME NEW t \in Table, NEW c \in Names
  PROVE  Ensure(t, c) \in Statement
  BY DEF Ensure, Statement

LEMMA SeedOrFill ==
  /\ \A a \in DefaultAliases : Seed(a) \in Statement
  /\ IssueTokens \in Statement /\ FillDates \in Statement
  BY DEF Seed, IssueTokens, FillDates, Statement, Names, Table, AuditColumns

\* Where each statement of migrate is.
LEMMA StatementList ==
  /\ Len(Statements) = 42 /\ \A i \in 1 .. 42 : Statements[i] \in Statement
  /\ Statements[1] = Create("clients") /\ Statements[2] = Ensure("clients", "api_key")
  /\ Statements[3] = Create("client_tokens") /\ Statements[4] = IssueTokens
  /\ Statements[5] = Create("upstreams") /\ Statements[6] = Create("upstream_keys")
  /\ Statements[7] = Create("model_aliases") /\ Statements[8] = Create("upstream_models")
  /\ Statements[9] = Ensure("upstream_models", "max_model_len")
  /\ Statements[10] = Create("upstream_model_capabilities")
  /\ Statements[11] = Create("upstream_discovered_models")
  /\ Statements[12] = Ensure("upstream_discovered_models", "max_model_len")
  /\ Statements[13] = Create("client_model_routes")
  /\ Statements[14] = Create("model_alias_routes") /\ Statements[15] = Seed("llm-model")
  /\ Statements[16] = Seed("multimodal-model")
  /\ Statements[17] = Create("request_audits")
  /\ Statements[18] = Ensure("request_audits", "client_token_id")
  /\ Statements[19] = Ensure("request_audits", "client_token_name")
  /\ Statements[20] = Ensure("request_audits", "completed_date")
  /\ Statements[21] = Ensure("request_audits", "input_tokens")
  /\ Statements[22] = Ensure("request_audits", "output_tokens")
  /\ Statements[23] = Ensure("request_audits", "total_tokens")
  /\ Statements[24] = FillDates /\ Statements[25] = Create("upstream_attempt_audits")
  /\ Statements[26] = Ensure("upstream_attempt_audits", "upstream_content_type")
  /\ Statements[27] = Ensure("upstream_attempt_audits", "upstream_body_bytes")
  /\ Statements[28] = Ensure("upstream_attempt_audits", "upstream_body_hash")
  /\ Statements[29] = Ensure("upstream_attempt_audits", "upstream_body_kind")
  /\ Statements[30] = Create("response_states") /\ Statements[31] = Index("clients")
  /\ Statements[32] = Index("client_tokens") /\ Statements[33] = Index("upstream_keys")
  /\ Statements[34] = Index("model_aliases") /\ Statements[35] = Index("upstream_models")
  /\ Statements[36] = Index("upstream_model_capabilities")
  /\ Statements[37] = Index("upstream_discovered_models")
  /\ Statements[38] = Index("client_model_routes")
  /\ Statements[39] = Index("model_alias_routes")
  /\ Statements[40] = Index("request_audits")
  /\ Statements[41] = Index("upstream_attempt_audits")
  /\ Statements[42] = Index("response_states")
<1>1. /\ Create("clients") \in Statement /\ Ensure("clients", "api_key") \in Statement
      /\ Create("client_tokens") \in Statement /\ IssueTokens \in Statement
      /\ Create("upstreams") \in Statement /\ Create("upstream_keys") \in Statement
      /\ Create("model_aliases") \in Statement /\ Create("upstream_models") \in Statement
      /\ Ensure("upstream_models", "max_model_len") \in Statement
      /\ Create("upstream_model_capabilities") \in Statement
      /\ Create("upstream_discovered_models") \in Statement
      /\ Ensure("upstream_discovered_models", "max_model_len") \in Statement
      /\ Create("client_model_routes") \in Statement
      /\ Create("model_alias_routes") \in Statement /\ Seed("llm-model") \in Statement
      /\ Seed("multimodal-model") \in Statement /\ Create("request_audits") \in Statement
      /\ Ensure("request_audits", "client_token_id") \in Statement
      /\ Ensure("request_audits", "client_token_name") \in Statement
      /\ Ensure("request_audits", "completed_date") \in Statement
      /\ Ensure("request_audits", "input_tokens") \in Statement
      /\ Ensure("request_audits", "output_tokens") \in Statement
      /\ Ensure("request_audits", "total_tokens") \in Statement /\ FillDates \in Statement
      /\ Create("upstream_attempt_audits") \in Statement
      /\ Ensure("upstream_attempt_audits", "upstream_content_type") \in Statement
      /\ Ensure("upstream_attempt_audits", "upstream_body_bytes") \in Statement
      /\ Ensure("upstream_attempt_audits", "upstream_body_hash") \in Statement
      /\ Ensure("upstream_attempt_audits", "upstream_body_kind") \in Statement
      /\ Create("response_states") \in Statement /\ Index("clients") \in Statement
      /\ Index("client_tokens") \in Statement /\ Index("upstream_keys") \in Statement
      /\ Index("model_aliases") \in Statement /\ Index("upstream_models") \in Statement
      /\ Index("upstream_model_capabilities") \in Statement
      /\ Index("upstream_discovered_models") \in Statement
      /\ Index("client_model_routes") \in Statement
      /\ Index("model_alias_routes") \in Statement
      /\ Index("request_audits") \in Statement
      /\ Index("upstream_attempt_audits") \in Statement
      /\ Index("response_states") \in Statement
  BY CreateOrIndex, EnsureColumn, SeedOrFill
     DEF Table, Names, AuditColumns, AttemptColumns, DefaultAliases
<1>2. /\ Len(Statements) = 42
      /\ Statements[1] = Create("clients") /\ Statements[2] = Ensure("clients", "api_key")
      /\ Statements[3] = Create("client_tokens") /\ Statements[4] = IssueTokens
      /\ Statements[5] = Create("upstreams") /\ Statements[6] = Create("upstream_keys")
      /\ Statements[7] = Create("model_aliases")
      /\ Statements[8] = Create("upstream_models")
      /\ Statements[9] = Ensure("upstream_models", "max_model_len")
      /\ Statements[10] = Create("upstream_model_capabilities")
      /\ Statements[11] = Create("upstream_discovered_models")
      /\ Statements[12] = Ensure("upstream_discovered_models", "max_model_len")
      /\ Statements[13] = Create("client_model_routes")
      /\ Statements[14] = Create("model_alias_routes")
      /\ Statements[15] = Seed("llm-model") /\ Statements[16] = Seed("multimodal-model")
      /\ Statements[17] = Create("request_audits")
      /\ Statements[18] = Ensure("request_audits", "client_token_id")
      /\ Statements[19] = Ensure("request_audits", "client_token_name")
      /\ Statements[20] = Ensure("request_audits", "completed_date")
      /\ Statements[21] = Ensure("request_audits", "input_tokens")
      /\ Statements[22] = Ensure("request_audits", "output_tokens")
      /\ Statements[23] = Ensure("request_audits", "total_tokens")
      /\ Statements[24] = FillDates /\ Statements[25] = Create("upstream_attempt_audits")
      /\ Statements[26] = Ensure("upstream_attempt_audits", "upstream_content_type")
      /\ Statements[27] = Ensure("upstream_attempt_audits", "upstream_body_bytes")
      /\ Statements[28] = Ensure("upstream_attempt_audits", "upstream_body_hash")
      /\ Statements[29] = Ensure("upstream_attempt_audits", "upstream_body_kind")
      /\ Statements[30] = Create("response_states") /\ Statements[31] = Index("clients")
      /\ Statements[32] = Index("client_tokens")
      /\ Statements[33] = Index("upstream_keys")
      /\ Statements[34] = Index("model_aliases")
      /\ Statements[35] = Index("upstream_models")
      /\ Statements[36] = Index("upstream_model_capabilities")
      /\ Statements[37] = Index("upstream_discovered_models")
      /\ Statements[38] = Index("client_model_routes")
      /\ Statements[39] = Index("model_alias_routes")
      /\ Statements[40] = Index("request_audits")
      /\ Statements[41] = Index("upstream_attempt_audits")
      /\ Statements[42] = Index("response_states")
  BY DEF Statements
<1>3. \A i \in 1 .. 42 : Statements[i] \in Statement
  BY <1>1, <1>2
<1> QED  BY <1>2, <1>3

\* What a statement of each kind is about.
LEMMA StatementKinds ==
  ASSUME NEW i \in 1 .. 42
  PROVE  /\ Statements[i].op = "ensure" =>
              <<Statements[i].table, Statements[i].name>> \in Column
         /\ Statements[i].op = "index" => Statements[i].table # "upstreams"
         /\ Statements[i].op = "seed" => /\ Statements[i].table = "model_aliases"
                                         /\ Statements[i].name \in DefaultAliases
         /\ Statements[i].op = "tokens" => Statements[i] = IssueTokens
         /\ Statements[i].op = "dates" => Statements[i] = FillDates
<1>1. i \in {1, 3, 5, 6, 7, 8, 10, 11, 13, 14, 17, 25, 30} => Statements[i].op = "create"
  BY StatementList DEF Create
<1>2. /\ i \in {2, 9, 12} \cup 18 .. 23 \cup 26 .. 29 => Statements[i].op = "ensure"
      /\ i \in {2, 9, 12} \cup 18 .. 23 \cup 26 .. 29 =>
           <<Statements[i].table, Statements[i].name>> \in Column
  BY StatementList DEF Ensure, Column, LateColumns, Table, AuditColumns, AttemptColumns
<1>3. i \in 31 .. 42 => Statements[i].op = "index" /\ Statements[i].table # "upstreams"
  BY StatementList DEF Index
<1>4. i \in {15, 16} => /\ Statements[i].op = "seed" /\ Statements[i].table = "model_aliases"
                        /\ Statements[i].name \in DefaultAliases
  BY StatementList DEF Seed, DefaultAliases
<1>5. /\ Statements[4].op = "tokens" /\ Statements[4] = IssueTokens
      /\ Statements[24].op = "dates" /\ Statements[24] = FillDates
  BY StatementList DEF IssueTokens, FillDates
<1>6. i \in {1, 3, 5, 6, 7, 8, 10, 11, 13, 14, 17, 25, 30, 4, 24, 15, 16} \/ i \in 31 .. 42
      \/ i \in {2, 9, 12} \cup 18 .. 23 \cup 26 .. 29
  OBVIOUS
<1> QED  BY <1>1, <1>2, <1>3, <1>4, <1>5, <1>6

\* What is done when a statement of each kind is done.
LEMMA DoneMeans ==
  /\ \A t : Done(Create(t)) <=> t \in db.tables
  /\ \A t, c : Done(Ensure(t, c)) <=> <<t, c>> \in db.columns
  /\ \A t : Done(Index(t)) <=> t \in db.indexed
  /\ \A a : Done(Seed(a)) <=> a \in db.aliases
  /\ Done(IssueTokens) <=> db.tokenless = {}
  /\ Done(FillDates) <=> ~db.undated
  BY DEF Done, Create, Ensure, Index, Seed, IssueTokens, FillDates

\* What a statement of each kind needs.
LEMMA RunsMeans ==
  /\ \A t : Runs(Create(t))
  /\ \A t, c : t \in db.tables => Runs(Ensure(t, c))
  /\ \A t : t \in db.tables /\ t # "request_audits" => Runs(Index(t))
  /\ /\ "request_audits" \in db.tables
     /\ {"request_audits"} \X {"completed_date", "client_token_id"} \subseteq db.columns
     => Runs(Index("request_audits"))
  /\ \A a : "model_aliases" \in db.tables => Runs(Seed(a))
  /\ {"clients", "client_tokens"} \subseteq db.tables /\ <<"clients", "api_key">> \in db.columns
     => Runs(IssueTokens)
  /\ "request_audits" \in db.tables /\ <<"request_audits", "completed_date">> \in db.columns
     => Runs(FillDates)
  BY DEF Runs, TablesOf, ColumnsOf, Create, Ensure, Index, Seed, IssueTokens, FillDates

\* The order of migrate: each statement finds what it names, when those before it are
\* done.
LEMMA OrderOfStatements ==
  ASSUME NEW i \in 1 .. 42, \A j \in 1 .. 42 : j < i => Done(Statements[j])
  PROVE  Runs(Statements[i])
<1>1. /\ i > 1 => "clients" \in db.tables
      /\ i > 2 => <<"clients", "api_key">> \in db.columns
      /\ i > 3 => "client_tokens" \in db.tables
      /\ i > 6 => "upstream_keys" \in db.tables
      /\ i > 7 => "model_aliases" \in db.tables
      /\ i > 8 => "upstream_models" \in db.tables
      /\ i > 10 => "upstream_model_capabilities" \in db.tables
      /\ i > 11 => "upstream_discovered_models" \in db.tables
      /\ i > 13 => "client_model_routes" \in db.tables
      /\ i > 14 => "model_alias_routes" \in db.tables
      /\ i > 17 => "request_audits" \in db.tables
      /\ i > 18 => <<"request_audits", "client_token_id">> \in db.columns
      /\ i > 20 => <<"request_audits", "completed_date">> \in db.columns
      /\ i > 25 => "upstream_attempt_audits" \in db.tables
      /\ i > 30 => "response_states" \in db.tables
  BY StatementList, DoneMeans
<1>2. CASE i \in {1, 3, 5, 6, 7, 8, 10, 11, 13, 14, 17, 25, 30}
  BY <1>2, StatementList, RunsMeans
<1>3. CASE i \in {2, 9, 12} \cup 18 .. 23 \cup 26 .. 29
  BY <1>1, <1>3, StatementList, RunsMeans
<1>4. CASE i \in {4, 15, 16, 24}
  BY <1>1, <1>4, StatementList, RunsMeans
<1>5. CASE i = 40
  <2>1. {"request_audits"} \X {"completed_date", "client_token_id"} \subseteq db.columns
    BY <1>1, <1>5
  <2> QED  BY <1>1, <1>5, <2>1, StatementList, RunsMeans
<1>6. CASE i \in 31 .. 39 \cup {41, 42}
  BY <1>1, <1>6, StatementList, RunsMeans
<1>7. \/ i \in {1, 3, 5, 6, 7, 8, 10, 11, 13, 14, 17, 25, 30} \/ i \in {4, 15, 16, 24}
      \/ i \in {2, 9, 12} \cup 18 .. 23 \cup 26 .. 29 \/ i = 40 \/ i \in 31 .. 39 \cup {41, 42}
  OBVIOUS
<1> QED  BY <1>2, <1>3, <1>4, <1>5, <1>6, <1>7

\* Nothing is missing when all of them are done.
LEMMA StatementsAreComplete ==
  ASSUME TypeOK, \A j \in 1 .. 42 : Done(Statements[j])
  PROVE  /\ db.tables = Table /\ db.columns = Column
         /\ db.indexed = Table \ {"upstreams"}
         /\ db.aliases = DefaultAliases
         /\ db.tokenless = {} /\ ~db.undated
<1>1. db \in Database /\ WellFormed(db)
  BY DEF TypeOK
<1>2. Table \subseteq db.tables
  BY StatementList, DoneMeans DEF Table
<1>3. Column \subseteq db.columns
  BY StatementList, DoneMeans DEF Column, Table, LateColumns, AuditColumns, AttemptColumns
<1>4. Table \ {"upstreams"} \subseteq db.indexed
  BY StatementList, DoneMeans DEF Table
<1>5. DefaultAliases \subseteq db.aliases /\ db.tokenless = {} /\ ~db.undated
  BY StatementList, DoneMeans DEF DefaultAliases
<1> QED  BY <1>1, <1>2, <1>3, <1>4, <1>5 DEF Database, WellFormed

-----------------------------------------------------------------------------
(* The invariant *)

\* A process has done every statement before the one it is at.
DoneSoFar ==
  \A p \in Process : status[p] \in {"opening", "open"} =>
    \A j \in 1 .. 42 : j < step[p] => Done(Statements[j])
\* A process that opens was started; connect returns at the end of the statements.
Started ==
  \A p \in Process :
    /\ status[p] = "opening" => starts[p] > 0
    /\ status[p] = "open" => step[p] = 43
\* Columns are never dropped, so that one that was there, or that a race was lost over,
\* still is.
ColumnsStay == old.columns \subseteq db.columns /\ \A p \in Process : lost[p] \subseteq db.columns
\* What a process did not find in table_info was neither old nor lost, and when it is
\* there now, another process was started.
MissingIsNew ==
  \A p \in Process : missing[p] =>
    /\ Ensured(p) \notin old.columns /\ Ensured(p) \notin lost[p]
    /\ Ensured(p) \in db.columns => \E q \in Process \ {p} : starts[q] > 0
Inv == TypeOK /\ DoneSoFar /\ Started /\ ColumnsStay /\ MissingIsNew

\* What a step never takes back from the database.
Grown ==
  /\ db.tables \subseteq db'.tables /\ db.columns \subseteq db'.columns
  /\ db.indexed \subseteq db'.indexed /\ db.aliases \subseteq db'.aliases
  /\ (db.tokenless = {} => db'.tokenless = {}) /\ (db'.undated => db.undated)

LEMMA DoneStays ==
  ASSUME Grown
  PROVE  \A j \in 1 .. 42 : Done(Statements[j]) => Done(Statements[j])'
  BY DEF Grown, Done

\* The statement a process is at.
LEMMA StatementOf ==
  ASSUME TypeOK, NEW p \in Process
  PROVE  /\ step[p] \in 1 .. 43
         /\ step[p] <= Len(Statements) => /\ step[p] \in 1 .. 42
                                          /\ Statements[step[p]] \in Statement
         /\ missing[p] => /\ status[p] = "opening" /\ step[p] \in 1 .. 42
                          /\ Statements[step[p]] \in Statement
                          /\ Statements[step[p]].op = "ensure" /\ Ensured(p) \in Column
         /\ step[p] <= Len(Statements) /\ Statements[step[p]].op = "ensure" =>
              Ensured(p) \in Column
<1>1. step[p] \in 1 .. 43
  BY StatementList DEF TypeOK
<1>2. ASSUME step[p] <= Len(Statements)
      PROVE  step[p] \in 1 .. 42 /\ Statements[step[p]] \in Statement
  BY <1>1, <1>2, StatementList
<1>3. missing[p] => status[p] = "opening" /\ step[p] <= Len(Statements)
                    /\ Statements[step[p]].op = "ensure"
  BY DEF TypeOK
<1>4. step[p] <= Len(Statements) /\ Statements[step[p]].op = "ensure" => Ensured(p) \in Column
  BY <1>2, StatementKinds DEF Ensured
<1> QED  BY <1>1, <1>2, <1>3, <1>4

\* A new database has what Init says.
LEMMA InitInv == Init => Inv
<1> SUFFICES ASSUME Init PROVE Inv
  OBVIOUS
<1>1. TypeOK
  <2>1. db \in Database /\ WellFormed(db)
    BY MigrationAssumption DEF Init
  <2>2. 0 \in 0 .. MaxStarts /\ 1 \in 1 .. Len(Statements) + 1
    BY MigrationAssumption, StatementList
  <2> QED  BY <2>1, <2>2 DEF Init, TypeOK
<1>2. DoneSoFar /\ Started /\ ColumnsStay /\ MissingIsNew
  BY DEF Init, DoneSoFar, Started, ColumnsStay, MissingIsNew
<1> QED  BY <1>1, <1>2 DEF Inv
-----------------------------------------------------------------------------
(* Steps that leave the database alone: Start, Stop, LoseRace, Open *)

\* Process p is now at its first statement, or it was at its end and is open, and
\* nothing else about the others has changed.
Restarts(p) ==
  /\ UNCHANGED <<db, old>>
  /\ \A q \in Process \ {p} : /\ status'[q] = status[q] /\ step'[q] = step[q]
                              /\ missing'[q] = missing[q] /\ lost'[q] = lost[q]
                              /\ starts'[q] = starts[q]
  /\ ~missing'[p] /\ starts'[p] >= starts[p] /\ (status'[p] = "opening" => starts'[p] > 0)
  /\ lost'[p] \subseteq db.columns
  /\ \/ step'[p] = 1 /\ status'[p] # "open"
     \/ step'[p] = step[p] /\ step[p] = 43 /\ status[p] = "opening" /\ status'[p] = "open"

LEMMA RestartKeeps ==
  ASSUME Inv, TypeOK', NEW p \in Process, Restarts(p)
  PROVE  Inv'
<1>1. UNCHANGED <<db, old>>
  BY DEF Restarts
<1>2. DoneSoFar'
  <2> SUFFICES ASSUME NEW q \in Process, status'[q] \in {"opening", "open"},
                      NEW j \in 1 .. 42, j < step'[q]
               PROVE  Done(Statements[j])'
    BY DEF DoneSoFar
  <2>1. Done(Statements[j])
    BY DEF Inv, DoneSoFar, Restarts
  <2> QED  BY <1>1, <2>1 DEF Done
<1>3. Started'
  BY DEF Inv, Started, Restarts
<1>4. ColumnsStay'
  BY <1>1 DEF Inv, ColumnsStay, Restarts
<1>5. MissingIsNew'
  <2> SUFFICES ASSUME NEW q \in Process, missing'[q]
               PROVE  /\ Ensured(q)' \notin old'.columns /\ Ensured(q)' \notin lost'[q]
                      /\ Ensured(q)' \in db'.columns =>
                           \E r \in Process \ {q} : starts'[r] > 0
    BY DEF MissingIsNew
  <2>1. q # p /\ missing[q] /\ step'[q] = step[q] /\ lost'[q] = lost[q]
    BY DEF Restarts
  <2>2. Ensured(q)' = Ensured(q)
    BY <2>1 DEF Ensured
  <2>3. \A r \in Process : starts[r] > 0 => starts'[r] > 0
    <3>1. \A r \in Process : starts[r] \in Nat /\ starts'[r] \in Nat
      BY MigrationAssumption DEF Inv, TypeOK
    <3> QED  BY <3>1 DEF Restarts
  <2> QED  BY <1>1, <2>1, <2>2, <2>3 DEF Inv, MissingIsNew
<1> QED  BY <1>2, <1>3, <1>4, <1>5 DEF Inv

LEMMA StartKeeps ==
  ASSUME Inv, NEW p \in Process, Start(p)
  PROVE  Inv'
<1>1. TypeOK'
  <2>1. starts[p] + 1 \in 0 .. MaxStarts /\ 1 \in 1 .. Len(Statements) + 1
    BY MigrationAssumption, StatementList DEF Inv, TypeOK, Start
  <2> QED  BY <2>1 DEF Inv, TypeOK, Start
<1>2. Restarts(p)
  <2>1. starts[p] \in Nat
    BY MigrationAssumption DEF Inv, TypeOK
  <2> QED  BY <2>1 DEF Inv, TypeOK, ColumnsStay, Start, Restarts
<1> QED  BY <1>1, <1>2, RestartKeeps

LEMMA StopKeeps ==
  ASSUME Inv, NEW p \in Process, Stop(p)
  PROVE  Inv'
<1>1. TypeOK'
  <2>1. 1 \in 1 .. Len(Statements) + 1
    BY StatementList
  <2> QED  BY <2>1 DEF Inv, TypeOK, Stop
<1>2. Restarts(p)
  <2>1. starts[p] \in Nat
    BY MigrationAssumption DEF Inv, TypeOK
  <2> QED  BY <2>1 DEF Inv, TypeOK, ColumnsStay, Stop, Restarts
<1> QED  BY <1>1, <1>2, RestartKeeps

LEMMA LoseRaceKeeps ==
  ASSUME Inv, NEW p \in Process, LoseRace(p)
  PROVE  Inv'
<1>1. TypeOK'
  <2>1. 1 \in 1 .. Len(Statements) + 1
    BY StatementList
  <2>2. Ensured(p) \in Column
    BY StatementOf DEF Inv, LoseRace
  <2> QED  BY <2>1, <2>2 DEF Inv, TypeOK, LoseRace
<1>2. Restarts(p)
  <2>1. starts[p] \in Nat
    BY MigrationAssumption DEF Inv, TypeOK
  <2>2. Ensured(p) \in db.columns
    BY DEF LoseRace
  <2> QED  BY <2>1, <2>2 DEF Inv, TypeOK, ColumnsStay, LoseRace, Restarts
<1> QED  BY <1>1, <1>2, RestartKeeps

LEMMA OpenKeeps ==
  ASSUME Inv, NEW p \in Process, Open(p)
  PROVE  Inv'
<1>1. step[p] = 43 /\ ~missing[p]
  BY StatementList, StatementOf DEF Open, Inv
<1>2. TypeOK'
  BY <1>1 DEF Inv, TypeOK, Open
<1>3. Restarts(p)
  <2>1. starts[p] \in Nat
    BY MigrationAssumption DEF Inv, TypeOK
  <2> QED  BY <1>1, <2>1 DEF Inv, TypeOK, ColumnsStay, Open, Restarts
<1> QED  BY <1>2, <1>3, RestartKeeps

-----------------------------------------------------------------------------
(* Steps of migrate: CreateTable, Inspect, Alter, Fill *)

\* Process p has done its statement and goes on to the next one, or has read that its
\* column is missing.
Works(p) ==
  /\ Grown /\ UNCHANGED <<old, status, starts, lost>>
  /\ status[p] = "opening" /\ step[p] \in 1 .. 42
  /\ \A q \in Process \ {p} : step'[q] = step[q] /\ missing'[q] = missing[q]
  /\ \/ /\ step'[p] = step[p] + 1 /\ ~missing'[p]
        /\ \A i \in 1 .. 42 : i = step[p] => Done(Statements[i])'
     \/ step'[p] = step[p] /\ Ensured(p) \notin db.columns /\ db' = db

LEMMA WorkKeeps ==
  ASSUME Inv, TypeOK', NEW p \in Process, Works(p)
  PROVE  Inv'
<1>1. UNCHANGED <<old, status, starts, lost>> /\ Grown
  BY DEF Works
<1>2. DoneSoFar'
  <2> SUFFICES ASSUME NEW q \in Process, status'[q] \in {"opening", "open"},
                      NEW j \in 1 .. 42, j < step'[q]
               PROVE  Done(Statements[j])'
    BY DEF DoneSoFar
  <2>1. CASE j < step[q]
    <3>1. Done(Statements[j])
      BY <1>1, <2>1 DEF Inv, DoneSoFar
    <3> QED  BY <1>1, <3>1, DoneStays
  <2>2. CASE ~(j < step[q])
    <3>1. q = p /\ step'[p] = step[p] + 1
      BY <2>2 DEF Works
    <3>2. j = step[p]
      BY <2>2, <3>1 DEF Works
    <3> QED  BY <3>1, <3>2 DEF Works
  <2> QED  BY <2>1, <2>2
<1>3. Started'
  BY <1>1 DEF Inv, Started, Works
<1>4. ColumnsStay'
  BY <1>1 DEF Inv, ColumnsStay, Grown
<1>5. MissingIsNew'
  <2> SUFFICES ASSUME NEW q \in Process, missing'[q]
               PROVE  /\ Ensured(q)' \notin old'.columns /\ Ensured(q)' \notin lost'[q]
                      /\ Ensured(q)' \in db'.columns =>
                           \E r \in Process \ {q} : starts'[r] > 0
    BY DEF MissingIsNew
  <2>1. CASE q = p
    <3>1. step'[p] = step[p] /\ Ensured(p) \notin db.columns /\ db' = db
      BY <2>1 DEF Works
    <3>2. Ensured(p)' = Ensured(p)
      BY <3>1 DEF Ensured
    <3> QED  BY <1>1, <2>1, <3>1, <3>2 DEF Inv, ColumnsStay
  <2>2. CASE q # p
    <3>1. missing[q] /\ step'[q] = step[q]
      BY <2>2 DEF Works
    <3>2. Ensured(q)' = Ensured(q)
      BY <3>1 DEF Ensured
    <3>3. starts[p] > 0
      BY DEF Inv, Started, Works
    <3> QED  BY <1>1, <2>2, <3>1, <3>2, <3>3 DEF Inv, MissingIsNew
  <2> QED  BY <2>1, <2>2
<1> QED  BY <1>2, <1>3, <1>4, <1>5 DEF Inv

\* Where a process may go on to.
LEMMA NextStep ==
  ASSUME TypeOK, NEW p \in Process, NEW ops, At(p, ops)
  PROVE  /\ step[p] \in 1 .. 42 /\ step[p] + 1 \in 1 .. Len(Statements) + 1
         /\ Statements[step[p]] \in Statement /\ ~missing[p] /\ status[p] = "opening"
         /\ Statements[step[p]].op \in ops
  BY StatementList, StatementOf DEF At

LEMMA CreateTableKeeps ==
  ASSUME Inv, NEW p \in Process, CreateTable(p)
  PROVE  Inv'
<1>0. PICK i \in 1 .. 42 : i = step[p]
  BY NextStep DEF Inv, CreateTable
<1> DEFINE s == Statements[i]
<1>1. /\ step[p] \in 1 .. 42 /\ step[p] + 1 \in 1 .. Len(Statements) + 1 /\ s \in Statement
      /\ ~missing[p] /\ status[p] = "opening" /\ s.op = "create"
  BY <1>0, NextStep DEF Inv, CreateTable
<1>2. s.table \in Table
  BY <1>1 DEF Statement
<1>3. /\ CreatedColumns(s.table) \subseteq Column
      /\ \A c \in CreatedColumns(s.table) : c[1] = s.table
  BY <1>2 DEF CreatedColumns, Column
<1>4. db \in Database /\ WellFormed(db)
  BY DEF Inv, TypeOK
<1>5. /\ db' \in Database /\ WellFormed(db') /\ Grown
      /\ s.table \in db'.tables
  <2> HIDE DEF s
  <2>0. db' = IF s.table \in db.tables THEN db
              ELSE [db EXCEPT !.tables = @ \cup {s.table},
                              !.columns = @ \cup CreatedColumns(s.table)]
    BY <1>0 DEF CreateTable, s
  <2>1. CASE s.table \in db.tables
    BY <1>4, <2>0, <2>1 DEF Grown
  <2>2. CASE s.table \notin db.tables
    <3>1. /\ db'.tables = db.tables \cup {s.table} /\ db'.indexed = db.indexed
          /\ db'.columns = db.columns \cup CreatedColumns(s.table)
          /\ db'.aliases = db.aliases /\ db'.tokenless = db.tokenless
          /\ db'.undated = db.undated
      BY <1>4, <2>0, <2>2 DEF Database
    <3>2. db' \in Database
      BY <1>2, <1>3, <1>4, <2>0, <2>2 DEF Database
    <3> QED  BY <1>3, <1>4, <3>1, <3>2 DEF Grown, WellFormed
  <2> QED  BY <2>1, <2>2
<1>6. step' = [step EXCEPT ![p] = @ + 1] /\ UNCHANGED <<old, status, missing, starts, lost>>
  BY DEF CreateTable, Advance
<1>7. TypeOK'
  BY <1>1, <1>5, <1>6 DEF Inv, TypeOK
<1>8. Done(s)'
  BY <1>1, <1>5 DEF Done
<1>9. Works(p)
  BY <1>0, <1>1, <1>5, <1>6, <1>8 DEF Works, Inv, TypeOK
<1> QED  BY <1>7, <1>9, WorkKeeps

LEMMA InspectKeeps ==
  ASSUME Inv, NEW p \in Process, Inspect(p)
  PROVE  Inv'
<1>1. /\ step[p] \in 1 .. 42 /\ step[p] + 1 \in 1 .. Len(Statements) + 1
      /\ ~missing[p] /\ status[p] = "opening" /\ Statements[step[p]].op = "ensure"
  BY NextStep DEF Inv, Inspect
<1>2. UNCHANGED <<db, old, status, starts, lost>> /\ Grown
  BY DEF Inspect, Grown
<1>3. CASE Ensured(p) \in db.columns /\ Advance(p) /\ UNCHANGED missing
  <2>1. TypeOK'
    BY <1>1, <1>2, <1>3 DEF Inv, TypeOK, Advance
  <2>2. ASSUME NEW i \in 1 .. 42, i = step[p]
        PROVE  Done(Statements[i])'
    BY <1>1, <1>2, <1>3, <2>2 DEF Done, Ensured
  <2>3. Works(p)
    BY <1>1, <1>2, <1>3, <2>2 DEF Works, Inv, TypeOK, Advance
  <2> QED  BY <2>1, <2>3, WorkKeeps
<1>4. CASE /\ Ensured(p) \notin db.columns
           /\ missing' = [missing EXCEPT ![p] = TRUE] /\ UNCHANGED step
  <2>1. TypeOK'
    BY <1>1, <1>2, <1>4, StatementList DEF Inv, TypeOK
  <2>2. Works(p)
    BY <1>1, <1>2, <1>4 DEF Works, Inv, TypeOK
  <2> QED  BY <2>1, <2>2, WorkKeeps
<1> QED  BY <1>3, <1>4 DEF Inspect

LEMMA AlterKeeps ==
  ASSUME Inv, NEW p \in Process, Alter(p)
  PROVE  Inv'
<1>0. PICK i \in 1 .. 42 : i = step[p]
  BY StatementOf DEF Inv, Alter
<1> DEFINE s == Statements[i]
<1>1. /\ step[p] \in 1 .. 42 /\ step[p] + 1 \in 1 .. Len(Statements) + 1
      /\ missing[p] /\ status[p] = "opening" /\ s.op = "ensure" /\ Ensured(p) \in Column
  BY <1>0, StatementList, StatementOf DEF Inv, Alter
<1>2. /\ s.table \in db.tables /\ Ensured(p)[1] = s.table
      /\ db' = [db EXCEPT !.columns = @ \cup {Ensured(p)}] /\ Ensured(p) = <<s.table, s.name>>
  BY <1>0 DEF Alter, Ensured
<1>3. db \in Database /\ WellFormed(db)
  BY DEF Inv, TypeOK
<1>4. /\ db'.tables = db.tables /\ db'.indexed = db.indexed /\ db'.aliases = db.aliases
      /\ db'.columns = db.columns \cup {Ensured(p)} /\ db'.tokenless = db.tokenless
      /\ db'.undated = db.undated /\ db' \in Database
  <2> HIDE DEF s
  <2> QED  BY <1>1, <1>2, <1>3 DEF Database
<1>5. WellFormed(db') /\ Grown
  BY <1>2, <1>3, <1>4 DEF WellFormed, Grown
<1>6. /\ step' = [step EXCEPT ![p] = @ + 1] /\ missing' = [missing EXCEPT ![p] = FALSE]
      /\ UNCHANGED <<old, status, starts, lost>>
  BY DEF Alter, Advance
<1>7. TypeOK'
  BY <1>1, <1>4, <1>5, <1>6 DEF Inv, TypeOK
<1>8. Done(s)'
  BY <1>1, <1>2, <1>4 DEF Done
<1>9. Works(p)
  BY <1>0, <1>1, <1>5, <1>6, <1>8 DEF Works, Inv, TypeOK
<1> QED  BY <1>7, <1>9, WorkKeeps

LEMMA FillKeeps ==
  ASSUME Inv, NEW p \in Process, Fill(p)
  PROVE  Inv'
<1>0. PICK i \in 1 .. 42 : i = step[p]
  BY NextStep DEF Inv, Fill
<1> DEFINE s == Statements[i]
<1>1. /\ step[p] \in 1 .. 42 /\ step[p] + 1 \in 1 .. Len(Statements) + 1 /\ s \in Statement
      /\ ~missing[p] /\ status[p] = "opening" /\ s.op \in {"tokens", "dates", "seed", "index"}
  BY <1>0, NextStep DEF Inv, Fill
<1>2. /\ s.op = "seed" => s.table = "model_aliases" /\ s.name \in DefaultAliases
      /\ s.op = "index" => s.table # "upstreams"
  BY <1>1, StatementKinds
<1>3. /\ Runs(s)
      /\ db' = CASE s.op = "tokens" -> [db EXCEPT !.tokenless = {}]
                 [] s.op = "dates" -> [db EXCEPT !.undated = FALSE]
                 [] s.op = "seed" -> [db EXCEPT !.aliases = @ \cup {s.name}]
                 [] s.op = "index" -> [db EXCEPT !.indexed = @ \cup {s.table}]
  BY <1>0 DEF Fill
<1>4. db \in Database /\ WellFormed(db)
  BY DEF Inv, TypeOK
<1>5. db' \in Database /\ WellFormed(db') /\ Grown /\ Done(s)'
  <2> HIDE DEF s
  <2>1. CASE s.op = "tokens"
    <3>1. db' = [db EXCEPT !.tokenless = {}]
      BY <1>3, <2>1
    <3> QED  BY <1>4, <2>1, <3>1 DEF Database, WellFormed, Grown, Done
  <2>2. CASE s.op = "dates"
    <3>1. db' = [db EXCEPT !.undated = FALSE]
      BY <1>3, <2>2
    <3> QED  BY <1>4, <2>2, <3>1 DEF Database, WellFormed, Grown, Done
  <2>3. CASE s.op = "seed"
    <3>1. db' = [db EXCEPT !.aliases = @ \cup {s.name}] /\ "model_aliases" \in db.tables
      BY <1>2, <1>3, <2>3 DEF Runs, TablesOf
    <3> QED  BY <1>2, <1>4, <2>3, <3>1 DEF Database, WellFormed, Grown, Done
  <2>4. CASE s.op = "index"
    <3>1. db' = [db EXCEPT !.indexed = @ \cup {s.table}] /\ s.table \in db.tables
      BY <1>2, <1>3, <2>4 DEF Runs, TablesOf
    <3> QED  BY <1>2, <1>4, <2>4, <3>1 DEF Database, WellFormed, Grown, Done
  <2> QED  BY <1>1, <2>1, <2>2, <2>3, <2>4
<1>6. step' = [step EXCEPT ![p] = @ + 1] /\ UNCHANGED <<old, status, missing, starts, lost>>
  BY DEF Fill, Advance
<1>7. TypeOK'
  BY <1>1, <1>5, <1>6 DEF Inv, TypeOK
<1>8. Works(p)
  BY <1>0, <1>1, <1>5, <1>6 DEF Works, Inv, TypeOK
<1> QED  BY <1>7, <1>8, WorkKeeps
-----------------------------------------------------------------------------
(* The theorems *)

LEMMA NextKeeps == Inv /\ [Next]_vars => Inv'
<1> SUFFICES ASSUME Inv, [Next]_vars PROVE Inv'
  OBVIOUS
<1>1. CASE UNCHANGED vars
  <2>1. TypeOK' /\ Started' /\ ColumnsStay'
    BY <1>1 DEF Inv, TypeOK, Started, ColumnsStay, vars, process
  <2>2. DoneSoFar'
    BY <1>1 DEF Inv, DoneSoFar, Done, vars, process
  <2>3. MissingIsNew'
    BY <1>1 DEF Inv, MissingIsNew, Ensured, vars, process
  <2> QED  BY <2>1, <2>2, <2>3 DEF Inv
<1>2. ASSUME NEW p \in Process,
             \/ Start(p) \/ Stop(p) \/ CreateTable(p) \/ Inspect(p) \/ Alter(p)
             \/ LoseRace(p) \/ Fill(p) \/ Open(p)
      PROVE  Inv'
  BY <1>2, StartKeeps, StopKeeps, CreateTableKeeps, InspectKeeps, AlterKeeps, LoseRaceKeeps,
     FillKeeps, OpenKeeps
<1> QED  BY <1>1, <1>2 DEF Next

LEMMA Invariance == Spec => []Inv
  BY InitInv, NextKeeps, PTL DEF Spec

\* The database, what it was found as, and the processes keep their types: a migration
\* makes nothing that the schema does not have.
THEOREM MigrationTypesCorrect == Spec => []TypeOK
<1>1. Inv => TypeOK
  BY DEF Inv
<1> QED  BY <1>1, Invariance, PTL

\* Every statement of migrate finds the tables and columns that it names, for any
\* processes that migrate at the same time, wherever they stop and start again.
THEOREM EveryStatementRuns == Spec => []StatementsFindWhatTheyName
<1>1. Inv => StatementsFindWhatTheyName
  <2> SUFFICES ASSUME Inv, NEW p \in Process, status[p] = "opening",
                      step[p] <= Len(Statements)
               PROVE  Runs(Statements[step[p]])
    BY DEF StatementsFindWhatTheyName
  <2>1. step[p] \in 1 .. 42
    BY StatementOf DEF Inv
  <2>2. \A j \in 1 .. 42 : j < step[p] => Done(Statements[j])
    BY DEF Inv, DoneSoFar
  <2> QED  BY <2>1, <2>2, OrderOfStatements
<1> QED  BY <1>1, Invariance, PTL

\* Whoever has opened the database has the whole schema, the default aliases, a token
\* for every old client and a date on every old row.
THEOREM OpenedDatabaseIsComplete == Spec => []OpenedIsComplete
<1>1. Inv => OpenedIsComplete
  <2> SUFFICES ASSUME Inv, NEW p \in Process, status[p] = "open"
               PROVE  /\ db.tables = Table /\ db.columns = Column
                      /\ db.indexed = Table \ {"upstreams"}
                      /\ db.aliases = DefaultAliases
                      /\ db.tokenless = {} /\ ~db.undated
    BY DEF OpenedIsComplete
  <2>1. \A j \in 1 .. 42 : Done(Statements[j])
    BY DEF Inv, DoneSoFar, Started
  <2> QED  BY <2>1, StatementsAreComplete DEF Inv
<1> QED  BY <1>1, Invariance, PTL

\* A start fails over a duplicate column only beside another process, and never twice
\* over the same column.
THEOREM RacesLostOnlyOnce == Spec => RacesAreLostOnce
<1> DEFINE Once ==
      \A p \in Process :
        status'[p] = "raced" /\ status[p] # "raced" =>
          /\ Ensured(p) \notin old.columns \cup lost[p]
          /\ \E q \in Process \ {p} : starts[q] > 0
<1>1. Inv /\ [Next]_vars => [Once]_vars
  <2> SUFFICES ASSUME Inv, Next, NEW p \in Process,
                      status'[p] = "raced", status[p] # "raced"
               PROVE  /\ Ensured(p) \notin old.columns \cup lost[p]
                      /\ \E q \in Process \ {p} : starts[q] > 0
    OBVIOUS
  <2>1. LoseRace(p)
    <3>1. PICK r \in Process :
            \/ Start(r) \/ Stop(r) \/ CreateTable(r) \/ Inspect(r) \/ Alter(r)
            \/ LoseRace(r) \/ Fill(r) \/ Open(r)
      BY DEF Next
    <3>2. status \in [Process -> {"down", "opening", "open", "raced"}]
      BY DEF Inv, TypeOK
    <3>3. CASE Start(r)
      BY <3>2, <3>3 DEF Start
    <3>4. CASE Stop(r)
      BY <3>2, <3>4 DEF Stop
    <3>5. CASE CreateTable(r) \/ Inspect(r) \/ Alter(r) \/ Fill(r)
      BY <3>5 DEF CreateTable, Inspect, Alter, Fill
    <3>6. CASE Open(r)
      BY <3>2, <3>6 DEF Open
    <3>7. CASE LoseRace(r)
      <4>1. r = p
        BY <3>2, <3>7 DEF LoseRace
      <4> QED  BY <3>7, <4>1
    <3> QED  BY <3>1, <3>3, <3>4, <3>5, <3>6, <3>7
  <2> QED  BY <2>1 DEF LoseRace, Inv, MissingIsNew
<1> QED  BY <1>1, Invariance, PTL DEF Spec, RacesAreLostOnce
=============================================================================
