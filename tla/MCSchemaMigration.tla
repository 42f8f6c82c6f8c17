------------------------- MODULE MCSchemaMigration -------------------------
(* SchemaMigration for TLC: a new database, one of an early release, one in *)
(* which an early start broke off after a table or a column, and today's.   *)
EXTENDS SchemaMigration, TLC

CONSTANTS p1, p2, c1

Empty ==
  [tables |-> {}, columns |-> {}, indexed |-> {}, aliases |-> {}, tokenless |-> {},
   undated |-> FALSE]
\* Before tokens, model lengths, dates and usages.
Early ==
  [Empty EXCEPT !.tables = Table \ {"client_tokens", "response_states"},
                !.indexed = {"clients", "upstream_keys"}, !.tokenless = {c1}, !.undated = TRUE]
\* client_tokens was created and not filled.
WithoutTokens ==
  [Early EXCEPT !.tables = @ \cup {"client_tokens"}, !.columns = {<<"clients", "api_key">>}]
\* completed_date was added and not filled.
WithoutDates ==
  [tables |-> Table, columns |-> Column \ ({"request_audits"} \X {"input_tokens", "total_tokens"}),
   indexed |-> Table \ {"upstreams", "request_audits"}, aliases |-> DefaultAliases,
   tokenless |-> {}, undated |-> TRUE]
Today ==
  [tables |-> Table, columns |-> Column, indexed |-> Table \ {"upstreams"},
   aliases |-> DefaultAliases, tokenless |-> {}, undated |-> FALSE]

MCDatabases == {Empty, Early, WithoutTokens, WithoutDates, Today}
Symmetric == Permutations(Process)
=============================================================================
