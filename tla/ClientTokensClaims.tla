------------------------- MODULE ClientTokensClaims -------------------------
(* What the admin pages and the tests say of clients and tokens and the code *)
(* does not do.                                                              *)
EXTENDS MCClientTokens

\* actions.rs:569, a deleted token is "completely deleted": its key never
\* authenticates again, unless it is saved anew.
DeletedTokensStayDeleted ==
  \A s \in revoked, c \in Client : ~Authenticates(s, c)

\* db/tests.rs:18, "test database should open": while no session is between its
\* statements, the backfill of connect does not fail.
DatabaseOpens == (\A p \in Session : session[p] = Idle) => ~OpenFails

=============================================================================
