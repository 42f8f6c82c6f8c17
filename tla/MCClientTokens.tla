--------------------------- MODULE MCClientTokens ---------------------------
(* Two clients, three keys, two sessions at once; the numbered labels are *)
(* those of a client's second and third token.                            *)
EXTENDS ClientTokens, TLC

CONSTANTS n1, n2, s1, s2, s3, p1, p2

MCName == {n1, n2}
MCSecret == {s1, s2, s3}
MCSession == {p1, p2}
Symmetry == Permutations(MCName) \cup Permutations(MCSecret) \cup Permutations(MCSession)
=============================================================================
