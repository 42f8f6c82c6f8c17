-------------------------- MODULE MCResponseStates -------------------------
(***************************************************************************)
(* ResponseStates for TLC: two clients and three requests, enough for a    *)
(* follow-up of a follow-up and for a stranger's; the cleanup can delete   *)
(* an older turn and keep a newer one.                                     *)
(***************************************************************************)
EXTENDS ResponseStates, TLC

Symmetry == Permutations(Client) \cup Permutations(Request)
=============================================================================
