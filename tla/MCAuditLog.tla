----------------------------- MODULE MCAuditLog -----------------------------
(* A small instance of AuditLog: two requests, one token, two keys of one    *)
(* upstream, a retention shorter than the clock's range.                     *)
EXTENDS AuditLog, TLC

CONSTANTS r1, r2, c1, t1, u1, k1, k2

MCClientOf == t1 :> c1
MCUpstreamOf == k1 :> u1 @@ k2 :> u1
MCSymmetry == Permutations({r1, r2}) \cup Permutations({k1, k2})
=============================================================================
