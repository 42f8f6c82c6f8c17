------------------------ MODULE ProxyRetryRefinement ------------------------
(* The retry loop implements Failover, its liveness included. *)
EXTENDS ProxyRetry

Stage(r) ==
  CASE result[r].outcome = "success" -> "served"
    [] result[r].outcome \in {"non_retriable_response", "response_conversion_error"} -> "declined"
    [] result[r].outcome \in Refusal \cup {"no_upstream"} -> "refused"
    [] result[r].outcome = "upstream_exhausted" -> "exhausted"
    [] result[r].outcome = "internal_error" -> "aborted"
    [] result[r].outcome = "pending" ->
         IF pc[r] = "dropped" THEN "aborted"
         ELSE IF pc[r] \in {"idle", "admitting", "admitted", "selecting"} THEN "waiting"
         ELSE "trying"

Offered(r) == {selected[r][i] : i \in 1 .. Len(selected[r])}
Missed(r) == {attempts[r][i].candidate :
                i \in {j \in 1 .. Len(attempts[r]) : Failed(attempts[r][j])}}

Abstract == INSTANCE Failover WITH
  stage <- [r \in Request |-> Stage(r)],
  offered <- [r \in Request |-> Offered(r)],
  missed <- [r \in Request |-> Missed(r)]

\* Whatever the interleaving, a request's candidates are fixed when it is
\* offered them, none is tried twice, the first answer is final, and giving up
\* means all of them failed (mod.rs:188-411).
ImplementsFailover == Abstract!Spec

\* ... and once an upstream has been chosen the request comes to an end.
ImplementsFairFailover == Abstract!FairSpec
=============================================================================
