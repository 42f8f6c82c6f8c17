---------------------------- MODULE MCProxyRetry ----------------------------
(* Two keys of one upstream; the model has two rows there, so the first key *)
(* is offered twice: candidates 1 and 3 share it.                           *)
EXTENDS ProxyRetry, TLC

CONSTANTS k1, k2, r1, r2

MCKey == {k1, k2}
MCCandidate == {1, 2, 3}
MCKeyOf == 1 :> k1 @@ 2 :> k2 @@ 3 :> k1
MCTier == 1 :> 10 @@ 2 :> 10 @@ 3 :> 20
MCRequest == {r1, r2}
MCOffers == r1 :> {1, 3} @@ r2 :> {1, 2}
MCStatus == {200, 401, 501}
MCRetryAfter == {0}
=============================================================================
