-------------------------- MODULE MCProxyRetryLive --------------------------
(* One request over three candidates and two keys beside a second request on *)
(* the shared key, with successes, retriable answers and transport errors.   *)
EXTENDS ProxyRetryRefinement, TLC

CONSTANTS k1, k2, r1, r2

MCKey == {k1, k2}
MCCandidate == {1, 2, 3}
MCKeyOf == 1 :> k1 @@ 2 :> k2 @@ 3 :> k1
MCTier == 1 :> 10 @@ 2 :> 10 @@ 3 :> 20
MCRequest == {r1, r2}
MCOffers == r1 :> {1, 2, 3} @@ r2 :> {2}
=============================================================================
