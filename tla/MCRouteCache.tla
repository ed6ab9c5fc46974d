---------------------------- MODULE MCRouteCache ----------------------------
(* Small instances of RouteCache for TLC. *)
EXTENDS RouteCache, TLC

\* One question under both routes, so that a key that loses the route shows.
MCRequests == {<<"china", "a">>, <<"foreign", "a">>}

MCHash == CHOOSE f \in [Requests -> CacheKeys] : \A r, s \in Requests : f[r] = f[s] => r = s

CallerSymmetry == Permutations(Callers)
=============================================================================
