-------------------------- MODULE MCRouteFallback --------------------------
(***************************************************************************)
(* TLC instance of RouteFallback: a session pinned by a header on some of  *)
(* the routes, by its prompt prefix on another; fallback routes in cycles, *)
(* and more of them than a request has hops.                              *)
(***************************************************************************)
EXTENDS RouteFallback

\* The primary maps the alias "a" to its upstream model "m".
MCCandidates ==
    << [provider |-> "primary", model |-> "a", upstream |-> "m"],
       [provider |-> "standby", model |-> "m", upstream |-> "m"] >>

Plain == [strategy |-> "failover", cands |-> {2}, fallbacks |-> <<>>, judge |-> 0,
          affinity |-> FALSE, byHeader |-> FALSE, ttl |-> 0, skipRetry |-> FALSE]

MCRoutes ==
    [main  |-> [Plain EXCEPT !.cands = {1, 2}, !.fallbacks = <<"spare", "deep">>,
                             !.affinity = TRUE, !.byHeader = TRUE, !.skipRetry = TRUE],
     spare |-> [Plain EXCEPT !.strategy = "fusion", !.cands = {1, 2},
                             !.fallbacks = <<"main">>,
                             !.affinity = TRUE, !.byHeader = TRUE, !.ttl = 2],
     deep  |-> [Plain EXCEPT !.strategy = "fusion_judge", !.cands = {1, 2}, !.judge = 2,
                             !.fallbacks = <<"far", "last">>,
                             !.affinity = TRUE, !.skipRetry = TRUE],
     far   |-> [Plain EXCEPT !.fallbacks = <<"deep", "main">>],
     last  |-> [Plain EXCEPT !.fallbacks = <<"deep", "main">>]]

MCPassthrough == <<1, 2>>

\* A session that starts at main or at far, where it may come through far, deep,
\* last and main and then has no hop left for spare; and a request without one.
\* Hash 1 is of its header value, 2 of its prompt prefix.
MCAsks ==
    { [model |-> "main", header |-> 1, prefix |-> 0, stream |-> FALSE],
      [model |-> "far", header |-> 1, prefix |-> 2, stream |-> TRUE],
      [model |-> "passthrough", header |-> 0, prefix |-> 0, stream |-> FALSE] }
=============================================================================
