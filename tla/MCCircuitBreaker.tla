-------------------------- MODULE MCCircuitBreaker --------------------------
(***************************************************************************)
(* TLC instances of CircuitBreaker: the policies a provider can configure. *)
(***************************************************************************)
EXTENDS CircuitBreaker

MCKinds == {"auth", "server"}

Raw(threshold, cooldown, autoDisable) ==
    [failureThreshold |-> threshold, cooldown |-> cooldown,
     autoDisableAfter |-> autoDisable, mode |-> "", failurePercent |-> 0,
     minRequests |-> 0, allowedFails |-> [k \in MCKinds |-> Unlisted]]

\* A breaker with a warning band; one whose budget
\* allows escalation; a percent breaker on defaults; one with per-kind budgets.
MCRawConfigs ==
    {Raw(4, 2, 5), Raw(1, 1, 7),
     [Raw(2, 2, 0) EXCEPT !.mode = "percent", !.minRequests = 2],
     [Raw(2, 2, 3) EXCEPT !.allowedFails["server"] = 1]}
=============================================================================
