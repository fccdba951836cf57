--------------------------- MODULE CircuitBreaker ---------------------------
(***************************************************************************)
(* One CircuitBreaker object called by many goroutines.  Every method of   *)
(* circuit.go holds c.mu from its first read to its last write, so a call  *)
(* is one step; the interleaving of the callers is the order of the steps. *)
(* Nothing ties an answer to the question that preceded it: the failure of *)
(* a request admitted before the breaker opened may be reported while it   *)
(* is open, half-open or closed again, and so may its success.             *)
(***************************************************************************)
EXTENDS Breaker

CONSTANTS
    RawConfigs, \* the provider's circuit: blocks to consider
    Durations,  \* the durations OpenFor is called with (Retry-After, rules)
    MaxTrips,   \* bound on trips (Enable and OnSuccess let them grow forever)
    MaxWindow,  \* bound on the requests counted in one percent window
    MaxKind     \* bound on a per-kind counter

RawConfig == [failureThreshold : Int, cooldown : Int, autoDisableAfter : Int,
              mode : STRING, failurePercent : Int, minRequests : Int,
              allowedFails : Budgets]

ASSUME ConfigsAssumption == RawConfigs \subseteq RawConfig
ASSUME DurationsAssumption == Durations \subseteq Nat
ASSUME BoundsAssumption == MaxTrips \in Nat /\ MaxWindow \in Nat /\ MaxKind \in Nat

VARIABLES
    cfg,    \* the resolved configuration, fixed by NewCircuitBreaker
    cb,     \* the breaker
    hist    \* what has happened to it, which the breaker itself does not know:
            \*   owed      ticks before the latest opening may be probed
            \*   promised  ticks left of the latest duration given to OpenFor
            \*   enabled   Enable was called since the last success
            \*   recent    for each age below Window, the counted failures of that
            \*             age or less

vars == <<cfg, cb, hist>>

Ages == 0 .. Window - 1

History == [owed : Nat, promised : Nat, enabled : BOOLEAN, recent : [Ages -> Nat]]

\* Every component of the state has the type the code declares for it, and a
\* configuration is one NewCircuitBreaker can produce.
TypeOK ==
    /\ cfg \in Config
    /\ cb \in BreakerState
    /\ hist \in History

Init ==
    /\ cfg \in {NewConfig(raw) : raw \in RawConfigs}
    /\ cb = NewBreaker
    /\ hist = [owed |-> 0, promised |-> 0, enabled |-> FALSE,
               recent |-> [a \in Ages |-> 0]]

InBounds ==
    /\ cb.trips < MaxTrips
    /\ cb.winTotal < MaxWindow
    /\ \A k \in Kinds : cb.kindFailures[k] < MaxKind

\* What the latest opening owes after a step to breaker b.
OwedAfter(b) ==
    IF b.state # "open" THEN 0
    ELSE IF b.trips > cb.trips THEN EffectiveCooldown(cfg, b)
    ELSE hist.owed

-----------------------------------------------------------------------------
AllowCall ==
    /\ cb' = Allow(cfg, cb)
    /\ hist' = [hist EXCEPT !.owed = OwedAfter(cb')]
    /\ UNCHANGED cfg

\* A success of any attempt or health probe, and ResetCircuit.
Success ==
    /\ InBounds
    /\ cb' = OnSuccess(cfg, cb)
    /\ hist' = [hist EXCEPT !.owed = 0, !.promised = 0, !.enabled = FALSE]
    /\ UNCHANGED cfg

Failure(kind, counts) ==
    /\ InBounds
    /\ cb' = OnFailureKind(cfg, cb, kind, counts)
    /\ hist' = [hist EXCEPT
                  !.owed = OwedAfter(cb'),
                  !.recent = IF counts /\ cb.state # "disabled" /\ cfg.mode = "percent"
                             THEN [a \in Ages |-> hist.recent[a] + 1] ELSE @]
    /\ UNCHANGED cfg

Postpone(d) ==
    /\ InBounds
    /\ cb' = OpenFor(cfg, cb, d)
    /\ hist' = [hist EXCEPT
                  !.owed = OwedAfter(cb'),
                  !.promised = IF cb'.state = "open" /\ d > 0 THEN d ELSE @]
    /\ UNCHANGED cfg

AdminDisable ==
    /\ cb' = Disable(cb)
    /\ hist' = [hist EXCEPT !.owed = 0, !.promised = 0]
    /\ UNCHANGED cfg

AdminEnable ==
    /\ cb' = Enable(cb)
    /\ hist' = [hist EXCEPT !.owed = 0, !.promised = 0, !.enabled = TRUE]
    /\ UNCHANGED cfg

Tick ==
    /\ cb' = Elapse(cfg, cb)
    /\ hist' = [hist EXCEPT
                  !.owed = Larger(@ - 1, 0), !.promised = Larger(@ - 1, 0),
                  !.recent = [a \in Ages |-> IF a = 0 THEN 0 ELSE hist.recent[a - 1]]]
    /\ UNCHANGED cfg

Next ==
    \/ AllowCall
    \/ Success
    \/ \E kind \in Kinds, counts \in BOOLEAN : Failure(kind, counts)
    \/ \E d \in Durations : Postpone(d)
    \/ AdminDisable
    \/ AdminEnable
    \/ Tick

\* The clock runs, and requests for the provider keep arriving.
Fairness == WF_vars(Tick) /\ WF_vars(AllowCall)

Spec == Init /\ [][Next]_vars

FairSpec == Spec /\ Fairness

-----------------------------------------------------------------------------
\* A breaker that is open or being probed has not used up its auto-disable
\* budget, however the openings were caused: by failures, failed probes, late
\* answers or OpenFor (open() in circuit.go).
TripBudget == BudgetLeft(cfg, cb)

\* In consecutive mode the failure counter and the state agree: below the
\* warning band the breaker is closed, in the band degraded, and it is open or
\* probing only with the threshold reached, although answers arrive late and
\* Enable, OnSuccess and OpenFor all write the counter.
WarningBand == InBand(cfg, cb)

\* The escalating cooldown (effectiveCooldown) needs four failed probe cycles,
\* each of which is a trip: with auto_disable_after at most 5, its default of 3
\* included, the breaker is off before any opening is ever escalated.
EscalationNeedsBudget ==
    (cb.state = "open" /\ cfg.autoDisable <= 5) =>
        EffectiveCooldown(cfg, cb) = BaseCooldown(cfg, cb)

\* Per-kind budgets (allowed_fails): while the breaker carries traffic no kind
\* has used up its budget, unless Enable closed it with the counters standing.
KindBudgets ==
    (PerKind(cfg) /\ cb.state \in {"closed", "degraded"} /\ ~hist.enabled)
        => WithinBudgets(cfg, cb)

\* An open breaker is not probed before the cooldown of its latest opening has
\* passed, whatever opened it last and however often it was re-opened meanwhile
\* (Allow against open, OpenFor and effectiveCooldown).
CooldownHonoured ==
    [][cb.state = "open" /\ cb'.state = "half-open" => hist.owed = 0]_vars

\* The percent policy opens a closed breaker only when at least min_requests
\* failures really happened in the last minute (recordWindow).
RatioFromThisMinute ==
    [][(/\ cfg.mode = "percent" /\ ~PerKind(cfg)
        /\ cb.state = "closed" /\ cb'.trips > cb.trips /\ cb'.customCooldown = 0)
       => hist'.recent[Window - 1] >= cfg.minRequests]_vars

\* While requests keep arriving an open breaker does not stay open for ever: it
\* is probed, disabled, or closed.
OpenIsLeft == (cb.state = "open") ~> (cb.state # "open")

-----------------------------------------------------------------------------
\* What the comments promise and the code does not do.

\* "stays down until Enable", "manual re-enable only" (circuit.go).
DisabledUntilEnabled ==
    [][cb.state = "disabled" /\ cb'.state # "disabled" => hist'.enabled]_vars

\* OpenFor "opens the circuit for a custom duration (e.g. Retry-After from a
\* 429 response) instead of the configured cooldown" (circuit.go).
RetryAfterHonoured ==
    [][cb.state = "open" /\ cb'.state = "half-open" => hist.promised = 0]_vars
=============================================================================
