------------------------------ MODULE Breaker ------------------------------
(***************************************************************************)
(* The per-provider circuit breaker of internal/router/circuit.go as pure  *)
(* operators on a breaker record: every exported method is an operator     *)
(* from a configuration c and a breaker b to the breaker it leaves behind. *)
(* CircuitBreaker.tla runs one breaker under its mutex; Dispatch.tla runs  *)
(* one per provider under the router.                                      *)
(*                                                                         *)
(* Time is counted in ticks.  `openedAt' is kept as the age of the last    *)
(* opening and `winStart' as the age of the percent window; an age stops   *)
(* growing once no comparison in the code can tell it from a larger one.   *)
(***************************************************************************)
EXTENDS Integers

CONSTANTS
    Kinds,      \* the FailureKinds that occur, a set of strings
    Window      \* ticks in the percent mode's 60 second window

ASSUME KindsAssumption == Kinds \subseteq STRING
ASSUME WindowAssumption == Window \in Nat \ {0}

\* Kinds that open the breaker at once: probing with a bad key is pointless.
InstantKinds == {"auth", "permission"}

States == {"closed", "degraded", "open", "half-open", "disabled"}

(***************************************************************************)
(* Configuration.  RawConfig is CircuitConfig as the operator wrote it; an *)
(* absent YAML field is 0.  NewConfig applies NewCircuitBreaker's defaults *)
(* (30 ticks stand for the default 30 s) and yields a member of Config.    *)
(* allowedFails is the map of per-kind budgets, Unlisted where it has no   *)
(* entry.                                                                  *)
(***************************************************************************)
Unlisted == -1
Budgets == [Kinds -> Nat \cup {Unlisted}]

Config == [threshold : Nat \ {0}, cooldown : Nat \ {0}, autoDisable : Nat \ {0},
           mode : {"consecutive", "percent"}, failurePercent : Nat \ {0},
           minRequests : Nat \ {0}, allowedFails : Budgets]

OrDefault(n, d) == IF n <= 0 THEN d ELSE n

NewConfig(raw) ==
    [threshold      |-> OrDefault(raw.failureThreshold, 3),
     cooldown       |-> OrDefault(raw.cooldown, 30),
     autoDisable    |-> OrDefault(raw.autoDisableAfter, 3),
     mode           |-> IF raw.mode = "percent" THEN "percent" ELSE "consecutive",
     failurePercent |-> OrDefault(raw.failurePercent, 50),
     minRequests    |-> OrDefault(raw.minRequests, 5),
     allowedFails   |-> raw.allowedFails]

(***************************************************************************)
(* The breaker itself.                                                     *)
(***************************************************************************)
BreakerState ==
    [state : States, failures : Nat, age : Nat, trips : Nat, openCycles : Nat,
     customCooldown : Nat, winAge : Nat, winTotal : Nat, winFailures : Nat,
     kindFailures : [Kinds -> Nat]]

NoFailures == [k \in Kinds |-> 0]

\* The zero winStart is in the distant past, so the window starts out expired.
NewBreaker ==
    [state |-> "closed", failures |-> 0, age |-> 0, trips |-> 0, openCycles |-> 0,
     customCooldown |-> 0, winAge |-> Window, winTotal |-> 0, winFailures |-> 0,
     kindFailures |-> NoFailures]

Listed(c, kind) == c.allowedFails[kind] # Unlisted

PerKind(c) == \E k \in Kinds : Listed(c, k)

Larger(m, n) == IF m >= n THEN m ELSE n
Smaller(m, n) == IF m <= n THEN m ELSE n

-----------------------------------------------------------------------------
\* A window that never rolls over: failures of any age keep counting.
RecordWindow_NeverRolls(b, success) ==
    [b EXCEPT !.winTotal = @ + 1, !.winFailures = IF success THEN @ ELSE @ + 1]

\* recordWindow's bookkeeping: roll an expired window over, then count.
RecordWindow(b, success) ==
    LET rolled == IF b.winAge >= Window
                  THEN [b EXCEPT !.winAge = 0, !.winTotal = 0, !.winFailures = 0]
                  ELSE b
    IN  [rolled EXCEPT !.winTotal = @ + 1,
                       !.winFailures = IF success THEN @ ELSE @ + 1]

\* recordWindow's verdict on the window it has just counted a failure into.
WindowTrips(c, b) ==
    b.winFailures >= Larger((c.failurePercent * b.winTotal) \div 100, c.minRequests)

\* Failures at which the warning band starts; the threshold itself when there
\* is no band (thresholds below 4).
DegradationThreshold(c) ==
    IF c.threshold < 4 THEN c.threshold
    ELSE Smaller(Larger((c.threshold * 60) \div 100, 2), c.threshold - 1)

\* The cooldown of the last opening, doubled per failed probe cycle after the
\* third, at most sixteenfold.
BaseCooldown(c, b) == IF b.customCooldown > 0 THEN b.customCooldown ELSE c.cooldown

Escalation(n) ==
    CASE n <= 3 -> 1 [] n = 4 -> 2 [] n = 5 -> 4 [] n = 6 -> 8 [] OTHER -> 16

EffectiveCooldown(c, b) == BaseCooldown(c, b) * Escalation(b.openCycles)

-----------------------------------------------------------------------------
\* Allow: what it answers, and the breaker it leaves.
CooledDown(c, b) == b.state = "open" /\ b.age >= EffectiveCooldown(c, b)

Admits(c, b) == b.state \in {"closed", "degraded"} \/ CooledDown(c, b)

\* A refused caller restarts the cooldown.
Allow_RestampsOnRefusal(c, b) ==
    IF CooledDown(c, b) THEN [b EXCEPT !.state = "half-open"]
    ELSE IF b.state = "open" THEN [b EXCEPT !.age = 0] ELSE b

Allow(c, b) == IF CooledDown(c, b) THEN [b EXCEPT !.state = "half-open"] ELSE b

\* Variants of open(): a budget off by one, an opening that keeps the old time
\* stamp, and a cycle counted per opening instead of per failed probe.
Open_BudgetOffByOne(c, b) ==
    [b EXCEPT !.trips = @ + 1, !.age = 0, !.customCooldown = 0,
              !.state = IF b.trips >= c.autoDisable THEN "disabled" ELSE "open"]

Open_KeepsOpenedAt(c, b) ==
    [b EXCEPT !.trips = @ + 1, !.customCooldown = 0,
              !.state = IF b.trips + 1 >= c.autoDisable THEN "disabled" ELSE "open"]

Open_CountsCycle(c, b) ==
    [b EXCEPT !.trips = @ + 1, !.age = 0, !.customCooldown = 0, !.openCycles = @ + 1,
              !.state = IF b.trips + 1 >= c.autoDisable THEN "disabled" ELSE "open"]

\* open(): one more trip; at the auto-disable budget the breaker goes off.
Open(c, b) ==
    [b EXCEPT !.trips = @ + 1, !.age = 0, !.customCooldown = 0,
              !.state = IF b.trips + 1 >= c.autoDisable THEN "disabled" ELSE "open"]

\* A failed probe: one more open -> half-open -> open cycle.
Reopen(c, b) == Open(c, [b EXCEPT !.openCycles = @ + 1])

Disable(b) == [b EXCEPT !.state = "disabled", !.customCooldown = 0]

\* Enable leaves the percent window and the per-kind counters as they are.
Enable(b) ==
    [b EXCEPT !.state = "closed", !.failures = 0, !.trips = 0, !.openCycles = 0,
              !.customCooldown = 0]

\* A success that leaves the failure counters standing.
OnSuccess_KeepsFailures(c, b) ==
    [b EXCEPT !.state = "closed", !.openCycles = 0, !.customCooldown = 0]

\* OnSuccess closes the breaker whatever its state was, disabled included.
OnSuccess(c, b) ==
    LET w == IF c.mode = "percent" THEN RecordWindow(b, TRUE) ELSE b
    IN  [w EXCEPT !.state = "closed", !.failures = 0, !.openCycles = 0,
                  !.customCooldown = 0,
                  !.kindFailures = IF PerKind(c) THEN NoFailures ELSE @]

-----------------------------------------------------------------------------
(***************************************************************************)
(* OnFailureKind for a failure that counts against the provider, one       *)
(* operator per policy.  A breaker with per-kind budgets ignores the mode. *)
(***************************************************************************)
FailPerKind(c, b, kind) ==
    LET counted == [b EXCEPT !.kindFailures[kind] = @ + 1]
        n       == counted.kindFailures[kind]
        warn    == /\ b.state = "closed"
                   /\ \E k \in Kinds : counted.kindFailures[k] >= DegradationThreshold(c)
    IN  IF b.state = "half-open" THEN Reopen(c, b)
        ELSE IF Listed(c, kind)
             THEN IF n > c.allowedFails[kind] THEN Open(c, counted) ELSE counted
        ELSE IF kind \in InstantKinds \/ n >= c.threshold THEN Open(c, counted)
        ELSE IF warn THEN [counted EXCEPT !.state = "degraded"]
        ELSE counted

FailPercent(c, b) ==
    LET w == RecordWindow(b, FALSE)
    IN  IF b.state = "half-open" THEN Reopen(c, w)
        ELSE IF WindowTrips(c, w) THEN Open(c, w)
        ELSE w

FailConsecutive(c, b, kind) ==
    LET counted == [b EXCEPT !.failures = @ + 1]
        hopeless == [b EXCEPT !.failures = c.threshold]
    IN  IF kind \in InstantKinds
        THEN IF b.state = "half-open" THEN Reopen(c, hopeless) ELSE Open(c, hopeless)
        ELSE IF b.state = "half-open" THEN Reopen(c, b)
        ELSE IF counted.failures >= c.threshold THEN Open(c, counted)
        ELSE IF b.state = "closed" /\ counted.failures >= DegradationThreshold(c)
             THEN [counted EXCEPT !.state = "degraded"]
        ELSE counted

\* A failure that the client caused (counts = FALSE) is not looked at, and a
\* disabled breaker counts nothing.
OnFailureKind(c, b, kind, counts) ==
    IF ~counts \/ b.state = "disabled" THEN b
    ELSE IF PerKind(c) THEN FailPerKind(c, b, kind)
    ELSE IF c.mode = "percent" THEN FailPercent(c, b)
    ELSE FailConsecutive(c, b, kind)

\* OpenFor(d): the custom cooldown is set even when open() has just disabled.
OpenFor(c, b, d) ==
    IF d <= 0 \/ b.state = "disabled" THEN b
    ELSE [Open(c, b) EXCEPT !.customCooldown = d, !.failures = c.threshold]

\* OpenUntil, as the ticks left until a probe is allowed; 0 when not open.
OpenUntil(c, b) == IF b.state = "open" THEN EffectiveCooldown(c, b) - b.age ELSE 0

\* One tick of the clock.  openedAt is only read while the breaker is open.
Elapse(c, b) ==
    [b EXCEPT !.age = IF b.state = "open"
                      THEN Smaller(@ + 1, Larger(@, EffectiveCooldown(c, b))) ELSE @,
              !.winAge = Smaller(@ + 1, Window)]

-----------------------------------------------------------------------------
(***************************************************************************)
(* What every operator above preserves, whatever order it is called in.    *)
(***************************************************************************)
\* A breaker that still admits or awaits a probe has auto-disable budget left.
BudgetLeft(c, b) == b.state \in {"open", "half-open"} => b.trips < c.autoDisable

\* Every failed probe cycle is a trip, and so is the opening before the first.
CyclesAreTrips(b) ==
    /\ b.openCycles = 0 \/ b.openCycles < b.trips
    /\ b.state \in {"open", "half-open"} => b.trips > 0

\* The consecutive counter is on the side of each threshold the state says.
InBand(c, b) ==
    (c.mode = "consecutive" /\ ~PerKind(c)) =>
        /\ b.state = "closed" => b.failures < DegradationThreshold(c)
        /\ b.state = "degraded" => /\ b.failures >= DegradationThreshold(c)
                                  /\ b.failures < c.threshold
        /\ b.state \in {"open", "half-open"} => b.failures >= c.threshold

\* No kind has used up its budget.
WithinBudgets(c, b) ==
    \A k \in Kinds : IF Listed(c, k) THEN b.kindFailures[k] <= c.allowedFails[k]
                     ELSE b.kindFailures[k] < c.threshold
=============================================================================
