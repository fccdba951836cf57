--------------------------- MODULE BreakerProofs ---------------------------
(***************************************************************************)
(* What each operation of a circuit breaker preserves, for every           *)
(* configuration and every breaker it may be applied to: the invariant of  *)
(* the breaker record (BreakerInv), and the facts about the result that    *)
(* CircuitBreakerProofs and DispatchProofs cite.                           *)
(***************************************************************************)
EXTENDS Breaker, TLAPS


BreakerInv(c, b) ==
    /\ b \in BreakerState
    /\ BudgetLeft(c, b)
    /\ CyclesAreTrips(b)
    /\ InBand(c, b)

\* The warning band of every configuration lies within 1 .. threshold, and
\* below the threshold where there is a band.
LEMMA BandBounds ==
    ASSUME NEW c \in Config
    PROVE  /\ DegradationThreshold(c) \in Nat \ {0}
           /\ DegradationThreshold(c) <= c.threshold
  BY DEF Config, DegradationThreshold, Smaller, Larger

\* A cooldown is a natural number, and a function of the custom cooldown and
\* the cycle count alone.
LEMMA CooldownNat ==
    ASSUME NEW c \in Config, NEW b \in BreakerState
    PROVE  EffectiveCooldown(c, b) \in Nat
  BY DEF EffectiveCooldown, BaseCooldown, Escalation, Config, BreakerState

\* open() adds a trip and leaves the breaker open below the budget, off at it.
LEMMA OpenResult ==
    ASSUME NEW c \in Config, NEW b \in BreakerState
    PROVE  /\ Open(c, b) \in BreakerState
           /\ Open(c, b).trips = b.trips + 1
           /\ Open(c, b).openCycles = b.openCycles
           /\ Open(c, b).failures = b.failures
           /\ Open(c, b).kindFailures = b.kindFailures
           /\ Open(c, b).age = 0
           /\ Open(c, b).customCooldown = 0
           /\ Open(c, b).state \in {"open", "disabled"}
           /\ Open(c, b).state = "open" => b.trips + 1 < c.autoDisable
  <1>1. b.trips + 1 \in Nat
    BY DEF BreakerState
  <1>2. (IF b.trips + 1 >= c.autoDisable THEN "disabled" ELSE "open") \in States
    BY DEF States
  <1>3. Open(c, b) \in BreakerState
    BY <1>1, <1>2 DEF Open, BreakerState
  <1> QED
    BY <1>3 DEF Open, BreakerState, Config

\* Any opening with the threshold reached keeps the invariant: cycles stay
\* below trips because the trip is counted at the same time.
LEMMA OpenInv ==
    ASSUME NEW c \in Config, NEW b \in BreakerState,
           b.openCycles = 0 \/ b.openCycles <= b.trips,
           (c.mode = "consecutive" /\ ~PerKind(c)) => b.failures >= c.threshold
    PROVE  BreakerInv(c, Open(c, b))
  <1> DEFINE o == Open(c, b)
  <1>1. o \in BreakerState /\ o.trips = b.trips + 1 /\ o.openCycles = b.openCycles
        /\ o.failures = b.failures /\ o.state \in {"open", "disabled"}
        /\ (o.state = "open" => b.trips + 1 < c.autoDisable)
    BY OpenResult
  <1>2. b.trips \in Nat /\ b.openCycles \in Nat
    BY DEF BreakerState
  <1> HIDE DEF o
  <1>3. BudgetLeft(c, o)
    BY <1>1 DEF BudgetLeft
  <1>4. CyclesAreTrips(o)
    BY <1>1, <1>2 DEF CyclesAreTrips
  <1>5. InBand(c, o)
    BY <1>1 DEF InBand
  <1> QED
    BY <1>1, <1>3, <1>4, <1>5 DEF BreakerInv, o

\* A failed probe reopens within the invariant, whether or not the failure
\* rewrote the consecutive counter first.
LEMMA ReopenInv ==
    ASSUME NEW c \in Config, NEW b \in BreakerState, b.state = "half-open",
           b.openCycles = 0 \/ b.openCycles < b.trips, b.trips > 0,
           (c.mode = "consecutive" /\ ~PerKind(c)) => b.failures >= c.threshold
    PROVE  BreakerInv(c, Reopen(c, b))
  <1> DEFINE d == [b EXCEPT !.openCycles = @ + 1]
  <1>1. d \in BreakerState /\ d.openCycles <= d.trips /\ d.failures = b.failures
    BY DEF BreakerState
  <1> HIDE DEF d
  <1>2. BreakerInv(c, Open(c, d))
    BY <1>1, OpenInv
  <1> QED
    BY <1>2 DEF Reopen, d

LEMMA NewBreakerInv ==
    ASSUME NEW c \in Config
    PROVE  BreakerInv(c, NewBreaker)
  BY BandBounds, WindowAssumption
  DEF BreakerInv, NewBreaker, BreakerState, States, NoFailures, BudgetLeft,
      CyclesAreTrips, InBand, Config

\* Counting into the percent window touches nothing but the window.
LEMMA RecordWindowResult ==
    ASSUME NEW b \in BreakerState, NEW success \in BOOLEAN
    PROVE  LET w == RecordWindow(b, success)
           IN  /\ w \in BreakerState
               /\ w.state = b.state /\ w.trips = b.trips /\ w.failures = b.failures
               /\ w.openCycles = b.openCycles /\ w.kindFailures = b.kindFailures
               /\ w.customCooldown = b.customCooldown /\ w.age = b.age
  <1> DEFINE rolled == IF b.winAge >= Window
                       THEN [b EXCEPT !.winAge = 0, !.winTotal = 0, !.winFailures = 0]
                       ELSE b
  <1>1. /\ rolled \in BreakerState
        /\ rolled.state = b.state /\ rolled.trips = b.trips
        /\ rolled.failures = b.failures /\ rolled.openCycles = b.openCycles
        /\ rolled.kindFailures = b.kindFailures
        /\ rolled.customCooldown = b.customCooldown /\ rolled.age = b.age
    BY DEF BreakerState
  <1>2. rolled.winTotal + 1 \in Nat /\ rolled.winFailures + 1 \in Nat
    BY <1>1 DEF BreakerState
  <1>3. RecordWindow(b, success) =
            [rolled EXCEPT !.winTotal = @ + 1,
                           !.winFailures = IF success THEN @ ELSE @ + 1]
    BY DEF RecordWindow
  <1> HIDE DEF rolled
  <1> QED
    BY <1>1, <1>2, <1>3 DEF BreakerState

\* A failure is counted into the running window, or begins a new one.
LEMMA WindowCounts ==
    ASSUME NEW b \in BreakerState, NEW success \in BOOLEAN
    PROVE  LET w == RecordWindow(b, success)
               n == IF success THEN 0 ELSE 1
           IN  /\ b.winAge >= Window => w.winAge = 0 /\ w.winFailures = n
               /\ b.winAge < Window =>
                     w.winAge = b.winAge /\ w.winFailures = b.winFailures + n
  <1> DEFINE n == IF success THEN 0 ELSE 1
             w == RecordWindow(b, success)
             r == IF b.winAge >= Window
                  THEN [b EXCEPT !.winAge = 0, !.winTotal = 0, !.winFailures = 0]
                  ELSE b
  <1>1. b.winAge \in Nat /\ b.winFailures \in Nat /\ Window \in Nat
    BY WindowAssumption DEF BreakerState
  <1>2. /\ r \in BreakerState
        /\ b.winAge >= Window => r.winAge = 0 /\ r.winFailures = 0
        /\ b.winAge < Window => r = b
    <2> DEFINE z == [b EXCEPT !.winAge = 0, !.winTotal = 0, !.winFailures = 0]
    <2>1. z \in BreakerState /\ z.winAge = 0 /\ z.winFailures = 0
      BY DEF BreakerState
    <2>2. r = IF b.winAge >= Window THEN z ELSE b
      OBVIOUS
    <2> HIDE DEF z, r
    <2> QED
      BY <1>1, <2>1, <2>2
  <1>3. w = [r EXCEPT !.winTotal = @ + 1, !.winFailures = IF success THEN @ ELSE @ + 1]
    BY DEF RecordWindow
  <1> HIDE DEF r, w
  <1>4. w.winAge = r.winAge /\ w.winFailures = r.winFailures + n
    <2>1. r.winFailures \in Nat
      BY <1>2 DEF BreakerState
    <2>2. w.winAge = r.winAge /\ w.winFailures = IF success THEN r.winFailures ELSE r.winFailures + 1
      BY <1>2, <1>3 DEF BreakerState
    <2> QED
      BY <2>1, <2>2
  <1>5. /\ b.winAge >= Window => w.winAge = 0 /\ w.winFailures = n
        /\ b.winAge < Window => w.winAge = b.winAge /\ w.winFailures = b.winFailures + n
    BY <1>2, <1>4
  <1> QED
    BY <1>5 DEF w

LEMMA AllowInv ==
    ASSUME NEW c \in Config, NEW b, BreakerInv(c, b)
    PROVE  BreakerInv(c, Allow(c, b))
  BY DEF BreakerInv, Allow, CooledDown, BreakerState, States, BudgetLeft,
         CyclesAreTrips, InBand

LEMMA DisableInv ==
    ASSUME NEW c \in Config, NEW b, BreakerInv(c, b)
    PROVE  BreakerInv(c, Disable(b))
  BY DEF BreakerInv, Disable, BreakerState, States, BudgetLeft, CyclesAreTrips, InBand

LEMMA EnableInv ==
    ASSUME NEW c \in Config, NEW b, BreakerInv(c, b)
    PROVE  BreakerInv(c, Enable(b))
  <1>1. Enable(b) \in BreakerState
    <2>1. "closed" \in States
      BY DEF States
    <2> QED
      BY <2>1 DEF BreakerInv, Enable, BreakerState
  <1>2. Enable(b).state = "closed" /\ Enable(b).failures = 0 /\ Enable(b).openCycles = 0
    BY DEF BreakerInv, BreakerState, Enable
  <1>3. 0 < DegradationThreshold(c)
    BY BandBounds
  <1> QED
    BY <1>1, <1>2, <1>3 DEF BreakerInv, BudgetLeft, CyclesAreTrips, InBand

LEMMA ElapseStep ==
    ASSUME NEW c \in Config, NEW b, BreakerInv(c, b)
    PROVE  LET e == Elapse(c, b)
           IN  /\ BreakerInv(c, e)
               /\ b.state = "open" =>
                     e.age = Smaller(b.age + 1, Larger(b.age, EffectiveCooldown(c, b)))
               /\ e.state = b.state /\ e.customCooldown = b.customCooldown
               /\ e.openCycles = b.openCycles /\ e.kindFailures = b.kindFailures
  <1> DEFINE e == Elapse(c, b)
  <1>1. Smaller(b.age + 1, Larger(b.age, EffectiveCooldown(c, b))) \in Nat
    BY CooldownNat DEF BreakerInv, Smaller, Larger, BreakerState
  <1>2. Smaller(b.winAge + 1, Window) \in Nat
    BY WindowAssumption DEF Smaller, BreakerInv, BreakerState
  <1>3. e \in BreakerState
    BY <1>1, <1>2 DEF BreakerInv, Elapse, BreakerState
  <1>4. /\ b.state = "open" => e.age = Smaller(b.age + 1, Larger(b.age, EffectiveCooldown(c, b)))
        /\ e.state = b.state /\ e.trips = b.trips /\ e.failures = b.failures
        /\ e.openCycles = b.openCycles /\ e.customCooldown = b.customCooldown
        /\ e.kindFailures = b.kindFailures
    BY DEF BreakerInv, Elapse, BreakerState
  <1> QED
    BY <1>3, <1>4 DEF BreakerInv, BudgetLeft, CyclesAreTrips, InBand

\* A success leaves a closed breaker with all consecutive counters at zero.
LEMMA OnSuccessResult ==
    ASSUME NEW c \in Config, NEW b \in BreakerState
    PROVE  LET s == OnSuccess(c, b)
           IN  /\ s \in BreakerState
               /\ s.state = "closed" /\ s.failures = 0 /\ s.openCycles = 0
               /\ s.trips = b.trips
               /\ PerKind(c) => s.kindFailures = NoFailures
  <1> DEFINE w == IF c.mode = "percent" THEN RecordWindow(b, TRUE) ELSE b
  <1>1. w \in BreakerState /\ w.trips = b.trips
    BY RecordWindowResult
  <1> DEFINE kf == IF PerKind(c) THEN NoFailures ELSE w.kindFailures
  <1>2. kf \in [Kinds -> Nat]
    BY <1>1 DEF BreakerState, NoFailures
  <1>3. OnSuccess(c, b) = [w EXCEPT !.state = "closed", !.failures = 0, !.openCycles = 0,
                                    !.customCooldown = 0, !.kindFailures = kf]
    BY DEF OnSuccess, w
  <1>4. PerKind(c) => kf = NoFailures
    OBVIOUS
  <1> HIDE DEF w, kf
  <1>5. "closed" \in States
    BY DEF States
  <1>6. OnSuccess(c, b) \in BreakerState
    <2> DEFINE d == [w EXCEPT !.state = "closed", !.failures = 0, !.openCycles = 0]
    <2>1. d \in BreakerState
      BY <1>1, <1>5 DEF BreakerState
    <2>2. OnSuccess(c, b) = [d EXCEPT !.customCooldown = 0, !.kindFailures = kf]
      BY <1>1, <1>3 DEF BreakerState
    <2> HIDE DEF d
    <2>3. [d EXCEPT !.customCooldown = 0, !.kindFailures = kf] \in BreakerState
      BY <2>1, <1>2 DEF BreakerState
    <2> QED
      BY <2>2, <2>3
  <1>7. /\ OnSuccess(c, b).state = "closed" /\ OnSuccess(c, b).failures = 0
        /\ OnSuccess(c, b).openCycles = 0 /\ OnSuccess(c, b).trips = w.trips
        /\ OnSuccess(c, b).kindFailures = kf
    BY <1>1, <1>3 DEF BreakerState
  <1> QED
    BY <1>1, <1>4, <1>6, <1>7

LEMMA OnSuccessInv ==
    ASSUME NEW c \in Config, NEW b, BreakerInv(c, b)
    PROVE  BreakerInv(c, OnSuccess(c, b))
  <1>1. b \in BreakerState
    BY DEF BreakerInv
  <1>2. 0 < DegradationThreshold(c)
    BY BandBounds
  <1> QED
    BY <1>1, <1>2, OnSuccessResult DEF BreakerInv, BudgetLeft, CyclesAreTrips, InBand

-----------------------------------------------------------------------------
\* One more failure of a kind on its counter; the counters stay naturals.
LEMMA CountedKind ==
    ASSUME NEW b \in BreakerState, NEW kind \in Kinds
    PROVE  LET n == [b EXCEPT !.kindFailures[kind] = @ + 1]
           IN  /\ n \in BreakerState
               /\ n.state = b.state /\ n.trips = b.trips /\ n.openCycles = b.openCycles
               /\ n.failures = b.failures /\ n.age = b.age
               /\ n.customCooldown = b.customCooldown
               /\ n.kindFailures = [b.kindFailures EXCEPT ![kind] = @ + 1]
  <1> DEFINE kf == [b.kindFailures EXCEPT ![kind] = @ + 1]
  <1>1. kf \in [Kinds -> Nat]
    BY DEF BreakerState
  <1>2. [b EXCEPT !.kindFailures[kind] = @ + 1] = [b EXCEPT !.kindFailures = kf]
    BY DEF BreakerState
  <1> HIDE DEF kf
  <1>3. [b EXCEPT !.kindFailures = kf] \in BreakerState
    BY <1>1 DEF BreakerState
  <1>4. LET n == [b EXCEPT !.kindFailures = kf]
        IN  /\ n.state = b.state /\ n.trips = b.trips /\ n.openCycles = b.openCycles
            /\ n.failures = b.failures /\ n.age = b.age
            /\ n.customCooldown = b.customCooldown /\ n.kindFailures = kf
    BY DEF BreakerState
  <1> QED
    BY <1>2, <1>3, <1>4 DEF kf

\* What the failure operators have in common: they open the breaker anew, or
\* leave its opening alone and at most raise the warning.
Opened(b, f) == f.trips = b.trips + 1 /\ f.age = 0 /\ f.state \in {"open", "disabled"}

Untouched(b, f) ==
    /\ f.trips = b.trips /\ f.age = b.age /\ f.openCycles = b.openCycles
    /\ f.customCooldown = b.customCooldown
    /\ f.state = b.state \/ (b.state = "closed" /\ f.state = "degraded")

LEMMA DegradeResult ==
    ASSUME NEW b \in BreakerState
    PROVE  LET d == [b EXCEPT !.state = "degraded"]
           IN  /\ d \in BreakerState /\ d.state = "degraded"
               /\ d.trips = b.trips /\ d.openCycles = b.openCycles
               /\ d.failures = b.failures /\ d.age = b.age
               /\ d.customCooldown = b.customCooldown /\ d.kindFailures = b.kindFailures
  <1>1. "degraded" \in States
    BY DEF States
  <1> QED
    BY <1>1 DEF BreakerState

LEMMA ReopenShape ==
    ASSUME NEW c \in Config, NEW b \in BreakerState
    PROVE  /\ Opened(b, Reopen(c, b))
           /\ Reopen(c, b).kindFailures = b.kindFailures
  <1> DEFINE d == [b EXCEPT !.openCycles = @ + 1]
  <1>1. d \in BreakerState /\ d.trips = b.trips /\ d.kindFailures = b.kindFailures
    BY DEF BreakerState
  <1> HIDE DEF d
  <1>2. /\ Open(c, d).trips = d.trips + 1 /\ Open(c, d).age = 0
        /\ Open(c, d).kindFailures = d.kindFailures
        /\ Open(c, d).state \in {"open", "disabled"}
    BY <1>1, OpenResult
  <1> QED
    BY <1>1, <1>2 DEF Reopen, Opened, d

LEMMA FailConsecutiveStep ==
    ASSUME NEW c \in Config, NEW b, BreakerInv(c, b), NEW kind \in Kinds,
           c.mode = "consecutive", ~PerKind(c), b.state # "disabled"
    PROVE  LET f == FailConsecutive(c, b, kind)
           IN  BreakerInv(c, f) /\ (Opened(b, f) \/ Untouched(b, f))
  <1> DEFINE counted == [b EXCEPT !.failures = @ + 1]
             hopeless == [b EXCEPT !.failures = c.threshold]
  <1>1. b \in BreakerState /\ c.threshold \in Nat \ {0}
    BY DEF BreakerInv, Config
  <1>2. /\ counted \in BreakerState /\ counted.failures = b.failures + 1
        /\ counted.state = b.state /\ counted.trips = b.trips /\ counted.age = b.age
        /\ counted.openCycles = b.openCycles
        /\ counted.customCooldown = b.customCooldown
    BY <1>1 DEF BreakerState
  <1>3. /\ hopeless \in BreakerState /\ hopeless.failures = c.threshold
        /\ hopeless.state = b.state /\ hopeless.trips = b.trips
        /\ hopeless.openCycles = b.openCycles
    BY <1>1 DEF BreakerState
  <1>4. /\ b.failures \in Nat /\ b.trips \in Nat /\ b.openCycles \in Nat
        /\ b.state \in States
    BY <1>1 DEF BreakerState
  <1> HIDE DEF counted, hopeless
  <1>5. CASE kind \in InstantKinds /\ b.state = "half-open"
    <2>1. FailConsecutive(c, b, kind) = Reopen(c, hopeless)
      BY <1>5 DEF FailConsecutive, hopeless
    <2>2. BreakerInv(c, Reopen(c, hopeless))
      BY <1>3, <1>4, <1>1, <1>5, ReopenInv DEF BreakerInv, CyclesAreTrips
    <2> QED
      BY <2>1, <2>2, <1>3, ReopenShape DEF Opened
  <1>6. CASE kind \in InstantKinds /\ b.state # "half-open"
    <2>1. FailConsecutive(c, b, kind) = Open(c, hopeless)
      BY <1>6 DEF FailConsecutive, hopeless
    <2>2. BreakerInv(c, Open(c, hopeless))
      BY <1>3, <1>4, <1>1, OpenInv DEF BreakerInv, CyclesAreTrips
    <2> QED
      BY <2>1, <2>2, <1>3, OpenResult DEF Opened
  <1>7. CASE kind \notin InstantKinds /\ b.state = "half-open"
    <2>1. FailConsecutive(c, b, kind) = Reopen(c, b)
      BY <1>7 DEF FailConsecutive
    <2>2. BreakerInv(c, Reopen(c, b))
      BY <1>1, <1>4, <1>7, ReopenInv DEF BreakerInv, CyclesAreTrips, InBand
    <2> QED
      BY <2>1, <2>2, <1>1, ReopenShape
  <1>8. CASE /\ kind \notin InstantKinds /\ b.state # "half-open"
             /\ counted.failures >= c.threshold
    <2>1. FailConsecutive(c, b, kind) = Open(c, counted)
      BY <1>8 DEF FailConsecutive, counted
    <2>2. BreakerInv(c, Open(c, counted))
      BY <1>2, <1>4, <1>8, OpenInv DEF BreakerInv, CyclesAreTrips
    <2> QED
      BY <2>1, <2>2, <1>2, OpenResult DEF Opened
  <1>9. CASE /\ kind \notin InstantKinds /\ b.state # "half-open"
             /\ ~(counted.failures >= c.threshold)
             /\ b.state = "closed" /\ counted.failures >= DegradationThreshold(c)
    <2> DEFINE d == [counted EXCEPT !.state = "degraded"]
    <2>1. FailConsecutive(c, b, kind) = d
      BY <1>9 DEF FailConsecutive, counted
    <2>2. /\ d \in BreakerState /\ d.state = "degraded" /\ d.failures = counted.failures
          /\ d.trips = counted.trips /\ d.openCycles = counted.openCycles
          /\ d.age = counted.age /\ d.customCooldown = counted.customCooldown
      BY <1>2, DegradeResult
    <2> HIDE DEF d
    <2>3. BreakerInv(c, d)
      BY <2>2, <1>1, <1>2, <1>4, <1>9
      DEF BreakerInv, BudgetLeft, CyclesAreTrips, InBand
    <2> QED
      BY <2>1, <2>2, <2>3, <1>2, <1>9 DEF Untouched
  <1>10. CASE /\ kind \notin InstantKinds /\ b.state # "half-open"
              /\ ~(counted.failures >= c.threshold)
              /\ ~(b.state = "closed" /\ counted.failures >= DegradationThreshold(c))
    <2>1. FailConsecutive(c, b, kind) = counted
      BY <1>10 DEF FailConsecutive, counted
    <2>2. DegradationThreshold(c) \in Nat
      BY BandBounds
    <2>3. BreakerInv(c, counted)
      BY <2>2, <1>1, <1>2, <1>4, <1>10
      DEF BreakerInv, BudgetLeft, CyclesAreTrips, InBand
    <2> QED
      BY <2>1, <2>3, <1>2 DEF Untouched
  <1> QED
    BY <1>5, <1>6, <1>7, <1>8, <1>9, <1>10

LEMMA FailPercentStep ==
    ASSUME NEW c \in Config, NEW b, BreakerInv(c, b), c.mode = "percent",
           b.state # "disabled"
    PROVE  LET f == FailPercent(c, b)
           IN  BreakerInv(c, f) /\ (Opened(b, f) \/ Untouched(b, f))
  <1> DEFINE w == RecordWindow(b, FALSE)
  <1>1. b \in BreakerState
    BY DEF BreakerInv
  <1>2. /\ w \in BreakerState
        /\ w.state = b.state /\ w.trips = b.trips /\ w.failures = b.failures
        /\ w.openCycles = b.openCycles /\ w.customCooldown = b.customCooldown
        /\ w.age = b.age
    BY <1>1, RecordWindowResult
  <1>3. b.trips \in Nat /\ b.openCycles \in Nat
    BY <1>1 DEF BreakerState
  <1> HIDE DEF w
  <1>4. CASE b.state = "half-open"
    <2>1. FailPercent(c, b) = Reopen(c, w)
      BY <1>4 DEF FailPercent, w
    <2>2. BreakerInv(c, Reopen(c, w))
      BY <1>2, <1>3, <1>4, ReopenInv DEF BreakerInv, CyclesAreTrips
    <2> QED
      BY <2>1, <2>2, <1>2, ReopenShape DEF Opened
  <1>5. CASE b.state # "half-open" /\ WindowTrips(c, w)
    <2>1. FailPercent(c, b) = Open(c, w)
      BY <1>5 DEF FailPercent, w
    <2>2. BreakerInv(c, Open(c, w))
      BY <1>2, <1>3, OpenInv DEF BreakerInv, CyclesAreTrips
    <2> QED
      BY <2>1, <2>2, <1>2, OpenResult DEF Opened
  <1>6. CASE b.state # "half-open" /\ ~WindowTrips(c, w)
    <2>1. FailPercent(c, b) = w
      BY <1>6 DEF FailPercent, w
    <2>2. BreakerInv(c, w)
      BY <1>2 DEF BreakerInv, BudgetLeft, CyclesAreTrips, InBand
    <2> QED
      BY <2>1, <2>2, <1>2 DEF Untouched
  <1> QED
    BY <1>4, <1>5, <1>6

\* The per-kind policy, with what it does to the budgets: a breaker that still
\* carries traffic after the failure has used up none of them.
LEMMA FailPerKindStep ==
    ASSUME NEW c \in Config, NEW b, BreakerInv(c, b), NEW kind \in Kinds, PerKind(c),
           b.state # "disabled"
    PROVE  LET f == FailPerKind(c, b, kind)
           IN  /\ BreakerInv(c, f)
               /\ Opened(b, f) \/ Untouched(b, f)
               /\ (/\ b.state \in {"closed", "degraded"} /\ WithinBudgets(c, b)
                   /\ f.state \in {"closed", "degraded"}) => WithinBudgets(c, f)
  <1> DEFINE counted == [b EXCEPT !.kindFailures[kind] = @ + 1]
             n == counted.kindFailures[kind]
             warn == /\ b.state = "closed"
                     /\ \E k \in Kinds : counted.kindFailures[k] >= DegradationThreshold(c)
             d == [counted EXCEPT !.state = "degraded"]
             f == FailPerKind(c, b, kind)
  <1>1. b \in BreakerState
    BY DEF BreakerInv
  <1>2. /\ counted \in BreakerState
        /\ counted.state = b.state /\ counted.trips = b.trips
        /\ counted.openCycles = b.openCycles /\ counted.failures = b.failures
        /\ counted.age = b.age /\ counted.customCooldown = b.customCooldown
        /\ counted.kindFailures = [b.kindFailures EXCEPT ![kind] = @ + 1]
    BY <1>1, CountedKind
  <1>3. b.trips \in Nat /\ b.openCycles \in Nat /\ b.kindFailures \in [Kinds -> Nat]
    BY <1>1 DEF BreakerState
  <1>4. f = IF b.state = "half-open" THEN Reopen(c, b)
            ELSE IF Listed(c, kind)
                 THEN IF n > c.allowedFails[kind] THEN Open(c, counted) ELSE counted
            ELSE IF kind \in InstantKinds \/ n >= c.threshold THEN Open(c, counted)
            ELSE IF warn THEN d
            ELSE counted
    BY DEF FailPerKind
  <1> HIDE DEF counted, f, warn, d
  <1>5. CASE f = Reopen(c, b) /\ b.state = "half-open"
    <2>1. BreakerInv(c, Reopen(c, b))
      BY <1>1, <1>3, <1>5, ReopenInv DEF BreakerInv, CyclesAreTrips
    <2> QED
      BY <2>1, <1>1, <1>5, ReopenShape DEF f
  <1>6. CASE f = Open(c, counted)
    <2>1. BreakerInv(c, Open(c, counted))
      BY <1>2, <1>3, OpenInv DEF BreakerInv, CyclesAreTrips
    <2>2. Opened(b, f) /\ f.state \in {"open", "disabled"}
      BY <1>2, <1>6, OpenResult DEF Opened
    <2> QED
      BY <2>1, <2>2, <1>6 DEF f
  <1>7. ASSUME f = counted \/ (f = d /\ b.state = "closed"),
               IF Listed(c, kind) THEN ~(n > c.allowedFails[kind]) ELSE ~(n >= c.threshold)
        PROVE  /\ BreakerInv(c, f) /\ Untouched(b, f)
               /\ WithinBudgets(c, b) => WithinBudgets(c, f)
    <2>1. /\ f \in BreakerState
          /\ f.trips = b.trips /\ f.openCycles = b.openCycles /\ f.failures = b.failures
          /\ f.age = b.age /\ f.customCooldown = b.customCooldown
          /\ f.state = b.state \/ (b.state = "closed" /\ f.state = "degraded")
          /\ f.kindFailures = [b.kindFailures EXCEPT ![kind] = @ + 1]
      BY <1>2, <1>7, DegradeResult DEF d
    <2>2. BreakerInv(c, f)
      BY <2>1 DEF BreakerInv, BudgetLeft, CyclesAreTrips, InBand
    <2>3. f.kindFailures[kind] = n
      BY <2>1, <1>2
    <2>4. \A k \in Kinds \ {kind} : f.kindFailures[k] = b.kindFailures[k]
      BY <2>1, <1>3
    <2>5. n \in Nat /\ c.threshold \in Nat
      BY <1>2, <1>3 DEF BreakerState, Config
    <2>6. c.allowedFails[kind] \in Int
      BY DEF Config, Budgets, Unlisted
    <2>7. WithinBudgets(c, b) => WithinBudgets(c, f)
      <3> SUFFICES ASSUME WithinBudgets(c, b), NEW k \in Kinds
                   PROVE  IF Listed(c, k) THEN f.kindFailures[k] <= c.allowedFails[k]
                          ELSE f.kindFailures[k] < c.threshold
        BY DEF WithinBudgets
      <3>1. CASE k = kind
        BY <3>1, <2>3, <2>5, <2>6, <1>7
      <3>2. CASE k # kind
        BY <3>2, <2>4 DEF WithinBudgets
      <3> QED
        BY <3>1, <3>2
    <2> QED
      BY <2>1, <2>2, <2>7 DEF Untouched
  <1>8. \/ f = Reopen(c, b) /\ b.state = "half-open"
        \/ f = Open(c, counted)
        \/ /\ f = counted \/ (f = d /\ b.state = "closed")
           /\ IF Listed(c, kind) THEN ~(n > c.allowedFails[kind]) ELSE ~(n >= c.threshold)
    BY <1>4 DEF warn
  <1> QED
    BY <1>5, <1>6, <1>7, <1>8 DEF f

\* OnFailureKind under any policy.
LEMMA OnFailureStep ==
    ASSUME NEW c \in Config, NEW b, BreakerInv(c, b), NEW kind \in Kinds,
           NEW counts \in BOOLEAN
    PROVE  LET f == OnFailureKind(c, b, kind, counts)
           IN  /\ BreakerInv(c, f)
               /\ Opened(b, f) \/ Untouched(b, f)
               /\ (/\ PerKind(c)
                   /\ b.state \in {"closed", "degraded"} /\ WithinBudgets(c, b)
                   /\ f.state \in {"closed", "degraded"}) => WithinBudgets(c, f)
  <1>1. CASE ~counts \/ b.state = "disabled"
    <2>1. OnFailureKind(c, b, kind, counts) = b
      BY <1>1 DEF OnFailureKind
    <2> QED
      BY <2>1 DEF Untouched
  <1>2. CASE counts /\ b.state # "disabled" /\ PerKind(c)
    <2>1. OnFailureKind(c, b, kind, counts) = FailPerKind(c, b, kind)
      BY <1>2 DEF OnFailureKind
    <2> QED
      BY <2>1, <1>2, FailPerKindStep
  <1>3. CASE counts /\ b.state # "disabled" /\ ~PerKind(c) /\ c.mode = "percent"
    <2>1. OnFailureKind(c, b, kind, counts) = FailPercent(c, b)
      BY <1>3 DEF OnFailureKind
    <2> QED
      BY <2>1, <1>3, FailPercentStep
  <1>4. CASE counts /\ b.state # "disabled" /\ ~PerKind(c) /\ c.mode # "percent"
    <2>1. OnFailureKind(c, b, kind, counts) = FailConsecutive(c, b, kind)
      BY <1>4 DEF OnFailureKind
    <2>2. c.mode = "consecutive"
      BY <1>4 DEF Config
    <2> QED
      BY <2>1, <2>2, <1>4, FailConsecutiveStep
  <1> QED
    BY <1>1, <1>2, <1>3, <1>4

\* What a failure does to the percent window: nothing, unless it is counted under
\* the percent policy, and then a closed breaker only opens if the window it has been
\* counted into holds min_requests failures.
LEMMA OnFailureWindow ==
    ASSUME NEW c \in Config, NEW b \in BreakerState, NEW kind \in Kinds, NEW counts \in BOOLEAN
    PROVE  LET f == OnFailureKind(c, b, kind, counts)
               w == RecordWindow(b, FALSE)
           IN  \/ /\ ~(counts /\ b.state # "disabled" /\ c.mode = "percent" /\ ~PerKind(c))
                  /\ f.winAge = b.winAge /\ f.winFailures = b.winFailures
                  /\ c.mode = "percent" /\ ~PerKind(c) => f = b
               \/ /\ counts /\ b.state # "disabled" /\ c.mode = "percent" /\ ~PerKind(c)
                  /\ f.winAge = w.winAge /\ f.winFailures = w.winFailures
                  /\ b.state = "closed" /\ f.trips > b.trips => f.winFailures >= c.minRequests
  <1> DEFINE f == OnFailureKind(c, b, kind, counts)
             w == RecordWindow(b, FALSE)
  <1>1. CASE ~counts \/ b.state = "disabled"
    BY <1>1 DEF OnFailureKind
  <1>2. CASE counts /\ b.state # "disabled" /\ PerKind(c)
    <2>1. f = FailPerKind(c, b, kind)
      BY <1>2 DEF OnFailureKind
    <2> QED
      BY <1>2, <2>1 DEF FailPerKind, Reopen, Open, BreakerState
  <1>3. CASE counts /\ b.state # "disabled" /\ ~PerKind(c) /\ c.mode # "percent"
    <2>1. f = FailConsecutive(c, b, kind)
      BY <1>3 DEF OnFailureKind
    <2> QED
      BY <1>3, <2>1 DEF FailConsecutive, Reopen, Open, BreakerState
  <1>4. CASE counts /\ b.state # "disabled" /\ ~PerKind(c) /\ c.mode = "percent"
    <2>1. f = FailPercent(c, b)
      BY <1>4 DEF OnFailureKind
    <2>2. w \in BreakerState /\ w.trips = b.trips /\ w.winFailures \in Nat
      BY RecordWindowResult DEF BreakerState
    <2>3. f = IF b.state = "half-open" THEN Reopen(c, w)
              ELSE IF WindowTrips(c, w) THEN Open(c, w) ELSE w
      BY <2>1 DEF FailPercent
    <2> HIDE DEF w, f
    <2>4. f.winAge = w.winAge /\ f.winFailures = w.winFailures
      <3>1. /\ Open(c, w).winAge = w.winAge /\ Open(c, w).winFailures = w.winFailures
            /\ Reopen(c, w).winAge = w.winAge /\ Reopen(c, w).winFailures = w.winFailures
        BY <2>2 DEF Reopen, Open, BreakerState
      <3> QED
        BY <2>3, <3>1
    <2>5. ASSUME b.state = "closed", f.trips > b.trips
          PROVE  f.winFailures >= c.minRequests
      <3>1. b.trips \in Nat
        BY DEF BreakerState
      <3>2. WindowTrips(c, w)
        BY <2>2, <2>3, <2>5, <3>1
      <3>3. (c.failurePercent * w.winTotal) \div 100 \in Int /\ c.minRequests \in Nat
        BY <2>2 DEF Config, BreakerState
      <3> QED
        BY <2>2, <2>4, <3>2, <3>3 DEF WindowTrips, Larger
    <2> QED
      BY <1>4, <2>4, <2>5 DEF w, f
  <1> QED
    BY <1>1, <1>2, <1>3, <1>4

\* OpenFor opens like any failure does; its duration is the new cooldown.
LEMMA OpenForStep ==
    ASSUME NEW c \in Config, NEW b, BreakerInv(c, b), NEW d \in Nat
    PROVE  LET o == OpenFor(c, b, d)
           IN  /\ BreakerInv(c, o)
               /\ o = b \/ Opened(b, o)
  <1>1. CASE d <= 0 \/ b.state = "disabled"
    BY <1>1 DEF OpenFor
  <1>2. CASE ~(d <= 0 \/ b.state = "disabled")
    <2> DEFINE p == Open(c, b)
               o == [p EXCEPT !.customCooldown = d, !.failures = c.threshold]
    <2>1. OpenFor(c, b, d) = o
      BY <1>2 DEF OpenFor
    <2>2. b \in BreakerState /\ c.threshold \in Nat
      BY DEF BreakerInv, Config
    <2>3. /\ p \in BreakerState /\ p.trips = b.trips + 1 /\ p.age = 0
          /\ p.openCycles = b.openCycles /\ p.state \in {"open", "disabled"}
          /\ p.state = "open" => b.trips + 1 < c.autoDisable
      BY <2>2, OpenResult
    <2> HIDE DEF p
    <2>4. /\ o \in BreakerState /\ o.trips = p.trips /\ o.age = p.age
          /\ o.openCycles = p.openCycles /\ o.state = p.state
          /\ o.failures = c.threshold
      BY <2>2, <2>3 DEF BreakerState
    <2>5. b.trips \in Nat /\ b.openCycles \in Nat
      BY <2>2 DEF BreakerState
    <2> HIDE DEF o
    <2>6. BreakerInv(c, o)
      BY <2>2, <2>3, <2>4, <2>5 DEF BreakerInv, BudgetLeft, CyclesAreTrips, InBand
    <2> QED
      BY <2>1, <2>3, <2>4, <2>6 DEF Opened
  <1> QED
    BY <1>1, <1>2
=============================================================================
