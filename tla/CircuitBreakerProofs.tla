------------------------ MODULE CircuitBreakerProofs ------------------------
(***************************************************************************)
(* What holds of a circuit breaker for every configuration, every set of   *)
(* failure kinds and every order of calls: the lemmas of BreakerProofs     *)
(* lifted to the behaviours of CircuitBreaker.                             *)
(***************************************************************************)
EXTENDS CircuitBreaker, BreakerProofs

-----------------------------------------------------------------------------
(***************************************************************************)
(* The behaviours of CircuitBreaker.  OwedNow ties the history to the      *)
(* breaker: what an open breaker still owes and the age of its opening add *)
(* up to its cooldown.                                                     *)
(***************************************************************************)
OwedNow == cb.state = "open" => hist.owed + cb.age = EffectiveCooldown(cfg, cb)

IInv ==
    /\ cfg \in Config
    /\ BreakerInv(cfg, cb)
    /\ hist \in History
    /\ KindBudgets
    /\ OwedNow

LEMMA NewConfigType ==
    ASSUME NEW raw \in RawConfigs
    PROVE  NewConfig(raw) \in Config
  BY ConfigsAssumption DEF RawConfig, NewConfig, OrDefault, Config

LEMMA InitInv == Init => IInv
  <1> SUFFICES ASSUME Init PROVE IInv
    OBVIOUS
  <1>1. cfg \in Config
    BY NewConfigType DEF Init
  <1>2. BreakerInv(cfg, cb)
    BY <1>1, NewBreakerInv DEF Init
  <1>3. hist \in History
    BY DEF Init, History
  <1>4. KindBudgets
    <2>1. \A k \in Kinds : cb.kindFailures[k] = 0
      BY DEF Init, NewBreaker, NoFailures
    <2>2. \A k \in Kinds : Listed(cfg, k) => 0 <= cfg.allowedFails[k]
      BY <1>1 DEF Config, Budgets, Listed, Unlisted
    <2>3. 0 < cfg.threshold
      BY <1>1 DEF Config
    <2> QED
      BY <2>1, <2>2, <2>3 DEF KindBudgets, WithinBudgets
  <1>5. OwedNow
    BY DEF Init, OwedNow, NewBreaker
  <1> QED
    BY <1>1, <1>2, <1>3, <1>4, <1>5 DEF IInv

\* The cooldown only depends on the two fields that make it up.
LEMMA SameCooldown ==
    ASSUME NEW c, NEW b, NEW d, b.customCooldown = d.customCooldown,
           b.openCycles = d.openCycles
    PROVE  EffectiveCooldown(c, b) = EffectiveCooldown(c, d)
  BY DEF EffectiveCooldown, BaseCooldown

LEMMA OwedAfterNat ==
    ASSUME cfg \in Config, hist \in History, NEW b \in BreakerState
    PROVE  OwedAfter(b) \in Nat
  BY CooldownNat DEF OwedAfter, History

\* A step that opens the breaker anew, or leaves its opening alone, keeps the
\* account of what is owed.
LEMMA OwedStep ==
    ASSUME IInv, NEW b, b \in BreakerState, Opened(cb, b) \/ Untouched(cb, b),
           b.state = "open"
    PROVE  OwedAfter(b) + b.age = EffectiveCooldown(cfg, b)
  <1>1. cb \in BreakerState /\ cb.trips \in Nat /\ hist.owed \in Nat
    BY DEF IInv, BreakerInv, BreakerState, History
  <1>2. EffectiveCooldown(cfg, b) \in Nat
    BY CooldownNat DEF IInv
  <1>3. CASE Opened(cb, b)
    BY <1>1, <1>2, <1>3 DEF Opened, OwedAfter
  <1>4. CASE Untouched(cb, b)
    <2>1. EffectiveCooldown(cfg, b) = EffectiveCooldown(cfg, cb)
      BY <1>4, SameCooldown DEF Untouched
    <2> QED
      BY <1>1, <1>4, <2>1 DEF Untouched, OwedAfter, IInv, OwedNow
  <1> QED
    BY <1>3, <1>4

LEMMA AllowCallInv == IInv /\ AllowCall => IInv'
  <1> SUFFICES ASSUME IInv, AllowCall PROVE IInv'
    OBVIOUS
  <1>1. cfg' = cfg /\ cb' = Allow(cfg, cb) /\ cfg \in Config /\ cb \in BreakerState
    BY DEF AllowCall, IInv, BreakerInv
  <1>2. BreakerInv(cfg, cb') /\ cb' \in BreakerState
    BY <1>1, AllowInv DEF IInv, BreakerInv
  <1>3. /\ cb' = cb \/ (cb.state = "open" /\ cb'.state = "half-open")
        /\ cb'.kindFailures = cb.kindFailures
    BY <1>1 DEF Allow, CooledDown, BreakerState
  <1>4. hist' \in History /\ hist'.enabled = hist.enabled /\ hist'.owed = OwedAfter(cb')
    BY <1>2, OwedAfterNat DEF AllowCall, IInv, History
  <1>5. KindBudgets'
    BY <1>1, <1>3, <1>4 DEF IInv, KindBudgets, WithinBudgets, PerKind, Listed
  <1>6. OwedNow'
    BY <1>1, <1>2, <1>3, <1>4, OwedStep DEF Untouched, OwedNow
  <1> QED
    BY <1>1, <1>2, <1>4, <1>5, <1>6 DEF IInv

LEMMA SuccessInv == IInv /\ Success => IInv'
  <1> SUFFICES ASSUME IInv, Success PROVE IInv'
    OBVIOUS
  <1>1. cfg' = cfg /\ cb' = OnSuccess(cfg, cb) /\ cfg \in Config /\ cb \in BreakerState
    BY DEF Success, IInv, BreakerInv
  <1>2. BreakerInv(cfg, cb')
    BY <1>1, OnSuccessInv DEF IInv
  <1>3. hist' \in History
    BY DEF Success, IInv, History
  <1>4. cb'.state = "closed" /\ (PerKind(cfg) => cb'.kindFailures = NoFailures)
    BY <1>1, OnSuccessResult
  <1>5. KindBudgets'
    <2>1. \A k \in Kinds : Listed(cfg, k) => 0 <= cfg.allowedFails[k]
      BY <1>1 DEF Config, Budgets, Listed, Unlisted
    <2>2. 0 < cfg.threshold
      BY <1>1 DEF Config
    <2> QED
      BY <1>1, <1>4, <2>1, <2>2
      DEF KindBudgets, WithinBudgets, PerKind, Listed, NoFailures
  <1> QED
    BY <1>1, <1>2, <1>3, <1>4, <1>5 DEF IInv, OwedNow

LEMMA FailureInv ==
    ASSUME IInv, NEW kind \in Kinds, NEW counts \in BOOLEAN, Failure(kind, counts)
    PROVE  IInv'
  <1>1. /\ cfg' = cfg /\ cb' = OnFailureKind(cfg, cb, kind, counts)
        /\ cfg \in Config /\ cb \in BreakerState
    BY DEF Failure, IInv, BreakerInv
  <1>2. /\ BreakerInv(cfg, cb') /\ cb' \in BreakerState
        /\ Opened(cb, cb') \/ Untouched(cb, cb')
        /\ (/\ PerKind(cfg)
            /\ cb.state \in {"closed", "degraded"} /\ WithinBudgets(cfg, cb)
            /\ cb'.state \in {"closed", "degraded"}) => WithinBudgets(cfg, cb')
    BY <1>1, OnFailureStep DEF IInv, BreakerInv
  <1>3. hist' \in History /\ hist'.enabled = hist.enabled /\ hist'.owed = OwedAfter(cb')
    <2> DEFINE r == IF counts /\ cb.state # "disabled" /\ cfg.mode = "percent"
                    THEN [a \in Ages |-> hist.recent[a] + 1] ELSE hist.recent
    <2>1. OwedAfter(cb') \in Nat
      BY <1>1, <1>2, OwedAfterNat DEF IInv
    <2>2. r \in [Ages -> Nat]
      <3>1. hist.recent \in [Ages -> Nat]
        BY DEF IInv, History
      <3>2. [a \in Ages |-> hist.recent[a] + 1] \in [Ages -> Nat]
        BY <3>1
      <3> QED
        BY <3>1, <3>2
    <2>3. hist' = [hist EXCEPT !.owed = OwedAfter(cb'), !.recent = r]
      BY DEF Failure
    <2> HIDE DEF r
    <2> QED
      BY <2>1, <2>2, <2>3 DEF IInv, History
  <1>5. cb'.state \in {"closed", "degraded"} => cb.state \in {"closed", "degraded"}
    BY <1>2 DEF Opened, Untouched
  <1>6. KindBudgets'
    BY <1>1, <1>2, <1>3, <1>5 DEF IInv, KindBudgets, WithinBudgets, PerKind, Listed
  <1>7. OwedNow'
    BY <1>1, <1>2, <1>3, OwedStep DEF OwedNow
  <1> QED
    BY <1>1, <1>2, <1>3, <1>6, <1>7 DEF IInv

LEMMA PostponeInv ==
    ASSUME IInv, NEW d \in Durations, Postpone(d)
    PROVE  IInv'
  <1>1. /\ cfg' = cfg /\ cb' = OpenFor(cfg, cb, d) /\ d \in Nat
        /\ cfg \in Config /\ cb \in BreakerState
    BY DurationsAssumption DEF Postpone, IInv, BreakerInv
  <1>2. /\ BreakerInv(cfg, cb') /\ cb' \in BreakerState
        /\ cb' = cb \/ Opened(cb, cb')
    BY <1>1, OpenForStep DEF IInv, BreakerInv
  <1>3. hist' \in History /\ hist'.enabled = hist.enabled /\ hist'.owed = OwedAfter(cb')
    <2>1. OwedAfter(cb') \in Nat
      BY <1>1, <1>2, OwedAfterNat DEF IInv
    <2> QED
      BY <1>1, <2>1 DEF Postpone, IInv, History
  <1>5. KindBudgets'
    BY <1>1, <1>2, <1>3 DEF Opened, IInv, KindBudgets, WithinBudgets, PerKind, Listed
  <1>6. OwedNow'
    BY <1>1, <1>2, <1>3, OwedStep DEF Untouched, OwedNow
  <1> QED
    BY <1>1, <1>2, <1>3, <1>5, <1>6 DEF IInv

LEMMA AdminInv == IInv /\ (AdminDisable \/ AdminEnable) => IInv'
  <1> SUFFICES ASSUME IInv, AdminDisable \/ AdminEnable PROVE IInv'
    OBVIOUS
  <1>1. cfg' = cfg /\ cfg \in Config /\ cb \in BreakerState
    BY DEF AdminDisable, AdminEnable, IInv, BreakerInv
  <1>2. hist' \in History
    <2>1. hist \in History /\ 0 \in Nat
      BY DEF IInv
    <2>2. [hist EXCEPT !.owed = 0, !.promised = 0] \in History
      BY <2>1 DEF History
    <2>3. CASE AdminDisable
      BY <2>2, <2>3 DEF AdminDisable
    <2>4. CASE AdminEnable
      <3> DEFINE h == [hist EXCEPT !.owed = 0, !.promised = 0]
      <3>1. [h EXCEPT !.enabled = TRUE] \in History
        BY <2>2 DEF History
      <3>2. hist' = [h EXCEPT !.enabled = TRUE]
        BY <2>1, <2>4 DEF AdminEnable, History
      <3> QED
        BY <3>1, <3>2
    <2> QED
      BY <2>3, <2>4
  <1>3. CASE AdminDisable
    <2>1. BreakerInv(cfg, cb') /\ cb'.state = "disabled"
      BY <1>1, <1>3, DisableInv DEF AdminDisable, Disable, IInv, BreakerState
    <2> QED
      BY <1>1, <1>2, <2>1 DEF IInv, KindBudgets, OwedNow
  <1>4. CASE AdminEnable
    <2>1. BreakerInv(cfg, cb') /\ cb'.state = "closed" /\ hist'.enabled
      BY <1>1, <1>4, EnableInv DEF AdminEnable, Enable, IInv, BreakerState, History
    <2> QED
      BY <1>1, <1>2, <2>1 DEF IInv, KindBudgets, OwedNow
  <1> QED
    BY <1>3, <1>4

LEMMA TickInv == IInv /\ Tick => IInv'
  <1> SUFFICES ASSUME IInv, Tick PROVE IInv'
    OBVIOUS
  <1>1. cfg' = cfg /\ cb' = Elapse(cfg, cb) /\ cfg \in Config /\ cb \in BreakerState
    BY DEF Tick, IInv, BreakerInv
  <1>2. /\ BreakerInv(cfg, cb')
        /\ cb.state = "open" =>
              cb'.age = Smaller(cb.age + 1, Larger(cb.age, EffectiveCooldown(cfg, cb)))
        /\ cb'.state = cb.state /\ cb'.customCooldown = cb.customCooldown
        /\ cb'.openCycles = cb.openCycles /\ cb'.kindFailures = cb.kindFailures
    BY <1>1, ElapseStep DEF IInv
  <1>3. hist' \in History /\ hist'.enabled = hist.enabled /\ hist'.owed = Larger(hist.owed - 1, 0)
    <2> DEFINE r == [a \in Ages |-> IF a = 0 THEN 0 ELSE hist.recent[a - 1]]
    <2>1. r \in [Ages -> Nat]
      <3>1. \A a \in Ages : a = 0 \/ a - 1 \in Ages
        BY WindowAssumption DEF Ages
      <3>2. hist.recent \in [Ages -> Nat]
        BY DEF IInv, History
      <3>3. ASSUME NEW a \in Ages
            PROVE  (IF a = 0 THEN 0 ELSE hist.recent[a - 1]) \in Nat
        BY <3>1, <3>2
      <3> QED
        BY <3>3
    <2>2. Larger(hist.owed - 1, 0) \in Nat /\ Larger(hist.promised - 1, 0) \in Nat
      BY DEF Larger, IInv, History
    <2>3. hist' = [hist EXCEPT !.owed = Larger(hist.owed - 1, 0),
                               !.promised = Larger(hist.promised - 1, 0), !.recent = r]
      BY DEF Tick, IInv, History
    <2> HIDE DEF r
    <2> QED
      BY <2>1, <2>2, <2>3 DEF IInv, History
  <1>4. KindBudgets'
    BY <1>1, <1>2, <1>3 DEF IInv, KindBudgets, WithinBudgets, PerKind, Listed
  <1>5. OwedNow'
    <2>1. EffectiveCooldown(cfg, cb') = EffectiveCooldown(cfg, cb)
      BY <1>2, SameCooldown
    <2>2. EffectiveCooldown(cfg, cb) \in Nat /\ cb.age \in Nat /\ hist.owed \in Nat
      BY <1>1, CooldownNat DEF IInv, BreakerState, History
    <2> QED
      BY <1>1, <1>2, <1>3, <2>1, <2>2 DEF IInv, OwedNow, Smaller, Larger
  <1> QED
    BY <1>1, <1>2, <1>3, <1>4, <1>5 DEF IInv

LEMMA StutterInv == IInv /\ UNCHANGED vars => IInv'
  BY DEF vars, IInv, KindBudgets, OwedNow

LEMMA NextInv == IInv /\ [Next]_vars => IInv'
  <1> SUFFICES ASSUME IInv, [Next]_vars PROVE IInv'
    OBVIOUS
  <1>1. CASE AllowCall
    BY <1>1, AllowCallInv
  <1>2. CASE Success
    BY <1>2, SuccessInv
  <1>3. CASE \E kind \in Kinds, counts \in BOOLEAN : Failure(kind, counts)
    BY <1>3, FailureInv
  <1>4. CASE \E d \in Durations : Postpone(d)
    BY <1>4, PostponeInv
  <1>5. CASE AdminDisable \/ AdminEnable
    BY <1>5, AdminInv
  <1>6. CASE Tick
    BY <1>6, TickInv
  <1>7. CASE UNCHANGED vars
    BY <1>7, StutterInv
  <1> QED
    BY <1>1, <1>2, <1>3, <1>4, <1>5, <1>6, <1>7 DEF Next

LEMMA Invariance == Spec => []IInv
  <1>1. Init => IInv
    BY InitInv
  <1>2. IInv /\ [Next]_vars => IInv'
    BY NextInv
  <1> QED
    BY <1>1, <1>2, PTL DEF Spec

-----------------------------------------------------------------------------
(***************************************************************************)
(* The percent window and the history of the last minute: whatever the     *)
(* window holds has happened since it began, and what has happened within  *)
(* one age has happened within every larger one.                           *)
(***************************************************************************)
Cumulative == \A a, b \in Ages : a <= b => hist.recent[a] <= hist.recent[b]

WindowIsRecent ==
    cfg.mode = "percent" /\ cb.winAge \in Ages => cb.winFailures <= hist.recent[cb.winAge]

WindowInv == Cumulative /\ WindowIsRecent

LEMMA WindowInit == Init => WindowInv
  <1> SUFFICES ASSUME Init PROVE WindowInv
    OBVIOUS
  <1>1. cb.winAge = Window /\ Window \notin Ages
    BY WindowAssumption DEF Init, NewBreaker, Ages
  <1>2. \A a \in Ages : hist.recent[a] = 0
    BY DEF Init
  <1> QED
    BY <1>1, <1>2 DEF WindowInv, Cumulative, WindowIsRecent

\* A step that counts nothing and leaves the window alone, or begins a new one.
LEMMA WindowKept ==
    ASSUME WindowInv, IInv, cfg' = cfg, hist'.recent = hist.recent,
           \/ cb'.winAge = cb.winAge /\ cb'.winFailures = cb.winFailures
           \/ cb'.winFailures = 0
    PROVE  WindowInv'
  <1>1. Cumulative'
    BY DEF WindowInv, Cumulative
  <1>2. \A a \in Ages : hist.recent[a] \in Nat
    BY DEF IInv, History
  <1>3. WindowIsRecent'
    BY <1>2 DEF WindowInv, WindowIsRecent
  <1> QED
    BY <1>1, <1>3 DEF WindowInv

LEMMA WindowFailure ==
    ASSUME WindowInv, IInv, NEW kind \in Kinds, NEW counts \in BOOLEAN, Failure(kind, counts)
    PROVE  WindowInv'
  <1> DEFINE counted == counts /\ cb.state # "disabled" /\ cfg.mode = "percent"
             w == RecordWindow(cb, FALSE)
  <1>1. /\ cb' = OnFailureKind(cfg, cb, kind, counts) /\ cfg' = cfg
        /\ cfg \in Config /\ cb \in BreakerState /\ hist \in History
    BY DEF Failure, IInv, BreakerInv
  <1>2. /\ hist.recent \in [Ages -> Nat] /\ cb.winFailures \in Nat /\ cb.winAge \in Nat
    BY <1>1 DEF History, BreakerState
  <1>3. hist'.recent = IF counted THEN [a \in Ages |-> hist.recent[a] + 1] ELSE hist.recent
    BY <1>1 DEF Failure, History
  <1>4. \/ cb'.winAge = cb.winAge /\ cb'.winFailures = cb.winFailures
        \/ counted /\ cb'.winAge = w.winAge /\ cb'.winFailures = w.winFailures
    BY <1>1, OnFailureWindow
  <1>5. CASE ~counted
    BY <1>1, <1>3, <1>4, <1>5, WindowKept
  <1>6. CASE counted
    <2>1. \A a \in Ages : hist'.recent[a] = hist.recent[a] + 1
      BY <1>3, <1>6
    <2>2. Cumulative'
      BY <1>2, <2>1 DEF WindowInv, Cumulative
    <2>3. \/ cb'.winAge = cb.winAge /\ cb'.winFailures <= cb.winFailures + 1
          \/ cb'.winAge = 0 /\ cb'.winFailures = 1
      <3>1. \/ w.winAge = 0 /\ w.winFailures = 1
            \/ w.winAge = cb.winAge /\ w.winFailures = cb.winFailures + 1
        <4>1. /\ cb.winAge >= Window => w.winAge = 0 /\ w.winFailures = 1
              /\ cb.winAge < Window => w.winAge = cb.winAge /\ w.winFailures = cb.winFailures + 1
          BY <1>1, WindowCounts
        <4> HIDE DEF w
        <4> QED
          BY <1>2, <4>1, WindowAssumption
      <3> HIDE DEF w
      <3> QED
        BY <1>2, <1>4, <3>1
    <2>4. cb'.winFailures \in Nat
      BY <1>1, OnFailureStep DEF IInv, BreakerInv, BreakerState
    <2>5. WindowIsRecent'
      BY <1>1, <1>2, <2>1, <2>3, <2>4 DEF WindowInv, WindowIsRecent
    <2> QED
      BY <2>2, <2>5 DEF WindowInv
  <1> QED
    BY <1>5, <1>6

LEMMA WindowTick ==
    ASSUME WindowInv, IInv, Tick
    PROVE  WindowInv'
  <1>1. /\ cb' = Elapse(cfg, cb) /\ cfg' = cfg /\ cb \in BreakerState /\ hist \in History
    BY DEF Tick, IInv, BreakerInv
  <1>2. hist.recent \in [Ages -> Nat] /\ cb.winAge \in Nat /\ Window \in Nat \ {0}
    BY <1>1, WindowAssumption DEF History, BreakerState
  <1>3. \A a \in Ages : hist'.recent[a] = IF a = 0 THEN 0 ELSE hist.recent[a - 1]
    BY <1>1 DEF Tick, History
  <1>4. \A a \in Ages : a \in Nat /\ (a = 0 \/ a - 1 \in Ages)
    BY <1>2 DEF Ages
  <1>5. Cumulative'
    <2> SUFFICES ASSUME NEW a \in Ages, NEW b \in Ages, a <= b
                 PROVE  hist'.recent[a] <= hist'.recent[b]
      BY DEF Cumulative
    <2>1. CASE a = 0 /\ b = 0
      BY <1>3, <2>1
    <2>2. CASE a = 0 /\ b # 0
      BY <1>2, <1>3, <1>4, <2>2
    <2>3. CASE a # 0
      <3>1. b # 0 /\ a - 1 \in Ages /\ b - 1 \in Ages /\ a - 1 <= b - 1
        BY <1>4, <2>3
      <3> QED
        BY <1>3, <2>3, <3>1 DEF WindowInv, Cumulative
    <2> QED
      BY <2>1, <2>2, <2>3
  <1>6. cb'.winFailures = cb.winFailures /\ cb'.winAge = Smaller(cb.winAge + 1, Window)
    BY <1>1 DEF Elapse, BreakerState
  <1>7. WindowIsRecent'
    <2> SUFFICES ASSUME cfg.mode = "percent", cb'.winAge \in Ages
                 PROVE  cb'.winFailures <= hist'.recent[cb'.winAge]
      BY <1>1 DEF WindowIsRecent
    <2>1. cb'.winAge = cb.winAge + 1 /\ cb.winAge \in Ages
      BY <1>2, <1>6 DEF Smaller, Ages
    <2>2. hist'.recent[cb'.winAge] = hist.recent[cb.winAge]
      BY <1>2, <1>3, <2>1
    <2> QED
      BY <1>6, <2>1, <2>2 DEF WindowInv, WindowIsRecent
  <1> QED
    BY <1>5, <1>7 DEF WindowInv

LEMMA WindowStep == IInv /\ WindowInv /\ [Next]_vars => WindowInv'
  <1> SUFFICES ASSUME IInv, WindowInv, [Next]_vars PROVE WindowInv'
    OBVIOUS
  <1>1. cfg \in Config /\ cb \in BreakerState /\ hist \in History
    BY DEF IInv, BreakerInv
  <1>2. CASE AllowCall
    BY <1>1, <1>2, WindowKept DEF AllowCall, Allow, BreakerState, History
  <1>3. CASE Success
    <2>1. /\ cfg' = cfg /\ hist'.recent = hist.recent /\ cb' = OnSuccess(cfg, cb)
      BY <1>1, <1>3 DEF Success, History
    <2>2. CASE cfg.mode = "percent"
      <3> DEFINE w == RecordWindow(cb, TRUE)
      <3>1. w \in BreakerState
        BY <1>1, RecordWindowResult
      <3>2. cb' = [w EXCEPT !.state = "closed", !.failures = 0, !.openCycles = 0,
                           !.customCooldown = 0,
                           !.kindFailures = IF PerKind(cfg) THEN NoFailures ELSE @]
        BY <2>1, <2>2 DEF OnSuccess
      <3> HIDE DEF w
      <3>3. cb'.winAge = w.winAge /\ cb'.winFailures = w.winFailures
        BY <3>1, <3>2 DEF BreakerState
      <3>4. \/ w.winAge = cb.winAge /\ w.winFailures = cb.winFailures
            \/ w.winFailures = 0
        <4>1. cb.winFailures \in Nat /\ cb.winAge \in Nat /\ Window \in Nat
          BY <1>1, WindowAssumption DEF BreakerState
        <4>2. /\ cb.winAge >= Window => w.winAge = 0 /\ w.winFailures = 0
              /\ cb.winAge < Window => w.winAge = cb.winAge /\ w.winFailures = cb.winFailures + 0
          BY <1>1, WindowCounts DEF w
        <4> QED
          BY <4>1, <4>2
      <3> QED
        BY <2>1, <3>3, <3>4, WindowKept
    <2>3. CASE cfg.mode # "percent"
      <3>1. cb'.winAge = cb.winAge /\ cb'.winFailures = cb.winFailures
        BY <1>1, <2>1, <2>3 DEF OnSuccess, BreakerState
      <3> QED
        BY <2>1, <3>1, WindowKept
    <2> QED
      BY <2>2, <2>3
  <1>4. ASSUME NEW kind \in Kinds, NEW counts \in BOOLEAN, Failure(kind, counts)
        PROVE  WindowInv'
    BY <1>4, WindowFailure
  <1>5. ASSUME NEW d \in Durations, Postpone(d)
        PROVE  WindowInv'
    <2>1. cfg' = cfg /\ hist'.recent = hist.recent
      BY <1>1, <1>5 DEF Postpone, History
    <2>2. cb'.winAge = cb.winAge /\ cb'.winFailures = cb.winFailures
      BY <1>1, <1>5 DEF Postpone, OpenFor, Open, BreakerState
    <2> QED
      BY <2>1, <2>2, WindowKept
  <1>6. CASE AdminDisable \/ AdminEnable
    <2>1. cfg' = cfg /\ hist'.recent = hist.recent
      BY <1>1, <1>6 DEF AdminDisable, AdminEnable, History
    <2>2. cb'.winAge = cb.winAge /\ cb'.winFailures = cb.winFailures
      BY <1>1, <1>6 DEF AdminDisable, AdminEnable, Disable, Enable, BreakerState
    <2> QED
      BY <2>1, <2>2, WindowKept
  <1>7. CASE Tick
    BY <1>7, WindowTick
  <1>8. CASE UNCHANGED vars
    BY <1>8, WindowKept DEF vars
  <1> QED
    BY <1>2, <1>3, <1>4, <1>5, <1>6, <1>7, <1>8 DEF Next

LEMMA WindowInvariance == Spec => []WindowInv
  BY WindowInit, WindowStep, Invariance, PTL DEF Spec

-----------------------------------------------------------------------------
\* The state always has the declared types, for every configuration.
THEOREM TypeCorrect == Spec => []TypeOK
  <1>1. IInv => TypeOK
    BY DEF IInv, BreakerInv, TypeOK
  <1> QED
    BY <1>1, Invariance, PTL

\* No order of calls leaves a breaker open or probing with its auto-disable
\* budget used up.
THEOREM TripBudgetHolds == Spec => []TripBudget
  <1>1. IInv => TripBudget
    BY DEF IInv, BreakerInv, TripBudget
  <1> QED
    BY <1>1, Invariance, PTL

\* The consecutive failure counter is always on the side of the thresholds
\* that the state claims.
THEOREM WarningBandHolds == Spec => []WarningBand
  <1>1. IInv => WarningBand
    BY DEF IInv, BreakerInv, WarningBand
  <1> QED
    BY <1>1, Invariance, PTL

\* While the breaker carries traffic no kind has used up its budget, except
\* after Enable.
THEOREM KindBudgetsHold == Spec => []KindBudgets
  <1>1. IInv => KindBudgets
    BY DEF IInv
  <1> QED
    BY <1>1, Invariance, PTL

\* With auto_disable_after at most 5 the escalated cooldown is unreachable.
THEOREM EscalationNeedsBudgetHolds == Spec => []EscalationNeedsBudget
  <1>1. IInv => EscalationNeedsBudget
    <2> SUFFICES ASSUME IInv, cb.state = "open", cfg.autoDisable <= 5
                 PROVE  EffectiveCooldown(cfg, cb) = BaseCooldown(cfg, cb)
      BY DEF EscalationNeedsBudget
    <2>1. cb \in BreakerState /\ cfg \in Config
      BY DEF IInv, BreakerInv
    <2>2. cb.openCycles \in Nat /\ cb.trips \in Nat /\ cfg.autoDisable \in Nat
      BY <2>1 DEF BreakerState, Config
    <2>3. cb.trips < cfg.autoDisable /\ (cb.openCycles = 0 \/ cb.openCycles < cb.trips)
      BY DEF IInv, BreakerInv, BudgetLeft, CyclesAreTrips
    <2>4. cb.openCycles <= 3
      BY <2>2, <2>3
    <2>5. Escalation(cb.openCycles) = 1
      BY <2>4 DEF Escalation
    <2>6. BaseCooldown(cfg, cb) \in Nat
      BY <2>1 DEF BaseCooldown, BreakerState, Config
    <2> QED
      BY <2>5, <2>6 DEF EffectiveCooldown
  <1> QED
    BY <1>1, Invariance, PTL

\* No probe before the cooldown of the latest opening has passed.
THEOREM CooldownHonouredHolds == Spec => CooldownHonoured
  <1> DEFINE P == cb.state = "open" /\ cb'.state = "half-open" => hist.owed = 0
  <1>1. IInv /\ IInv' /\ [Next]_vars => [P]_vars
    <2> SUFFICES ASSUME IInv, IInv', Next, cb.state = "open", cb'.state = "half-open"
                 PROVE  hist.owed = 0
      OBVIOUS
    <2>1. /\ cb \in BreakerState /\ cfg \in Config /\ cb.age \in Nat /\ hist.owed \in Nat
          /\ EffectiveCooldown(cfg, cb) \in Nat
      BY CooldownNat DEF IInv, BreakerInv, BreakerState, History
    <2>2. CASE AllowCall
      <3>1. CooledDown(cfg, cb)
        BY <2>2 DEF AllowCall, Allow
      <3> QED
        BY <3>1, <2>1 DEF CooledDown, IInv, OwedNow
    <2>3. CASE Success
      BY <2>3, <2>1, OnSuccessResult DEF Success
    <2>4. ASSUME NEW kind \in Kinds, NEW counts \in BOOLEAN, Failure(kind, counts)
          PROVE  FALSE
      BY <2>4, OnFailureStep DEF Failure, IInv, Opened, Untouched
    <2>5. ASSUME NEW d \in Durations, Postpone(d) PROVE FALSE
      <3>1. d \in Nat
        BY DurationsAssumption
      <3> QED
        BY <2>5, <3>1, OpenForStep DEF Postpone, IInv, Opened
    <2>6. CASE AdminDisable \/ AdminEnable
      BY <2>6, <2>1 DEF AdminDisable, AdminEnable, Disable, Enable, BreakerState
    <2>7. CASE Tick
      BY <2>7, ElapseStep DEF Tick, IInv
    <2> QED
      BY <2>2, <2>3, <2>4, <2>5, <2>6, <2>7 DEF Next
  <1> QED
    BY <1>1, Invariance, NextInv, PTL DEF Spec, CooldownHonoured

\* A closed breaker of a percent policy is only opened by a failure, or for a duration.
LEMMA RatioStep ==
    ASSUME IInv, IInv', WindowInv', Next, cfg.mode = "percent", ~PerKind(cfg),
           cb.state = "closed", cb'.trips > cb.trips, cb'.customCooldown = 0
    PROVE  hist'.recent[Window - 1] >= cfg.minRequests
  <1>1. cfg \in Config /\ cb \in BreakerState /\ cb.trips \in Nat
    BY DEF IInv, BreakerInv, BreakerState
  <1>2. PICK kind \in Kinds, counts \in BOOLEAN : Failure(kind, counts)
    <2>1. CASE AllowCall
      BY <1>1, <2>1 DEF AllowCall, Allow, BreakerState
    <2>2. CASE Success
      BY <1>1, <2>2, OnSuccessResult DEF Success
    <2>3. ASSUME NEW d \in Durations, Postpone(d) PROVE FALSE
      <3>1. d \in Nat /\ cb' = OpenFor(cfg, cb, d)
        BY <2>3, DurationsAssumption DEF Postpone
      <3>2. d > 0
        BY <1>1, <3>1 DEF OpenFor
      <3>3. cb'.customCooldown = d
        BY <1>1, <3>1, <3>2 DEF OpenFor, Open, BreakerState
      <3> QED
        BY <3>2, <3>3
    <2>4. CASE AdminDisable
      BY <1>1, <2>4 DEF AdminDisable, Disable, BreakerState
    <2>5. CASE AdminEnable
      BY <1>1, <2>5 DEF AdminEnable, Enable, BreakerState
    <2>6. CASE Tick
      BY <1>1, <2>6 DEF Tick, Elapse, BreakerState
    <2> QED
      BY <2>1, <2>2, <2>3, <2>4, <2>5, <2>6 DEF Next
  <1>3. cb' = OnFailureKind(cfg, cb, kind, counts) /\ cfg' = cfg
    BY <1>2 DEF Failure
  <1> DEFINE n == cb'.winFailures
             a == cb'.winAge
             r == hist'.recent
             w == RecordWindow(cb, FALSE)
  <1>4. n >= cfg.minRequests /\ a = w.winAge
    <2>1. \/ cb' = cb
          \/ a = w.winAge /\ (cb.state = "closed" /\ cb'.trips > cb.trips => n >= cfg.minRequests)
      BY <1>1, <1>3, OnFailureWindow
    <2>2. cb' # cb
      BY <1>1
    <2> HIDE DEF a, n, w
    <2> QED
      BY <2>1, <2>2
  <1>5. a \in Ages
    <2>1. cb.winAge \in Nat /\ Window \in Nat \ {0}
      BY <1>1, WindowAssumption DEF BreakerState
    <2>2. \/ cb.winAge >= Window /\ w.winAge = 0
          \/ cb.winAge < Window /\ w.winAge = cb.winAge
      <3>1. /\ cb.winAge >= Window => w.winAge = 0
            /\ cb.winAge < Window => w.winAge = cb.winAge
        BY <1>1, WindowCounts
      <3> HIDE DEF w
      <3> QED
        BY <2>1, <3>1
    <2> HIDE DEF a, w
    <2> QED
      BY <1>4, <2>1, <2>2 DEF Ages
  <1>6. /\ r \in [Ages -> Nat] /\ n \in Nat /\ cfg.minRequests \in Nat
    BY <1>1 DEF IInv, History, BreakerInv, BreakerState, Config
  <1>7. n <= r[a]
    BY <1>3, <1>5 DEF WindowInv, WindowIsRecent
  <1>8. Window - 1 \in Ages /\ a <= Window - 1
    <2> HIDE DEF a
    <2> QED
      BY <1>5, WindowAssumption DEF Ages
  <1>9. r[a] <= r[Window - 1]
    BY <1>5, <1>8 DEF WindowInv, Cumulative
  <1> HIDE DEF n, a, r, w
  <1>10. r[Window - 1] >= cfg.minRequests
    BY <1>4, <1>5, <1>6, <1>7, <1>8, <1>9
  <1> QED
    BY <1>10 DEF r

\* The percent policy never opens a closed breaker on fewer than min_requests
\* failures of the last minute, however many there were before.
THEOREM RatioFromThisMinuteHolds == Spec => RatioFromThisMinute
  <1>1. IInv /\ IInv' /\ WindowInv' /\ [Next]_vars =>
          [(/\ cfg.mode = "percent" /\ ~PerKind(cfg)
            /\ cb.state = "closed" /\ cb'.trips > cb.trips /\ cb'.customCooldown = 0)
           => hist'.recent[Window - 1] >= cfg.minRequests]_vars
    BY RatioStep
  <1> QED
    BY <1>1, Invariance, WindowInvariance, PTL DEF Spec, RatioFromThisMinute
=============================================================================
