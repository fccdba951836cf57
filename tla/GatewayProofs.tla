---------------------------- MODULE GatewayProofs ----------------------------
(***************************************************************************)
(* What holds of the gateway for any number of requests at a time, any     *)
(* limits, dialects and answers.                                           *)
(***************************************************************************)
EXTENDS Gateway, StreamProofs

LEMMA UsageFacts ==
    ASSUME NEW u \in Usages
    PROVE  u.prompt \in Counts /\ u.completion \in Counts /\ Total(u) \in 0 .. MaxTokens
  <1>1. u.prompt \in Counts /\ u.completion \in Counts /\ u.prompt \in Nat /\ u.completion \in Nat
    BY StreamAssumption DEF Usages
  <1>2. Total(u) <= MaxTokens /\ MaxTokens \in Nat
    BY GatewayAssumption
  <1> QED
    BY <1>1, <1>2 DEF Total

-----------------------------------------------------------------------------
(* The invariant                                                           *)

Request ==
    [at : Steps, spent : Nat, today : Nat, first : Cands, by : Cands, tokens : 0 .. MaxTokens,
     old : BOOLEAN, stream : StreamType \cup {NoStream}]

RowType == [enabled : BOOLEAN, spent : Nat, used : Nat, day : Nat]

Windows == 0 .. TokenWindow
Remainders == Nat \cup {Unobserved}
Freshness == 0 .. ObservedFresh

QuotaType ==
    [used : Nat, left : Windows, remaining : Remainders, fresh : Freshness, low : BOOLEAN]

Ages(K) == [K -> 0 .. TTL + 1]

CacheOf(K) == [age : Ages(K), n : Int]

IsStore(c) == \E K \in SUBSET CacheKeys : c \in CacheOf(K)

Typed ==
    /\ setup \in Setups
    /\ row \in RowType /\ day \in Nat /\ row.day <= day /\ day <= setup.days
    /\ buckets \in [rpm : Nat, tpm : Nat]
    /\ buckets.rpm \in Buckets(RpmLimit) /\ buckets.tpm \in Buckets(setup.tpm)
    /\ quota \in QuotaType
    /\ IsStore(cache)
    /\ req \in [Requests -> Request]
    /\ \A q \in Requests : At(q, "relay") => req[q].stream \in StreamType
    /\ arrivals \in 0 .. setup.arrivals /\ upsets \in 0 .. setup.upsets
    /\ delivered \in Nat /\ counted \in Nat /\ uncounted \in Nat /\ lost \in Nat
    /\ recent \in Seq(0 .. Minute)

\* Requests that are bound to pass the quota, and have not been charged to it.
Passes(r) ==
    \/ r.at = "admit" /\ r.spent < setup.quota
    \/ r.at \in {"tokens", "count", "route", "get", "expire", "uncount", "send",
                 "again", "relay", "deduct", "spend"}

Passing == {q \in Requests : Passes(req[q])}

\* When the quota is used up, nobody joins them, and what they may yet cost is bounded.
Quotas ==
    setup.quota > 0 =>
        row.spent + MaxTokens * Cardinality(Passing) < setup.quota + Most(MaxTokens)

\* Requests whose answer has not been charged to the quota.
Owes(r) == r.at \in {"deduct", "spend"}

Owing == {q \in Requests : Owes(req[q])}

\* The sum of what sets of requests cost.
IsSum(f) ==
    /\ f \in [SUBSET Requests -> Nat]
    /\ \A S \in SUBSET Requests :
          /\ f[S] <= MaxTokens * Cardinality(S)
          /\ \A q \in Requests \ S : f[S \cup {q}] = f[S] + req[q].tokens

Charged ==
    \E f \in [SUBSET Requests -> Nat] :
        IsSum(f) /\ delivered <= row.spent + f[Owing] + lost * MaxTokens

\* The same for the daily quota, which is charged at once or not at all.
Counts2(r) ==
    \/ r.at = "admit" /\ r.today < setup.daily
    \/ r.at \in {"tokens", "count"}

Counting == {q \in Requests : Counts2(req[q])}

Daily ==
    setup.daily > 0 =>
        /\ counted = UsedToday + uncounted
        /\ UsedToday + Cardinality(Counting) < setup.daily + Most(1)

\* The bucket and the requests that have passed since any one of the last minute never
\* exceed a full bucket and what has been added since.
Rates ==
    \A i \in DOMAIN recent :
        recent[i] < Minute =>
            i * Minute + buckets.rpm <= RpmLimit * Minute + RpmLimit * recent[i]

IInv == Typed /\ Quotas /\ Charged /\ Daily /\ Rates /\ CacheCounted

-----------------------------------------------------------------------------
(* Sets of requests                                                        *)

LEMMA RequestsFinite ==
    /\ \A S \in SUBSET Requests :
          IsFiniteSet(S) /\ Cardinality(S) \in Nat /\ Cardinality(S) <= Cardinality(Requests)
    /\ Cardinality(Requests) \in Nat
  <1>1. \A S \in SUBSET Requests : IsFiniteSet(S) /\ Cardinality(S) <= Cardinality(Requests)
    BY GatewayAssumption, FS_Subset
  <1>2. \A S \in SUBSET Requests : Cardinality(S) \in Nat
    BY <1>1, FS_CardinalityType
  <1> QED
    BY <1>1, <1>2, GatewayAssumption, FS_CardinalityType

Bit(p) == IF p THEN 1 ELSE 0

\* Sets that differ in one request at most.
LEMMA OneMoves ==
    ASSUME NEW S \in SUBSET Requests, NEW T \in SUBSET Requests, NEW q \in Requests,
           S \ {q} = T \ {q}
    PROVE  Cardinality(T) = Cardinality(S) + Bit(q \in T) - Bit(q \in S)
  <1>1. IsFiniteSet(S) /\ IsFiniteSet(T) /\ Cardinality(S) \in Nat /\ Cardinality(T) \in Nat
    BY RequestsFinite
  <1>2. CASE (q \in S /\ q \in T) \/ (q \notin S /\ q \notin T)
    <2>1. S = T
      BY <1>2
    <2> QED
      BY <1>1, <1>2, <2>1 DEF Bit
  <1>3. CASE q \in S /\ q \notin T
    <2>1. T = S \ {q}
      BY <1>3
    <2>2. Cardinality(T) = Cardinality(S) - 1
      BY <1>1, <1>3, <2>1, FS_RemoveElement
    <2> QED
      BY <1>1, <1>3, <2>2 DEF Bit
  <1>4. CASE q \notin S /\ q \in T
    <2>1. T = S \cup {q}
      BY <1>4
    <2>2. Cardinality(T) = Cardinality(S) + 1
      BY <1>1, <1>4, <2>1, FS_AddElement
    <2> QED
      BY <1>1, <1>4, <2>2 DEF Bit
  <1> QED
    BY <1>2, <1>3, <1>4

\* How the sets of the invariant change with one request.
LEMMA Moves ==
    ASSUME Typed, NEW q \in Requests, NEW r \in Request, req' = [req EXCEPT ![q] = r],
           setup' = setup
    PROVE  /\ Cardinality(Passing') =
                  Cardinality(Passing) + Bit(Passes(r)) - Bit(Passes(req[q]))
           /\ Cardinality(Counting') =
                  Cardinality(Counting) + Bit(Counts2(r)) - Bit(Counts2(req[q]))
           /\ \A steps : InSteps(steps)' =
                  InSteps(steps) + Bit(r.at \in steps) - Bit(req[q].at \in steps)
           /\ Owing' \ {q} = Owing \ {q} /\ (q \in Owing' <=> Owes(r)) /\ (q \in Owing <=> Owes(req[q]))
           /\ {Cardinality(Passing), Cardinality(Passing'), Cardinality(Counting),
               Cardinality(Counting')} \subseteq Nat
  <1>1. req'[q] = r /\ \A p \in Requests \ {q} : req'[p] = req[p]
    BY DEF Typed
  <1>2. /\ Passing' \ {q} = Passing \ {q} /\ (q \in Passing' <=> Passes(r))
        /\ (q \in Passing <=> Passes(req[q]))
        /\ Passing \in SUBSET Requests /\ Passing' \in SUBSET Requests
    BY <1>1 DEF Passing, Passes
  <1>3. /\ Counting' \ {q} = Counting \ {q} /\ (q \in Counting' <=> Counts2(r))
        /\ (q \in Counting <=> Counts2(req[q]))
        /\ Counting \in SUBSET Requests /\ Counting' \in SUBSET Requests
    BY <1>1 DEF Counting, Counts2
  <1>4. /\ Owing' \ {q} = Owing \ {q} /\ (q \in Owing' <=> Owes(r))
        /\ (q \in Owing <=> Owes(req[q]))
    BY <1>1 DEF Owing, Owes
  <1>5. ASSUME NEW steps
        PROVE  InSteps(steps)' = InSteps(steps) + Bit(r.at \in steps) - Bit(req[q].at \in steps)
    <2> DEFINE S == {p \in Requests : req[p].at \in steps}
               T == {p \in Requests : req'[p].at \in steps}
    <2>1. /\ S \ {q} = T \ {q} /\ (q \in T <=> r.at \in steps) /\ (q \in S <=> req[q].at \in steps)
          /\ S \in SUBSET Requests /\ T \in SUBSET Requests
      BY <1>1
    <2>2. InSteps(steps) = Cardinality(S) /\ InSteps(steps)' = Cardinality(T)
      BY DEF InSteps
    <2> HIDE DEF S, T
    <2>3. Cardinality(T) = Cardinality(S) + Bit(q \in T) - Bit(q \in S)
      BY <2>1, OneMoves
    <2> QED
      BY <2>1, <2>2, <2>3 DEF Bit
  <1>6. Cardinality(Passing') = Cardinality(Passing) + Bit(Passes(r)) - Bit(Passes(req[q]))
    <2>1. Cardinality(Passing') = Cardinality(Passing) + Bit(q \in Passing') - Bit(q \in Passing)
      BY <1>2, OneMoves
    <2> QED
      BY <1>2, <2>1 DEF Bit
  <1>7. Cardinality(Counting') = Cardinality(Counting) + Bit(Counts2(r)) - Bit(Counts2(req[q]))
    <2>1. Cardinality(Counting') = Cardinality(Counting) + Bit(q \in Counting') - Bit(q \in Counting)
      BY <1>3, OneMoves
    <2> QED
      BY <1>3, <2>1 DEF Bit
  <1>8. {Cardinality(Passing), Cardinality(Passing'), Cardinality(Counting),
         Cardinality(Counting')} \subseteq Nat
    BY <1>2, <1>3, RequestsFinite
  <1> QED
    BY <1>4, <1>5, <1>6, <1>7, <1>8

-----------------------------------------------------------------------------
(* The parts of the invariant when one request moves                       *)

LEMMA Times1 == \A m, a \in Int : m * (a + 1) = m * a + m /\ m * (a - 1) = m * a - m
  OBVIOUS

LEMMA Distributes == \A a, b, m \in Nat : (a + b) * m = a * m + b * m
  OBVIOUS

LEMMA TimesMonotone == \A m \in Nat : \A a, b \in Nat : a <= b => m * a <= m * b
  OBVIOUS

LEMMA QuotasMove ==
    ASSUME Typed, Quotas, NEW q \in Requests, NEW r \in Request, req' = [req EXCEPT ![q] = r],
           setup' = setup, row'.spent \in Nat,
           setup.quota > 0 =>
              \/ row'.spent < setup.quota
              \/ row'.spent + MaxTokens * Bit(Passes(r)) <= row.spent + MaxTokens * Bit(Passes(req[q]))
    PROVE  Quotas'
  <1> DEFINE n == Cardinality(Passing)
             k == Cardinality(Passing')
  <1>1. /\ k = n + Bit(Passes(r)) - Bit(Passes(req[q])) /\ n \in Nat /\ k \in Nat
        /\ k <= Cardinality(Requests) /\ Cardinality(Requests) \in Nat
    <2>1. Passing' \in SUBSET Requests
      BY DEF Passing
    <2> QED
      BY <2>1, Moves, RequestsFinite
  <1>2. MaxTokens \in Nat /\ row.spent \in Nat /\ setup.quota \in Nat
    BY GatewayAssumption DEF Typed, RowType, Setup
  <1> HIDE DEF n, k
  <1>3. CASE row'.spent < setup.quota
    <2>1. MaxTokens * k <= MaxTokens * Cardinality(Requests)
      BY <1>1, <1>2, TimesMonotone
    <2>2. MaxTokens * k \in Nat /\ MaxTokens * Cardinality(Requests) \in Nat
      BY <1>1, <1>2
    <2>3. row'.spent + MaxTokens * k < setup.quota + MaxTokens * Cardinality(Requests)
      BY <1>2, <1>3, <2>1, <2>2
    <2> QED
      BY <2>3 DEF Quotas, Most, k
  <1>4. CASE row'.spent + MaxTokens * Bit(Passes(r)) <= row.spent + MaxTokens * Bit(Passes(req[q]))
    <2> SUFFICES ASSUME setup.quota > 0
                 PROVE  row'.spent + MaxTokens * k < setup.quota + Most(MaxTokens)
      BY DEF Quotas, Most, k
    <2>1. row.spent + MaxTokens * n < setup.quota + Most(MaxTokens)
      BY DEF Quotas, n
    <2>2. MaxTokens * k = MaxTokens * n + MaxTokens * Bit(Passes(r)) - MaxTokens * Bit(Passes(req[q]))
      BY <1>1, <1>2, Times1 DEF Bit
    <2>3. MaxTokens * n \in Nat /\ MaxTokens * Bit(Passes(r)) \in Nat
          /\ MaxTokens * Bit(Passes(req[q])) \in Nat /\ Most(MaxTokens) \in Nat
      BY <1>1, <1>2 DEF Bit, Most
    <2> QED
      BY <1>2, <1>4, <2>1, <2>2, <2>3
  <1>5. CASE ~(setup.quota > 0)
    BY <1>5 DEF Quotas
  <1> QED
    BY <1>3, <1>4, <1>5

\* What is owed when one request moves.
LEMMA ChargedMove ==
    ASSUME Typed, Charged, NEW q \in Requests, NEW r \in Request, req' = [req EXCEPT ![q] = r],
           setup' = setup, row'.spent \in Nat, delivered' \in Nat,
           NEW free \in Nat, lost' = lost + free,
           delivered' + row.spent + (IF Owes(req[q]) THEN req[q].tokens ELSE 0)
               <= delivered + row'.spent + (IF Owes(r) THEN r.tokens ELSE 0) + free * MaxTokens
    PROVE  Charged'
  <1>1. PICK f \in [SUBSET Requests -> Nat] :
            IsSum(f) /\ delivered <= row.spent + f[Owing] + lost * MaxTokens
    BY DEF Charged
  <1>2. /\ req'[q] = r /\ \A p \in Requests \ {q} : req'[p] = req[p]
        /\ r.tokens \in 0 .. MaxTokens /\ \A p \in Requests : req[p].tokens \in 0 .. MaxTokens
        /\ MaxTokens \in Nat /\ row.spent \in Nat /\ delivered \in Nat /\ lost \in Nat
    BY GatewayAssumption DEF Typed, Request, RowType
  <1> DEFINE g == [S \in SUBSET Requests |-> f[S \ {q}] + (IF q \in S THEN r.tokens ELSE 0)]
  <1>3. \A S \in SUBSET Requests : f[S] \in Nat /\ S \ {q} \in SUBSET Requests
    OBVIOUS
  <1>4. g \in [SUBSET Requests -> Nat]
    BY <1>2, <1>3
  <1>5. ASSUME NEW S \in SUBSET Requests
        PROVE  /\ q \in S => g[S] = f[S \ {q}] + r.tokens
               /\ q \notin S => g[S] = f[S]
    <2>1. CASE q \in S
      BY <2>1
    <2>2. CASE q \notin S
      <3>1. S \ {q} = S
        BY <2>2
      <3>2. f[S \ {q}] = f[S] /\ f[S] \in Nat
        BY <1>3, <3>1
      <3>3. g[S] = f[S \ {q}] + 0
        BY <2>2
      <3> HIDE DEF g
      <3> QED
        BY <2>2, <3>2, <3>3
    <2> QED
      BY <2>1, <2>2
  <1> HIDE DEF g
  <1>6. ASSUME NEW S \in SUBSET Requests
        PROVE  g[S] <= MaxTokens * Cardinality(S)
    <2>1. f[S \ {q}] <= MaxTokens * Cardinality(S \ {q})
      BY <1>1, <1>3 DEF IsSum
    <2>2. Cardinality(S \ {q}) = Cardinality(S) - Bit(q \in S) /\ Cardinality(S) \in Nat
      <3>1. Cardinality(S \ {q}) = Cardinality(S) + Bit(q \in S \ {q}) - Bit(q \in S)
        BY OneMoves
      <3> QED
        BY <3>1, RequestsFinite DEF Bit
    <2>3. CASE q \in S
      <3>1. MaxTokens * (Cardinality(S) - 1) = MaxTokens * Cardinality(S) - MaxTokens
        BY <1>2, <2>2, Times1
      <3>2. f[S \ {q}] <= MaxTokens * Cardinality(S) - MaxTokens
        BY <2>1, <2>2, <2>3, <3>1 DEF Bit
      <3>3. g[S] = f[S \ {q}] + r.tokens /\ MaxTokens * Cardinality(S) \in Nat
        BY <1>2, <1>5, <2>2, <2>3
      <3> QED
        BY <1>2, <1>3, <3>2, <3>3
    <2>4. CASE q \notin S
      <3>1. S \ {q} = S
        BY <2>4
      <3>2. f[S] <= MaxTokens * Cardinality(S)
        BY <1>1 DEF IsSum
      <3>3. g[S] = f[S]
        BY <1>5, <2>4
      <3> QED
        BY <3>2, <3>3
    <2> QED
      BY <2>3, <2>4
  <1>7. ASSUME NEW S \in SUBSET Requests, NEW p \in Requests \ S
        PROVE  g[S \cup {p}] = g[S] + req'[p].tokens
    <2>1. S \cup {p} \in SUBSET Requests
      OBVIOUS
    <2>2. CASE p = q
      <3>1. (S \cup {p}) \ {q} = S /\ q \in S \cup {p} /\ q \notin S
        BY <2>2
      <3>2. g[S \cup {p}] = f[(S \cup {p}) \ {q}] + r.tokens /\ g[S] = f[S]
        BY <1>5, <2>1, <3>1
      <3>3. req'[p].tokens = r.tokens
        BY <1>2, <2>2
      <3> QED
        BY <3>1, <3>2, <3>3
    <2>3. CASE p # q
      <3>1. (S \cup {p}) \ {q} = (S \ {q}) \cup {p} /\ p \in Requests \ (S \ {q})
        BY <2>3
      <3>2. f[(S \ {q}) \cup {p}] = f[S \ {q}] + req[p].tokens
        BY <1>1, <1>3, <3>1 DEF IsSum
      <3>3. req'[p].tokens = req[p].tokens /\ req[p].tokens \in Nat
        BY <1>2, <2>3
      <3>4. CASE q \in S
        <4>1. /\ g[S \cup {p}] = f[(S \cup {p}) \ {q}] + r.tokens
              /\ g[S] = f[S \ {q}] + r.tokens
          BY <1>5, <2>1, <3>4
        <4>2. g[S \cup {p}] = f[(S \ {q}) \cup {p}] + r.tokens
          BY <3>1, <4>1
        <4>3. f[S \ {q}] \in Nat
          BY <1>3
        <4> QED
          BY <1>2, <3>2, <3>3, <4>1, <4>2, <4>3
      <3>5. CASE q \notin S
        <4>1. g[S \cup {p}] = f[S \cup {p}] /\ g[S] = f[S]
          BY <1>5, <2>1, <2>3, <3>5
        <4>2. f[S \cup {p}] = f[S] + req[p].tokens
          BY <1>1 DEF IsSum
        <4> QED
          BY <3>3, <4>1, <4>2
      <3> QED
        BY <3>4, <3>5
    <2> QED
      BY <2>2, <2>3
  <1>8. /\ Owing \in SUBSET Requests /\ Owing' \in SUBSET Requests
        /\ Owing' \ {q} = Owing \ {q} /\ (q \in Owing' <=> Owes(r)) /\ (q \in Owing <=> Owes(req[q]))
    BY Moves DEF Owing
  <1>9. f[Owing] = f[Owing \ {q}] + (IF Owes(req[q]) THEN req[q].tokens ELSE 0)
    <2>1. CASE q \in Owing
      <3>1. (Owing \ {q}) \cup {q} = Owing /\ q \in Requests \ (Owing \ {q})
        BY <2>1
      <3>2. f[(Owing \ {q}) \cup {q}] = f[Owing \ {q}] + req[q].tokens
        BY <1>1, <1>3, <1>8, <3>1 DEF IsSum
      <3> QED
        BY <1>8, <2>1, <3>1, <3>2
    <2>2. CASE q \notin Owing
      <3>1. Owing \ {q} = Owing
        BY <2>2
      <3>2. f[Owing \ {q}] = f[Owing] /\ f[Owing] \in Nat
        BY <1>3, <1>8, <3>1
      <3> QED
        BY <1>8, <2>2, <3>2
    <2> QED
      BY <2>1, <2>2
  <1>10. g[Owing'] = f[Owing \ {q}] + (IF Owes(r) THEN r.tokens ELSE 0)
    <2>1. CASE q \in Owing'
      <3>1. g[Owing'] = f[Owing' \ {q}] + r.tokens
        BY <1>5, <1>8, <2>1
      <3> QED
        BY <1>8, <2>1, <3>1
    <2>2. CASE q \notin Owing'
      <3>1. g[Owing'] = f[Owing'] /\ Owing' = Owing \ {q}
        BY <1>5, <1>8, <2>2
      <3>2. g[Owing'] = f[Owing \ {q}] /\ f[Owing \ {q}] \in Nat
        BY <1>3, <1>8, <3>1
      <3> QED
        BY <1>8, <2>2, <3>2
    <2> QED
      BY <2>1, <2>2
  <1>11. delivered' <= row'.spent + g[Owing'] + lost' * MaxTokens
    <2>1. f[Owing \ {q}] \in Nat /\ lost * MaxTokens \in Nat /\ req[q].tokens \in Nat
          /\ r.tokens \in Nat /\ free * MaxTokens \in Nat
      BY <1>2, <1>3, <1>8
    <2>2. lost' * MaxTokens = lost * MaxTokens + free * MaxTokens
      BY <1>2, Distributes
    <2> QED
      BY <1>1, <1>2, <1>9, <1>10, <2>1, <2>2
  <1>12. IsSum(g)'
    BY <1>4, <1>6, <1>7 DEF IsSum
  <1> QED
    BY <1>4, <1>11, <1>12 DEF Charged

\* The same where nothing is lost.
LEMMA ChargedKept ==
    ASSUME Typed, Charged, NEW q \in Requests, NEW r \in Request, req' = [req EXCEPT ![q] = r],
           setup' = setup, lost' = lost, row'.spent \in Nat, delivered' \in Nat,
           delivered' + row.spent + (IF Owes(req[q]) THEN req[q].tokens ELSE 0)
               <= delivered + row'.spent + (IF Owes(r) THEN r.tokens ELSE 0)
    PROVE  Charged'
  <1> DEFINE before == IF Owes(req[q]) THEN req[q].tokens ELSE 0
             after == IF Owes(r) THEN r.tokens ELSE 0
             free == 0
  <1>1. /\ row.spent \in Nat /\ delivered \in Nat /\ lost \in Nat
        /\ before \in Nat /\ after \in Nat /\ free * MaxTokens = 0 /\ free \in Nat
    BY GatewayAssumption DEF Typed, RowType, Request
  <1>2. lost' = lost + free
    BY <1>1
  <1> HIDE DEF before, after, free
  <1>3. delivered' + row.spent + before <= delivered + row'.spent + after + free * MaxTokens
    BY <1>1 DEF before, after
  <1> QED
    BY <1>1, <1>2, <1>3, ChargedMove DEF before, after

LEMMA DailyMove ==
    ASSUME Typed, Daily, NEW q \in Requests, NEW r \in Request, req' = [req EXCEPT ![q] = r],
           setup' = setup, UsedToday' \in Nat,
           setup.daily > 0 =>
              /\ counted' = UsedToday' + uncounted'
              /\ \/ UsedToday' < setup.daily
                 \/ UsedToday' + Bit(Counts2(r)) <= UsedToday + Bit(Counts2(req[q]))
    PROVE  Daily'
  <1>1. /\ Cardinality(Counting') = Cardinality(Counting) + Bit(Counts2(r)) - Bit(Counts2(req[q]))
        /\ Cardinality(Counting) \in Nat /\ Cardinality(Counting') \in Nat
        /\ Cardinality(Counting') <= Cardinality(Requests) /\ Cardinality(Requests) \in Nat
    <2>1. Counting' \in SUBSET Requests
      BY DEF Counting
    <2> QED
      BY <2>1, Moves, RequestsFinite
  <1>2. setup.daily \in Nat /\ UsedToday \in Nat
    BY GatewayAssumption DEF Typed, Setup, RowType, UsedToday
  <1>3. Most(1) = Cardinality(Requests)
    BY <1>1 DEF Most
  <1> SUFFICES ASSUME setup.daily > 0
               PROVE  UsedToday' + Cardinality(Counting') < setup.daily + Most(1)
    BY DEF Daily, Most
  <1>4. UsedToday + Cardinality(Counting) < setup.daily + Most(1)
    BY DEF Daily
  <1>5. Bit(Counts2(r)) \in {0, 1} /\ Bit(Counts2(req[q])) \in {0, 1}
    BY DEF Bit
  <1>6. \/ UsedToday' < setup.daily
        \/ UsedToday' + Bit(Counts2(r)) <= UsedToday + Bit(Counts2(req[q]))
    OBVIOUS
  <1> QED
    BY <1>1, <1>2, <1>3, <1>4, <1>5, <1>6

LEMMA CacheMove ==
    ASSUME Typed, CacheCounted, NEW q \in Requests, NEW r \in Request,
           req' = [req EXCEPT ![q] = r], setup' = setup, cache'.n \in Int,
           Cardinality(Stored(cache)') \in Nat, Cardinality(Stored(cache)) \in Nat,
           cache'.n + Bit(r.at = "added") - Bit(r.at \in {"uncount", "evicted"})
               - Cardinality(Stored(cache)')
             <= cache.n + Bit(req[q].at = "added") - Bit(req[q].at \in {"uncount", "evicted"})
               - Cardinality(Stored(cache))
    PROVE  CacheCounted'
  <1>1. /\ InSteps({"added"})' = InSteps({"added"}) + Bit(r.at \in {"added"}) - Bit(req[q].at \in {"added"})
        /\ InSteps({"uncount", "evicted"})' =
               InSteps({"uncount", "evicted"}) + Bit(r.at \in {"uncount", "evicted"})
               - Bit(req[q].at \in {"uncount", "evicted"})
    BY Moves
  <1>2. \A steps : InSteps(steps) \in Nat
    BY RequestsFinite DEF InSteps
  <1>3. cache.n \in Int
    BY DEF Typed, IsStore, CacheOf
  <1> QED
    BY <1>1, <1>2, <1>3 DEF CacheCounted, Bit

-----------------------------------------------------------------------------
(* The stores                                                              *)

LEMMA BucketFacts ==
    ASSUME NEW limit \in Nat, NEW bucket \in Buckets(limit)
    PROVE  /\ bucket \in Nat /\ limit * Minute \in Nat /\ bucket <= limit * Minute
           /\ NewBucket(limit) \in Buckets(limit)
           /\ Refill(bucket, limit) \in Buckets(limit) /\ Refill(bucket, limit) <= bucket + limit
           /\ Allows(bucket, limit) => Take(bucket, limit) \in Buckets(limit)
           /\ \A n \in Nat : Deduct(bucket, n) \in Buckets(limit)
  <1> DEFINE full == limit * Minute
  <1>1. full \in Nat /\ Minute \in Nat
    BY MinuteAssumption
  <1>2. NewBucket(limit) = full /\ Buckets(limit) = 0 .. full
    BY DEF NewBucket, Buckets
  <1>3. \A n \in Nat : n * Minute \in Nat
    BY <1>1
  <1> HIDE DEF full
  <1>4. bucket \in Nat /\ bucket <= full
    BY <1>1, <1>2
  <1>5. Refill(bucket, limit) \in 0 .. full /\ Refill(bucket, limit) <= bucket + limit
    BY <1>1, <1>2, <1>4 DEF Refill
  <1>6. Allows(bucket, limit) => Take(bucket, limit) \in 0 .. full
    BY <1>1, <1>4 DEF Allows, Take
  <1>7. ASSUME NEW n \in Nat PROVE Deduct(bucket, n) \in 0 .. full
    <2>1. n * Minute \in Nat
      BY <1>3
    <2> QED
      BY <1>1, <1>4, <2>1 DEF Deduct
  <1> QED
    BY <1>1, <1>2, <1>4, <1>5, <1>6, <1>7 DEF full

LEMMA LedgerFacts ==
    ASSUME NEW q \in QuotaType
    PROVE  /\ Rolled(q) \in QuotaType /\ Elapsed(q) \in QuotaType
           /\ \A limit \in Nat : Read(q, limit) \in QuotaType
           /\ \A limit, tokens \in Nat : Record(q, limit, tokens) \in QuotaType
           /\ \A left \in Nat : ObserveUpstream(q, left) \in QuotaType
           /\ \A low \in BOOLEAN : SetBalanceLow(q, low) \in QuotaType
  <1> DEFINE Less(n) == IF n = 0 THEN 0 ELSE n - 1
  <1>0. /\ TokenWindow \in Windows /\ ObservedFresh \in Freshness /\ Nat \subseteq Remainders
        /\ \A n \in Windows : Less(n) \in Windows
        /\ \A n \in Freshness : Less(n) \in Freshness
    BY LedgerAssumption DEF Windows, Freshness, Remainders
  <1>1. Rolled(q) \in QuotaType
    BY <1>0 DEF Rolled, QuotaType
  <1>2. Elapsed(q) \in QuotaType
    <2>1. Elapsed(q) = [q EXCEPT !.left = Less(q.left), !.fresh = Less(q.fresh)]
      BY DEF Elapsed
    <2>2. Less(q.left) \in Windows /\ Less(q.fresh) \in Freshness
      BY <1>0 DEF QuotaType
    <2> HIDE DEF Less
    <2> QED
      BY <2>1, <2>2 DEF QuotaType
  <1>3. \A limit \in Nat : Read(q, limit) \in QuotaType
    BY <1>1 DEF Read
  <1>4. ASSUME NEW tokens \in Nat
        PROVE  [Rolled(q) EXCEPT !.used = @ + tokens] \in QuotaType
    <2>1. Rolled(q).used + tokens \in Nat
      BY <1>1 DEF QuotaType
    <2> QED
      BY <1>1, <2>1 DEF QuotaType
  <1>5. \A limit, tokens \in Nat : Record(q, limit, tokens) \in QuotaType
    BY <1>4 DEF Record
  <1>6. \A left \in Nat : ObserveUpstream(q, left) \in QuotaType
    BY <1>0 DEF ObserveUpstream, QuotaType
  <1>7. \A low \in BOOLEAN : SetBalanceLow(q, low) \in QuotaType
    BY DEF SetBalanceLow, QuotaType
  <1> QED
    BY <1>1, <1>2, <1>3, <1>5, <1>6, <1>7

LEMMA StoreFacts ==
    ASSUME NEW c, IsStore(c)
    PROVE  /\ c.n \in Int /\ Stored(c) \in SUBSET CacheKeys
           /\ IsFiniteSet(Stored(c)) /\ Cardinality(Stored(c)) \in Nat
           /\ c.age \in Ages(Stored(c))
           /\ c = [age |-> c.age, n |-> c.n]
  <1>1. PICK K \in SUBSET CacheKeys : c \in CacheOf(K)
    BY DEF IsStore
  <1>2. c.age \in Ages(K) /\ c.n \in Int /\ c = [age |-> c.age, n |-> c.n]
    BY <1>1 DEF CacheOf
  <1>3. Stored(c) = K
    BY <1>2 DEF Stored, Ages
  <1>4. IsFiniteSet(K)
    BY <1>1, CacheAssumption, FS_Subset
  <1> QED
    BY <1>2, <1>3, <1>4, FS_CardinalityType

LEMMA MakeStore ==
    ASSUME NEW K \in SUBSET CacheKeys, NEW age \in Ages(K), NEW n \in Int
    PROVE  IsStore([age |-> age, n |-> n]) /\ Stored([age |-> age, n |-> n]) = K
  BY DEF IsStore, CacheOf, Stored, Ages

LEMMA CacheFacts ==
    ASSUME NEW c, IsStore(c)
    PROVE  /\ \A k : /\ IsStore(Delete(c, k)) /\ Delete(c, k).n = c.n
                     /\ Stored(Delete(c, k)) = Stored(c) \ {k}
           /\ \A k \in CacheKeys :
                 /\ IsStore(Put(c, k)) /\ Put(c, k).n = c.n
                 /\ Stored(Put(c, k)) = Stored(c) \cup {k}
           /\ IsStore(Uncount(c)) /\ Uncount(c).n = c.n - 1 /\ Stored(Uncount(c)) = Stored(c)
           /\ IsStore(Count(c)) /\ Count(c).n = c.n + 1 /\ Stored(Count(c)) = Stored(c)
           /\ IsStore(Aged(c)) /\ Aged(c).n = c.n /\ Stored(Aged(c)) = Stored(c)
  <1> DEFINE K == Stored(c)
  <1>1. /\ c.n \in Int /\ K \in SUBSET CacheKeys /\ DOMAIN c.age = K
        /\ c.age \in [K -> 0 .. TTL + 1] /\ c = [age |-> c.age, n |-> c.n]
    BY StoreFacts DEF Stored, Ages
  <1> HIDE DEF K
  <1>2. ASSUME NEW k
        PROVE  /\ IsStore(Delete(c, k)) /\ Delete(c, k).n = c.n /\ Stored(Delete(c, k)) = K \ {k}
    <2> DEFINE age == [j \in K \ {k} |-> c.age[j]]
    <2>1. age \in Ages(K \ {k}) /\ K \ {k} \in SUBSET CacheKeys
      BY <1>1 DEF Ages
    <2>2. Delete(c, k) = [c EXCEPT !.age = age]
      BY <1>1 DEF Delete, Restrict
    <2> HIDE DEF age
    <2>3. Delete(c, k) = [age |-> age, n |-> c.n]
      BY <1>1, <2>2
    <2> QED
      BY <1>1, <2>1, <2>3, MakeStore
  <1>3. ASSUME NEW k \in CacheKeys
        PROVE  /\ IsStore(Put(c, k)) /\ Put(c, k).n = c.n /\ Stored(Put(c, k)) = K \cup {k}
    <2> DEFINE age == [j \in K \cup {k} |-> IF j = k THEN 0 ELSE c.age[j]]
    <2>1. age \in Ages(K \cup {k}) /\ K \cup {k} \in SUBSET CacheKeys
      BY <1>1, CacheAssumption DEF Ages
    <2>2. Put(c, k) = [c EXCEPT !.age = age]
      BY <1>1 DEF Put
    <2> HIDE DEF age
    <2>3. Put(c, k) = [age |-> age, n |-> c.n]
      BY <1>1, <2>2
    <2> QED
      BY <1>1, <2>1, <2>3, MakeStore
  <1>4. /\ IsStore(Uncount(c)) /\ Uncount(c).n = c.n - 1 /\ Stored(Uncount(c)) = K
    <2>1. Uncount(c) = [age |-> c.age, n |-> c.n - 1] /\ c.age \in Ages(K) /\ c.n - 1 \in Int
      BY <1>1 DEF Uncount, Ages
    <2> QED
      BY <1>1, <2>1, MakeStore
  <1>5. /\ IsStore(Count(c)) /\ Count(c).n = c.n + 1 /\ Stored(Count(c)) = K
    <2>1. Count(c) = [age |-> c.age, n |-> c.n + 1] /\ c.age \in Ages(K) /\ c.n + 1 \in Int
      BY <1>1 DEF Count, Ages
    <2> QED
      BY <1>1, <2>1, MakeStore
  <1>6. /\ IsStore(Aged(c)) /\ Aged(c).n = c.n /\ Stored(Aged(c)) = K
    <2> DEFINE age == [k \in K |-> IF c.age[k] > TTL THEN c.age[k] ELSE c.age[k] + 1]
    <2>1. age \in Ages(K)
      BY <1>1, CacheAssumption DEF Ages
    <2>2. Aged(c) = [c EXCEPT !.age = age]
      BY <1>1 DEF Aged
    <2> HIDE DEF age
    <2>3. Aged(c) = [age |-> age, n |-> c.n]
      BY <1>1, <2>2
    <2> QED
      BY <1>1, <2>1, <2>3, MakeStore
  <1> QED
    BY <1>2, <1>3, <1>4, <1>5, <1>6 DEF K

-----------------------------------------------------------------------------
(* The steps of a request                                                  *)

LEMMA SetupFacts ==
    ASSUME Typed
    PROVE  /\ setup.quota \in Nat /\ setup.daily \in Nat /\ setup.tpm \in Nat
           /\ setup.limit \in Nat /\ setup.arrivals \in Nat /\ setup.upsets \in Nat
           /\ setup.days \in Nat /\ RpmLimit \in Nat
           /\ MaxTokens \in Nat /\ Minute \in Nat
  BY GatewayAssumption, MinuteAssumption DEF Typed, Setup, RpmLimit

LEMMA UsedFacts ==
    ASSUME Typed
    PROVE  /\ UsedToday \in Nat
           /\ UNCHANGED <<row, day>> => UsedToday' = UsedToday
  BY DEF Typed, RowType, UsedToday

Quiet(q, r) ==
    /\ setup.quota > 0 => (Passes(r) => Passes(req[q]))
    /\ (IF Owes(req[q]) THEN req[q].tokens ELSE 0) <= (IF Owes(r) THEN r.tokens ELSE 0)
    /\ setup.daily > 0 => (Counts2(r) => Counts2(req[q]))

\* A step that touches neither row nor buckets.
LEMMA CacheStep ==
    ASSUME IInv, NEW q \in Requests, NEW r \in Request, req' = [req EXCEPT ![q] = r],
           UNCHANGED <<rest, row, buckets, ghosts>>, quota' \in QuotaType, IsStore(cache'),
           r.at = "relay" => r.stream \in StreamType, Quiet(q, r),
           cache'.n + Bit(r.at = "added") - Bit(r.at \in {"uncount", "evicted"})
               - Cardinality(Stored(cache)')
             <= cache.n + Bit(req[q].at = "added") - Bit(req[q].at \in {"uncount", "evicted"})
               - Cardinality(Stored(cache))
    PROVE  IInv'
  <1> USE DEF rest, ghosts
  <1>1. Typed'
    <2>1. \A p \in Requests : At(p, "relay")' => req'[p].stream \in StreamType
      BY DEF IInv, Typed, At
    <2>2. req' \in [Requests -> Request] /\ RpmLimit' = RpmLimit
      BY DEF IInv, Typed, RpmLimit
    <2> QED
      BY <2>1, <2>2 DEF IInv, Typed
  <1>2. Quotas'
    <2>1. row.spent \in Nat /\ MaxTokens \in Nat
      BY SetupFacts DEF IInv, Typed, RowType
    <2>2. setup.quota > 0 =>
              row.spent + MaxTokens * Bit(Passes(r)) <= row.spent + MaxTokens * Bit(Passes(req[q]))
      BY <2>1 DEF Quiet, Bit
    <2> QED
      BY <2>1, <2>2, QuotasMove DEF IInv
  <1>3. Charged'
    <2>1. row.spent \in Nat /\ delivered \in Nat /\ req[q].tokens \in Nat /\ r.tokens \in Nat
      BY SetupFacts DEF IInv, Typed, RowType, Request
    <2>2. (IF Owes(req[q]) THEN req[q].tokens ELSE 0) <= (IF Owes(r) THEN r.tokens ELSE 0)
      BY DEF Quiet
    <2>3. delivered' + row.spent + (IF Owes(req[q]) THEN req[q].tokens ELSE 0)
              <= delivered + row'.spent + (IF Owes(r) THEN r.tokens ELSE 0)
      BY <2>1, <2>2
    <2>4. delivered' \in Nat /\ row'.spent \in Nat
      BY <2>1
    <2> QED
      BY <2>3, <2>4, ChargedKept DEF IInv
  <1>4. Daily'
    <2>1. UsedToday \in Nat /\ UsedToday' = UsedToday
      BY DEF IInv, Typed, RowType, UsedToday
    <2>2. setup.daily > 0 =>
              /\ counted' = UsedToday' + uncounted'
              /\ UsedToday' + Bit(Counts2(r)) <= UsedToday + Bit(Counts2(req[q]))
      BY <2>1 DEF IInv, Daily, Quiet, Bit
    <2> QED
      BY <2>1, <2>2, DailyMove DEF IInv
  <1>5. Rates'
    BY DEF IInv, Rates, RpmLimit
  <1>6. CacheCounted'
    <2>1. IsStore(cache) /\ Stored(cache)' = Stored(cache')
      BY DEF IInv, Typed, Stored
    <2>2. /\ cache'.n \in Int /\ Cardinality(Stored(cache)) \in Nat
          /\ Cardinality(Stored(cache)') \in Nat
      BY <2>1, StoreFacts
    <2> QED
      BY <2>2, CacheMove DEF IInv
  <1> QED
    BY <1>1, <1>2, <1>3, <1>4, <1>5, <1>6 DEF IInv

\* A step that touches neither row, buckets nor cache.
LEMMA QuietStep ==
    ASSUME IInv, NEW q \in Requests, NEW r \in Request, req' = [req EXCEPT ![q] = r],
           UNCHANGED <<rest, row, buckets, cache, ghosts>>, quota' \in QuotaType,
           r.at = "relay" => r.stream \in StreamType, Quiet(q, r),
           r.at # "added", req[q].at \notin {"uncount", "evicted"}
    PROVE  IInv'
  <1>1. /\ cache.n \in Int /\ Cardinality(Stored(cache)) \in Nat
        /\ cache'.n = cache.n /\ Stored(cache)' = Stored(cache)
    BY StoreFacts DEF IInv, Typed
  <1>2. /\ Bit(r.at = "added") = 0 /\ Bit(req[q].at \in {"uncount", "evicted"}) = 0
        /\ Bit(req[q].at = "added") \in Nat /\ Bit(r.at \in {"uncount", "evicted"}) \in Nat
    BY DEF Bit
  <1>3. cache'.n + Bit(r.at = "added") - Bit(r.at \in {"uncount", "evicted"})
            - Cardinality(Stored(cache)')
          <= cache.n + Bit(req[q].at = "added") - Bit(req[q].at \in {"uncount", "evicted"})
            - Cardinality(Stored(cache))
    BY <1>1, <1>2
  <1> QED
    BY <1>3, CacheStep DEF IInv, Typed

LEMMA GoFacts ==
    ASSUME Typed, NEW q \in Requests, NEW step \in Steps, Go(q, step)
    PROVE  \E r \in Request :
              /\ req' = [req EXCEPT ![q] = r] /\ r.at = step
              /\ r.spent = req[q].spent /\ r.today = req[q].today /\ r.tokens = req[q].tokens
              /\ r.stream = req[q].stream
  <1> DEFINE r == [req[q] EXCEPT !.at = step]
  <1>1. req' = [req EXCEPT ![q] = r] /\ req[q] \in Request
    BY DEF Go, Typed
  <1>2. /\ r \in Request /\ r.at = step /\ r.spent = req[q].spent /\ r.today = req[q].today
        /\ r.tokens = req[q].tokens /\ r.stream = req[q].stream
    BY <1>1 DEF Request
  <1> QED
    BY <1>1, <1>2

LEMMA IdleFacts ==
    /\ Idle \in Request /\ Idle.at = "idle" /\ Idle.tokens = 0
    /\ ~Passes(Idle) /\ ~Owes(Idle) /\ ~Counts2(Idle)
  <1>1. Idle \in Request /\ Idle.at = "idle" /\ Idle.tokens = 0
    BY GatewayAssumption DEF Idle, Request, Steps, Cands
  <1> QED
    BY <1>1 DEF Passes, Owes, Counts2

\* A step after which the request is gone.
LEMMA DoneStep ==
    ASSUME IInv, NEW q \in Requests, Done(q),
           UNCHANGED <<rest, row, buckets, cache, ghosts>>, quota' \in QuotaType,
           ~Owes(req[q]), req[q].at \notin {"uncount", "evicted"}
    PROVE  IInv'
  <1>1. Quiet(q, Idle)
    BY IdleFacts DEF Quiet
  <1> QED
    BY <1>1, IdleFacts, QuietStep DEF Done

\* A step that only goes on.
LEMMA GoStep ==
    ASSUME IInv, NEW q \in Requests, NEW step \in Steps, Go(q, step),
           UNCHANGED <<rest, row, buckets, cache, ghosts>>, quota' \in QuotaType,
           req[q].at \in {"tokens", "count", "route", "get", "expire", "send", "record"},
           step \in {"count", "route", "get", "expire", "send", "again", "store"},
           req[q].at = "record" => step = "store",
           step = "count" => req[q].at = "tokens"
    PROVE  IInv'
  <1>1. PICK r \in Request :
            /\ req' = [req EXCEPT ![q] = r] /\ r.at = step
            /\ r.spent = req[q].spent /\ r.today = req[q].today /\ r.tokens = req[q].tokens
    BY GoFacts DEF IInv
  <1>2. Quiet(q, r)
    BY <1>1 DEF Quiet, Passes, Owes, Counts2
  <1> QED
    BY <1>1, <1>2, QuietStep

LEMMA ArriveStep ==
    ASSUME IInv, NEW q \in Requests, Arrive(q)
    PROVE  IInv'
  <1> DEFINE r == [req[q] EXCEPT !.at = "admit", !.spent = row.spent, !.today = UsedToday]
  <1>1. /\ req[q].at = "idle" /\ req[q] \in Request /\ req' = [req EXCEPT ![q] = r]
        /\ arrivals' = arrivals + 1 /\ arrivals < setup.arrivals
        /\ UNCHANGED <<setup, day, upsets, row, buckets, quota, cache, delivered, counted,
                       uncounted, lost, recent>>
    BY DEF Arrive, At, IInv, Typed, stores, ghosts
  <1>2. /\ row.spent \in Nat /\ UsedToday \in Nat /\ delivered \in Nat /\ counted \in Nat
        /\ RpmLimit' = RpmLimit
    BY <1>1 DEF IInv, Typed, RowType, UsedToday, RpmLimit
  <1>3. /\ r \in Request /\ r.at = "admit" /\ r.spent = row.spent /\ r.today = UsedToday
    BY <1>1, <1>2 DEF Request, Steps
  <1> HIDE DEF r
  <1>4. Typed'
    <2>1. \A p \in Requests : At(p, "relay")' => req'[p].stream \in StreamType
      BY <1>1, <1>3 DEF IInv, Typed, At
    <2>2. req' \in [Requests -> Request]
      BY <1>1, <1>3 DEF IInv, Typed
    <2>3. arrivals' \in 0 .. setup.arrivals
      BY <1>1, SetupFacts DEF IInv, Typed
    <2> QED
      BY <1>1, <1>2, <2>1, <2>2, <2>3 DEF IInv, Typed
  <1>5. ~Passes(req[q]) /\ ~Owes(req[q]) /\ ~Counts2(req[q]) /\ ~Owes(r)
    BY <1>1, <1>3 DEF Passes, Owes, Counts2
  <1>6. Quotas'
    <2>1. \/ row.spent < setup.quota
          \/ ~Passes(r)
      BY <1>3 DEF Passes
    <2>2. ~Passes(r) => Bit(Passes(r)) = Bit(Passes(req[q]))
      BY <1>5 DEF Bit
    <2>3. row'.spent = row.spent /\ MaxTokens * Bit(Passes(req[q])) \in Nat
      BY <1>1, SetupFacts DEF Bit, IInv
    <2>4. \/ row'.spent < setup.quota
          \/ row'.spent + MaxTokens * Bit(Passes(r)) <= row.spent + MaxTokens * Bit(Passes(req[q]))
      BY <1>2, <2>1, <2>2, <2>3
    <2>5. row'.spent \in Nat
      BY <1>2, <2>3
    <2> QED
      BY <1>1, <1>3, <2>4, <2>5, QuotasMove DEF IInv
  <1>7. Charged'
    <2>1. delivered' + row.spent + (IF Owes(req[q]) THEN req[q].tokens ELSE 0)
              <= delivered + row'.spent + (IF Owes(r) THEN r.tokens ELSE 0)
      BY <1>1, <1>2, <1>5
    <2>2. delivered' \in Nat /\ row'.spent \in Nat
      BY <1>1, <1>2
    <2> QED
      BY <1>1, <1>3, <2>1, <2>2, ChargedKept DEF IInv
  <1>8. Daily'
    <2>1. /\ UsedToday' = UsedToday
          /\ setup.daily > 0 => counted' = UsedToday' + uncounted'
      BY <1>1 DEF IInv, Daily, UsedToday
    <2>2. UsedToday < setup.daily \/ ~Counts2(r)
      BY <1>3 DEF Counts2
    <2>3. \/ UsedToday' < setup.daily
          \/ UsedToday' + Bit(Counts2(r)) <= UsedToday + Bit(Counts2(req[q]))
      BY <1>2, <1>5, <2>1, <2>2 DEF Bit
    <2> QED
      BY <1>1, <1>2, <1>3, <2>1, <2>3, DailyMove DEF IInv
  <1>9. Rates'
    BY <1>1, <1>2 DEF IInv, Rates
  <1>10. CacheCounted'
    <2>1. /\ cache.n \in Int /\ Cardinality(Stored(cache)) \in Nat
          /\ cache'.n = cache.n /\ Stored(cache)' = Stored(cache)
      BY <1>1, StoreFacts DEF IInv, Typed
    <2>2. /\ Bit(r.at = "added") = 0 /\ Bit(req[q].at \in {"uncount", "evicted"}) = 0
          /\ Bit(req[q].at = "added") = 0 /\ Bit(r.at \in {"uncount", "evicted"}) = 0
      BY <1>1, <1>3 DEF Bit
    <2>3. cache'.n + Bit(r.at = "added") - Bit(r.at \in {"uncount", "evicted"})
              - Cardinality(Stored(cache)')
            <= cache.n + Bit(req[q].at = "added") - Bit(req[q].at \in {"uncount", "evicted"})
              - Cardinality(Stored(cache))
      BY <2>1, <2>2
    <2> QED
      BY <1>1, <1>3, <2>1, <2>3, CacheMove DEF IInv
  <1> QED
    BY <1>4, <1>6, <1>7, <1>8, <1>9, <1>10 DEF IInv

LEMMA CheckStep ==
    ASSUME IInv, NEW q \in Requests, CheckTokens(q)
    PROVE  IInv'
  <1> USE DEF stores
  <1>1. req[q].at = "tokens" /\ UNCHANGED <<rest, stores, ghosts>> /\ quota' \in QuotaType
    BY DEF CheckTokens, At, IInv, Typed
  <1>2. CASE Done(q)
    BY <1>1, <1>2, DoneStep DEF Owes
  <1>3. CASE Go(q, "count") \/ Go(q, "route")
    BY <1>1, <1>3, GoStep DEF Steps
  <1> QED
    BY <1>2, <1>3 DEF CheckTokens

LEMMA RouteStep ==
    ASSUME IInv, NEW q \in Requests, Route(q)
    PROVE  IInv'
  <1>1. /\ req[q].at = "route" /\ req[q] \in Request
        /\ UNCHANGED <<rest, row, buckets, cache, ghosts>>
    BY DEF Route, At, IInv, Typed
  <1>2. quota' \in QuotaType
    BY LedgerFacts, SetupFacts DEF Route, IInv, Typed
  <1>3. CASE Done(q)
    BY <1>1, <1>2, <1>3, DoneStep DEF Owes
  <1>4. CASE ~Done(q)
    <2> DEFINE at == IF Cached THEN "get" ELSE "send"
               first == IF ~req[q].old /\ Exhausted(quota, setup.limit) THEN "spare" ELSE "metered"
               r == [req[q] EXCEPT !.at = at, !.first = first]
    <2>1. req' = [req EXCEPT ![q] = r]
      BY <1>4 DEF Route
    <2>2. at \in {"get", "send"} /\ first \in Cands
      BY DEF Cands
    <2> HIDE DEF at, first
    <2>3. r \in Request /\ r.at = at
      BY <1>1, <2>2 DEF Request, Steps
    <2> HIDE DEF r
    <2>4. Quiet(q, r)
      BY <1>1, <2>2, <2>3 DEF Quiet, Passes, Owes, Counts2
    <2> QED
      BY <1>1, <1>2, <2>1, <2>2, <2>3, <2>4, QuietStep
  <1> QED
    BY <1>3, <1>4

LEMMA GetStep ==
    ASSUME IInv, NEW q \in Requests, Get(q)
    PROVE  IInv'
  <1> USE DEF stores
  <1>1. req[q].at = "get" /\ UNCHANGED <<rest, stores, ghosts>> /\ quota' \in QuotaType
    BY DEF Get, At, IInv, Typed
  <1>2. CASE Done(q)
    BY <1>1, <1>2, DoneStep DEF Owes
  <1>3. CASE Go(q, "expire") \/ Go(q, "send")
    BY <1>1, <1>3, GoStep DEF Steps
  <1> QED
    BY <1>2, <1>3 DEF Get

LEMMA FailStep ==
    ASSUME IInv, NEW q \in Requests, Fail(q)
    PROVE  IInv'
  <1> USE DEF stores
  <1>1. /\ req[q].at \in {"send", "again"} /\ UNCHANGED <<rest, stores, ghosts>>
        /\ quota' \in QuotaType /\ Done(q)
    BY DEF Fail, Attempting, At, IInv, Typed
  <1> QED
    BY <1>1, DoneStep DEF Owes

LEMMA RecordStep ==
    ASSUME IInv, NEW q \in Requests, RecordUse(q)
    PROVE  IInv'
  <1>1. /\ req[q].at = "record" /\ UNCHANGED <<rest, row, buckets, cache, ghosts>>
        /\ req[q].tokens \in Nat
    BY SetupFacts DEF RecordUse, At, IInv, Typed, Request
  <1>2. quota' \in QuotaType
    BY <1>1, LedgerFacts, SetupFacts DEF RecordUse, IInv, Typed
  <1>3. CASE Done(q)
    BY <1>1, <1>2, <1>3, DoneStep DEF Owes
  <1>4. CASE Go(q, "store")
    BY <1>1, <1>2, <1>4, GoStep DEF Steps
  <1> QED
    BY <1>3, <1>4 DEF RecordUse

LEMMA RemoveOne ==
    ASSUME NEW S, NEW k, IsFiniteSet(S)
    PROVE  /\ Cardinality(S) \in Nat /\ Cardinality(S \ {k}) \in Nat
           /\ Cardinality(S \ {k}) >= Cardinality(S) - 1
  <1>1. Cardinality(S) \in Nat
    BY FS_CardinalityType
  <1>2. CASE k \in S
    <2>1. IsFiniteSet(S \ {k}) /\ Cardinality(S \ {k}) = Cardinality(S) - 1
      BY <1>2, FS_RemoveElement
    <2>2. Cardinality(S \ {k}) \in Nat
      BY <2>1, FS_CardinalityType
    <2> QED
      BY <1>1, <2>1, <2>2
  <1>3. CASE k \notin S
    <2>1. S \ {k} = S
      BY <1>3
    <2>2. Cardinality(S \ {k}) = Cardinality(S)
      BY <2>1
    <2> QED
      BY <1>1, <2>2
  <1> QED
    BY <1>2, <1>3

LEMMA ExpireStep ==
    ASSUME IInv, NEW q \in Requests, Expire(q)
    PROVE  IInv'
  <1>1. /\ req[q].at = "expire" /\ UNCHANGED <<rest, row, buckets, quota, ghosts>>
        /\ cache' = Delete(cache, Key(q)) /\ IsStore(cache) /\ quota' \in QuotaType
    BY DEF Expire, At, IInv, Typed
  <1>2. PICK r \in Request :
            /\ req' = [req EXCEPT ![q] = r] /\ r.at = "uncount" /\ r.tokens = req[q].tokens
    BY GoFacts DEF Expire, IInv, Steps
  <1>3. Quiet(q, r)
    BY <1>1, <1>2 DEF Quiet, Passes, Owes, Counts2
  <1>4. /\ IsStore(cache') /\ cache'.n = cache.n /\ cache.n \in Int
        /\ Stored(cache)' = Stored(cache) \ {Key(q)}
    BY <1>1, CacheFacts, StoreFacts DEF Stored
  <1>5. /\ Cardinality(Stored(cache)) \in Nat /\ Cardinality(Stored(cache)') \in Nat
        /\ Cardinality(Stored(cache)') >= Cardinality(Stored(cache)) - 1
    <2> DEFINE S == Stored(cache)
               k == Key(q)
    <2>1. IsFiniteSet(S)
      BY <1>1, StoreFacts
    <2> HIDE DEF S, k
    <2>2. /\ Cardinality(S) \in Nat /\ Cardinality(S \ {k}) \in Nat
          /\ Cardinality(S \ {k}) >= Cardinality(S) - 1
      BY <2>1, RemoveOne
    <2>3. Stored(cache)' = S \ {k}
      BY <1>4 DEF S, k
    <2>4. Cardinality(Stored(cache)') = Cardinality(S \ {k})
      BY <2>3
    <2> QED
      BY <2>2, <2>4 DEF S
  <1>6. /\ Bit(r.at = "added") = 0 /\ Bit(r.at \in {"uncount", "evicted"}) = 1
        /\ Bit(req[q].at = "added") = 0 /\ Bit(req[q].at \in {"uncount", "evicted"}) = 0
    BY <1>1, <1>2 DEF Bit
  <1>7. cache'.n + Bit(r.at = "added") - Bit(r.at \in {"uncount", "evicted"})
            - Cardinality(Stored(cache)')
          <= cache.n + Bit(req[q].at = "added") - Bit(req[q].at \in {"uncount", "evicted"})
            - Cardinality(Stored(cache))
    BY <1>4, <1>5, <1>6
  <1> QED
    BY <1>1, <1>2, <1>3, <1>4, <1>7, CacheStep

\* The counter follows a deletion.
LEMMA UncountStep ==
    ASSUME IInv, NEW q \in Requests, NEW r \in Request, req' = [req EXCEPT ![q] = r],
           req[q].at \in {"uncount", "evicted"}, r.at \in {"send", "idle"},
           req[q].at = "evicted" => r.at = "idle",
           cache' = Uncount(cache), UNCHANGED <<rest, row, buckets, quota, ghosts>>
    PROVE  IInv'
  <1>1. IsStore(cache) /\ quota' \in QuotaType
    BY DEF IInv, Typed
  <1>2. Quiet(q, r)
    BY DEF Quiet, Passes, Owes, Counts2
  <1>3. /\ IsStore(cache') /\ cache'.n = cache.n - 1 /\ cache.n \in Int
        /\ Stored(cache)' = Stored(cache) /\ Cardinality(Stored(cache)) \in Nat
    BY <1>1, CacheFacts, StoreFacts DEF Stored
  <1>4. /\ Bit(r.at = "added") = 0 /\ Bit(r.at \in {"uncount", "evicted"}) = 0
        /\ Bit(req[q].at = "added") = 0 /\ Bit(req[q].at \in {"uncount", "evicted"}) = 1
    BY DEF Bit
  <1>5. cache'.n + Bit(r.at = "added") - Bit(r.at \in {"uncount", "evicted"})
            - Cardinality(Stored(cache)')
          <= cache.n + Bit(req[q].at = "added") - Bit(req[q].at \in {"uncount", "evicted"})
            - Cardinality(Stored(cache))
    BY <1>3, <1>4
  <1> QED
    BY <1>1, <1>2, <1>3, <1>5, CacheStep

LEMMA StoreStep ==
    ASSUME IInv, NEW q \in Requests, Store(q)
    PROVE  IInv'
  <1>1. /\ req[q].at = "store" /\ UNCHANGED <<rest, row, buckets, quota, ghosts>>
        /\ IsStore(cache) /\ quota' \in QuotaType /\ Key(q) \in CacheKeys
    BY GatewayAssumption DEF Store, At, IInv, Typed, Key, Request
  <1>2. CASE Key(q) \in Stored(cache)
    <2>1. Done(q) /\ UNCHANGED cache
      BY <1>2 DEF Store
    <2> QED
      BY <1>1, <2>1, DoneStep DEF Owes
  <1>3. CASE Key(q) \notin Stored(cache)
    <2>1. PICK r \in Request :
              /\ req' = [req EXCEPT ![q] = r] /\ r.at = "added" /\ r.tokens = req[q].tokens
      BY <1>3, GoFacts DEF Store, IInv, Steps
    <2>2. Quiet(q, r)
      BY <1>1, <2>1 DEF Quiet, Passes, Owes, Counts2
    <2>3. /\ IsStore(cache') /\ cache'.n = cache.n /\ cache.n \in Int
          /\ Stored(cache)' = Stored(cache) \cup {Key(q)}
      <3>1. cache' = Put(cache, Key(q))
        BY <1>3 DEF Store
      <3>2. Stored(cache)' = Stored(cache') /\ cache.n \in Int
        BY <1>1, StoreFacts DEF Stored
      <3> QED
        BY <1>1, <3>1, <3>2, CacheFacts
    <2>4. /\ Cardinality(Stored(cache)) \in Nat
          /\ Cardinality(Stored(cache)') = Cardinality(Stored(cache)) + 1
      <3>1. IsFiniteSet(Stored(cache)) /\ Cardinality(Stored(cache)) \in Nat
        BY <1>1, StoreFacts
      <3>2. Cardinality(Stored(cache) \cup {Key(q)}) = Cardinality(Stored(cache)) + 1
        BY <1>3, <3>1, FS_AddElement
      <3> QED
        BY <2>3, <3>1, <3>2
    <2>5. /\ Bit(r.at = "added") = 1 /\ Bit(r.at \in {"uncount", "evicted"}) = 0
          /\ Bit(req[q].at = "added") = 0 /\ Bit(req[q].at \in {"uncount", "evicted"}) = 0
      BY <1>1, <2>1 DEF Bit
    <2>6. cache'.n + Bit(r.at = "added") - Bit(r.at \in {"uncount", "evicted"})
              - Cardinality(Stored(cache)')
            <= cache.n + Bit(req[q].at = "added") - Bit(req[q].at \in {"uncount", "evicted"})
              - Cardinality(Stored(cache))
      BY <2>3, <2>4, <2>5
    <2> QED
      BY <1>1, <2>1, <2>2, <2>3, <2>6, CacheStep
  <1> QED
    BY <1>2, <1>3

LEMMA CountStep ==
    ASSUME IInv, NEW q \in Requests, CountStored(q)
    PROVE  IInv'
  <1>1. /\ req[q].at = "added" /\ UNCHANGED <<rest, row, buckets, quota, ghosts>>
        /\ cache' = Count(cache) /\ IsStore(cache) /\ quota' \in QuotaType
    BY DEF CountStored, At, IInv, Typed
  <1>2. PICK r \in Request :
            /\ req' = [req EXCEPT ![q] = r] /\ r.at \in {"evict", "idle"}
    <2>1. CASE Go(q, "evict")
      BY <2>1, GoFacts DEF IInv, Steps
    <2>2. CASE Done(q)
      BY <2>2, IdleFacts DEF Done
    <2> QED
      BY <2>1, <2>2 DEF CountStored
  <1>3. Quiet(q, r)
    BY <1>1, <1>2 DEF Quiet, Passes, Owes, Counts2
  <1>4. /\ IsStore(cache') /\ cache'.n = cache.n + 1 /\ cache.n \in Int
        /\ Stored(cache)' = Stored(cache) /\ Cardinality(Stored(cache)) \in Nat
    BY <1>1, CacheFacts, StoreFacts DEF Stored
  <1>5. /\ Bit(r.at = "added") = 0 /\ Bit(r.at \in {"uncount", "evicted"}) = 0
        /\ Bit(req[q].at = "added") = 1 /\ Bit(req[q].at \in {"uncount", "evicted"}) = 0
    BY <1>1, <1>2 DEF Bit
  <1>6. cache'.n + Bit(r.at = "added") - Bit(r.at \in {"uncount", "evicted"})
            - Cardinality(Stored(cache)')
          <= cache.n + Bit(req[q].at = "added") - Bit(req[q].at \in {"uncount", "evicted"})
            - Cardinality(Stored(cache))
    BY <1>4, <1>5
  <1> QED
    BY <1>1, <1>2, <1>3, <1>4, <1>6, CacheStep

LEMMA EvictStep ==
    ASSUME IInv, NEW q \in Requests, Evict(q)
    PROVE  IInv'
  <1>1. /\ req[q].at = "evict" /\ UNCHANGED <<rest, row, buckets, quota, ghosts>>
        /\ IsStore(cache) /\ quota' \in QuotaType
    BY DEF Evict, At, IInv, Typed
  <1>2. CASE Stored(cache) = {}
    BY <1>1, <1>2, DoneStep DEF Evict, Owes
  <1>3. CASE Stored(cache) # {}
    <2>1. PICK victim \in Stored(cache) : cache' = Delete(cache, victim) /\ Go(q, "evicted")
      BY <1>3 DEF Evict
    <2>2. PICK r \in Request : req' = [req EXCEPT ![q] = r] /\ r.at = "evicted"
      BY <2>1, GoFacts DEF IInv, Steps
    <2>3. Quiet(q, r)
      BY <1>1, <2>2 DEF Quiet, Passes, Owes, Counts2
    <2>4. /\ IsStore(cache') /\ cache'.n = cache.n /\ cache.n \in Int
          /\ Stored(cache)' = Stored(cache) \ {victim}
      BY <1>1, <2>1, CacheFacts, StoreFacts DEF Stored
    <2>5. /\ Cardinality(Stored(cache)) \in Nat
          /\ Cardinality(Stored(cache)') = Cardinality(Stored(cache)) - 1
      <3>1. IsFiniteSet(Stored(cache)) /\ Cardinality(Stored(cache)) \in Nat
        BY <1>1, StoreFacts
      <3>2. Cardinality(Stored(cache) \ {victim}) = Cardinality(Stored(cache)) - 1
        BY <3>1, FS_RemoveElement
      <3> QED
        BY <2>4, <3>1, <3>2
    <2>6. /\ Bit(r.at = "added") = 0 /\ Bit(r.at \in {"uncount", "evicted"}) = 1
          /\ Bit(req[q].at = "added") = 0 /\ Bit(req[q].at \in {"uncount", "evicted"}) = 0
      BY <1>1, <2>2 DEF Bit
    <2>7. cache'.n + Bit(r.at = "added") - Bit(r.at \in {"uncount", "evicted"})
              - Cardinality(Stored(cache)')
            <= cache.n + Bit(req[q].at = "added") - Bit(req[q].at \in {"uncount", "evicted"})
              - Cardinality(Stored(cache))
      BY <2>4, <2>5, <2>6
    <2> QED
      BY <1>1, <2>2, <2>3, <2>4, <2>7, CacheStep
  <1> QED
    BY <1>2, <1>3

LEMMA UncountSteps ==
    ASSUME IInv, NEW q \in Requests, UncountExpired(q) \/ UncountEvicted(q)
    PROVE  IInv'
  <1>1. CASE UncountExpired(q)
    <2>1. PICK r \in Request : req' = [req EXCEPT ![q] = r] /\ r.at = "send"
      BY <1>1, GoFacts DEF UncountExpired, IInv, Steps
    <2>2. /\ req[q].at = "uncount" /\ cache' = Uncount(cache)
          /\ UNCHANGED <<rest, row, buckets, quota, ghosts>>
      BY <1>1 DEF UncountExpired, At
    <2> QED
      BY <2>1, <2>2, UncountStep
  <1>2. CASE UncountEvicted(q)
    <2>1. /\ req[q].at = "evicted" /\ cache' = Uncount(cache)
          /\ UNCHANGED <<rest, row, buckets, quota, ghosts>>
          /\ req' = [req EXCEPT ![q] = Idle]
      BY <1>2 DEF UncountEvicted, At, Done
    <2> QED
      BY <2>1, IdleFacts, UncountStep
  <1> QED
    BY <1>1, <1>2

-----------------------------------------------------------------------------
(* The steps that admit and charge                                         *)

LEMMA TypedMove ==
    ASSUME Typed, NEW q \in Requests, NEW r \in Request, req' = [req EXCEPT ![q] = r],
           UNCHANGED <<setup, day, arrivals>>, upsets' \in 0 .. setup.upsets,
           row' \in RowType, row'.day <= day,
           buckets' \in [rpm : Nat, tpm : Nat], buckets'.rpm \in Buckets(RpmLimit),
           buckets'.tpm \in Buckets(setup.tpm), quota' \in QuotaType, IsStore(cache'),
           r.at = "relay" => r.stream \in StreamType,
           delivered' \in Nat, counted' \in Nat, uncounted' \in Nat, lost' \in Nat,
           recent' \in Seq(0 .. Minute)
    PROVE  Typed' /\ RpmLimit' = RpmLimit
  <1>1. \A p \in Requests : At(p, "relay")' => req'[p].stream \in StreamType
    BY DEF Typed, At
  <1>2. req' \in [Requests -> Request] /\ RpmLimit' = RpmLimit
    BY DEF Typed, RpmLimit
  <1> QED
    BY <1>1, <1>2 DEF Typed

LEMMA StillCached ==
    ASSUME IInv, NEW q \in Requests, NEW r \in Request, req' = [req EXCEPT ![q] = r],
           setup' = setup, cache' = cache,
           r.at # "added", req[q].at \notin {"uncount", "evicted"}
    PROVE  CacheCounted'
  <1>1. /\ cache.n \in Int /\ Cardinality(Stored(cache)) \in Nat
        /\ cache'.n = cache.n /\ Stored(cache)' = Stored(cache)
    BY StoreFacts DEF IInv, Typed
  <1>2. /\ Bit(r.at = "added") = 0 /\ Bit(req[q].at \in {"uncount", "evicted"}) = 0
        /\ Bit(req[q].at = "added") \in Nat /\ Bit(r.at \in {"uncount", "evicted"}) \in Nat
    BY DEF Bit
  <1>3. cache'.n + Bit(r.at = "added") - Bit(r.at \in {"uncount", "evicted"})
            - Cardinality(Stored(cache)')
          <= cache.n + Bit(req[q].at = "added") - Bit(req[q].at \in {"uncount", "evicted"})
            - Cardinality(Stored(cache))
    BY <1>1, <1>2
  <1> QED
    BY <1>1, <1>3, CacheMove DEF IInv

\* A request that has passed its quotas counts where it counted.
LEMMA StillCharged ==
    ASSUME IInv, NEW q \in Requests, NEW r \in Request, req' = [req EXCEPT ![q] = r],
           UNCHANGED <<setup, day, row, delivered, counted, uncounted, lost>>, Quiet(q, r)
    PROVE  Quotas' /\ Charged' /\ Daily'
  <1>1. /\ row.spent \in Nat /\ delivered \in Nat /\ req[q].tokens \in Nat /\ r.tokens \in Nat
        /\ MaxTokens \in Nat /\ UsedToday \in Nat /\ UsedToday' = UsedToday
    <2>1. /\ row.spent \in Nat /\ delivered \in Nat /\ req[q].tokens \in Nat
          /\ r.tokens \in Nat /\ MaxTokens \in Nat
      BY SetupFacts DEF IInv, Typed, RowType, Request
    <2>2. UsedToday \in Nat /\ UsedToday' = UsedToday
      BY UsedFacts DEF IInv
    <2> QED
      BY <2>1, <2>2
  <1>2. Quotas'
    <2>1. setup.quota > 0 =>
              row.spent + MaxTokens * Bit(Passes(r)) <= row.spent + MaxTokens * Bit(Passes(req[q]))
      BY <1>1 DEF Quiet, Bit
    <2> QED
      BY <1>1, <2>1, QuotasMove DEF IInv
  <1>3. Charged'
    <2>1. (IF Owes(req[q]) THEN req[q].tokens ELSE 0) <= (IF Owes(r) THEN r.tokens ELSE 0)
      BY DEF Quiet
    <2>2. delivered' + row.spent + (IF Owes(req[q]) THEN req[q].tokens ELSE 0)
              <= delivered + row'.spent + (IF Owes(r) THEN r.tokens ELSE 0)
      BY <1>1, <2>1
    <2>3. delivered' \in Nat /\ row'.spent \in Nat
      BY <1>1
    <2> QED
      BY <2>2, <2>3, ChargedKept DEF IInv
  <1>4. Daily'
    <2>1. setup.daily > 0 =>
              /\ counted' = UsedToday' + uncounted'
              /\ UsedToday' + Bit(Counts2(r)) <= UsedToday + Bit(Counts2(req[q]))
      BY <1>1 DEF IInv, Daily, Quiet, Bit
    <2> QED
      BY <1>1, <2>1, DailyMove DEF IInv
  <1> QED
    BY <1>2, <1>3, <1>4

LEMMA AdmitStep ==
    ASSUME IInv, NEW q \in Requests, Admit(q)
    PROVE  IInv'
  <1>1. /\ req[q].at = "admit" /\ UNCHANGED <<rest, row, quota, cache, delivered, counted>>
        /\ UNCHANGED <<uncounted, lost>>
        /\ IsStore(cache) /\ quota' \in QuotaType
    BY DEF Admit, At, IInv, Typed
  <1>2. CASE Done(q) /\ UNCHANGED <<buckets, recent>>
    BY <1>1, <1>2, DoneStep DEF Owes, ghosts
  <1>3. CASE /\ WithinQuotas(q) /\ Allows(buckets.rpm, RpmLimit) /\ Go(q, "tokens")
             /\ buckets' = [buckets EXCEPT !.rpm = Take(@, RpmLimit)]
             /\ recent' = IF RpmLimit > 0 THEN <<0>> \o recent ELSE recent
    <2>1. PICK r \in Request :
              /\ req' = [req EXCEPT ![q] = r] /\ r.at = "tokens"
              /\ r.spent = req[q].spent /\ r.today = req[q].today /\ r.tokens = req[q].tokens
      BY <1>3, GoFacts DEF IInv, Steps
    <2>2. Quiet(q, r)
      BY <1>1, <1>3, <2>1 DEF Quiet, Passes, Owes, Counts2, WithinQuotas
    <2>3. Quotas' /\ Charged' /\ Daily'
      BY <1>1, <2>1, <2>2, StillCharged DEF rest
    <2>4. CacheCounted'
      BY <1>1, <2>1, StillCached DEF rest
    <2>5. /\ RpmLimit \in Nat /\ Minute \in Nat \ {0} /\ buckets.rpm \in Buckets(RpmLimit)
          /\ buckets \in [rpm : Nat, tpm : Nat] /\ recent \in Seq(0 .. Minute)
      BY SetupFacts, MinuteAssumption DEF IInv, Typed
    <2>6. /\ buckets'.rpm = Take(buckets.rpm, RpmLimit) /\ buckets'.tpm = buckets.tpm
          /\ Take(buckets.rpm, RpmLimit) \in Buckets(RpmLimit)
          /\ Take(buckets.rpm, RpmLimit) \in Nat
      <3>1. Take(buckets.rpm, RpmLimit) \in Buckets(RpmLimit)
        BY <1>3, <2>5, BucketFacts
      <3> QED
        BY <1>3, <2>5, <3>1, BucketFacts
    <2>7. recent' \in Seq(0 .. Minute)
      <3>1. <<0>> \in Seq(0 .. Minute)
        BY <2>5
      <3> QED
        BY <1>3, <2>5, <3>1, ConcatProperties
    <2>8. Typed' /\ RpmLimit' = RpmLimit
      <3>1. /\ buckets' \in [rpm : Nat, tpm : Nat] /\ buckets'.rpm \in Buckets(RpmLimit)
            /\ buckets'.tpm \in Buckets(setup.tpm)
        BY <1>3, <2>5, <2>6 DEF IInv, Typed
      <3>2. /\ row' \in RowType /\ row'.day <= day /\ IsStore(cache')
            /\ delivered' \in Nat /\ counted' \in Nat /\ uncounted' \in Nat /\ lost' \in Nat
            /\ UNCHANGED <<setup, day, arrivals>> /\ upsets' \in 0 .. setup.upsets
        BY <1>1 DEF IInv, Typed, rest
      <3> QED
        BY <1>1, <2>1, <2>7, <3>1, <3>2, TypedMove DEF IInv
    <2>9. Rates'
      <3>1. CASE RpmLimit = 0
        BY <1>3, <2>5, <2>6, <2>8, <3>1 DEF IInv, Rates, Take
      <3>2. CASE RpmLimit > 0
        <4>1. /\ recent' = <<0>> \o recent /\ buckets'.rpm = buckets.rpm - Minute
              /\ buckets.rpm \in Nat /\ buckets.rpm <= RpmLimit * Minute
          BY <1>3, <2>5, <2>6, <3>2, BucketFacts DEF Take
        <4>2. SUFFICES ASSUME NEW i \in DOMAIN recent', recent'[i] < Minute
                       PROVE  i * Minute + buckets'.rpm <= RpmLimit * Minute + RpmLimit * recent'[i]
          BY <2>8 DEF Rates
        <4>3. /\ i \in 1 .. Len(recent) + 1 /\ Len(recent) \in Nat /\ DOMAIN recent = 1 .. Len(recent)
              /\ (i = 1 => recent'[i] = 0)
              /\ (i # 1 => recent'[i] = recent[i - 1] /\ i - 1 \in DOMAIN recent)
          BY <2>5, <4>1
        <4> DEFINE passed == i * Minute
                   full == RpmLimit * Minute
                   gained == RpmLimit * recent'[i]
        <4>4. CASE i = 1
          <5>1. passed = Minute /\ gained = 0 /\ full \in Nat
            BY <2>5, <4>3, <4>4
          <5>2. buckets'.rpm = buckets.rpm - Minute /\ buckets.rpm \in Nat /\ buckets.rpm <= full
            BY <4>1
          <5> HIDE DEF passed, full, gained
          <5>3. passed + buckets'.rpm <= full + gained
            BY <2>5, <5>1, <5>2
          <5> QED
            BY <5>3 DEF passed, full, gained
        <4>5. CASE i # 1
          <5> DEFINE before == (i - 1) * Minute
          <5>1. before + buckets.rpm <= full + gained
            BY <4>2, <4>3, <4>5 DEF IInv, Rates
          <5>2. passed = before + Minute /\ before \in Int /\ full \in Int
            BY <2>5, <4>3
          <5>3. gained \in Int
            <6>1. recent'[i] \in Int
              BY <2>5, <4>3, <4>5, ElementOfSeq
            <6> QED
              BY <2>5, <6>1
          <5>4. buckets'.rpm = buckets.rpm - Minute /\ buckets.rpm \in Nat
            BY <4>1
          <5> HIDE DEF passed, full, gained, before
          <5>5. passed + buckets'.rpm <= full + gained
            BY <2>5, <5>1, <5>2, <5>3, <5>4
          <5> QED
            BY <5>5 DEF passed, full, gained
        <4> QED
          BY <4>4, <4>5
      <3> QED
        BY <2>5, <3>1, <3>2
    <2> QED
      BY <2>3, <2>4, <2>8, <2>9 DEF IInv
  <1> QED
    BY <1>2, <1>3 DEF Admit

LEMMA CountDayStep ==
    ASSUME IInv, NEW q \in Requests, CountDay(q)
    PROVE  IInv'
  <1>1. /\ req[q].at = "count" /\ UNCHANGED <<rest, buckets, quota, cache, delivered, recent>>
        /\ UNCHANGED <<uncounted, lost>> /\ IsStore(cache) /\ quota' \in QuotaType
        /\ row' = [row EXCEPT !.used = UsedToday + 1, !.day = day] /\ counted' = counted + 1
    BY DEF CountDay, IncrDaily, At, IInv, Typed
  <1>2. PICK r \in Request :
            /\ req' = [req EXCEPT ![q] = r] /\ r.at = "route" /\ r.tokens = req[q].tokens
    BY GoFacts DEF CountDay, IInv, Steps
  <1>3. /\ row \in RowType /\ row.spent \in Nat /\ UsedToday \in Nat /\ counted \in Nat
        /\ delivered \in Nat /\ MaxTokens \in Nat /\ day \in Nat
    BY SetupFacts DEF IInv, Typed, RowType, UsedToday
  <1>4. /\ row' \in RowType /\ row'.day = day /\ row'.spent = row.spent
        /\ row'.used = UsedToday + 1
    <2>1. \A used, today \in Nat :
              LET new == [row EXCEPT !.used = used, !.day = today]
              IN  new \in RowType /\ new.day = today /\ new.spent = row.spent /\ new.used = used
      BY <1>3 DEF RowType
    <2>2. UsedToday + 1 \in Nat
      BY <1>3
    <2> QED
      BY <1>1, <1>3, <2>1, <2>2
  <1>5. /\ Passes(r) /\ Passes(req[q]) /\ ~Owes(r) /\ ~Owes(req[q])
        /\ ~Counts2(r) /\ Counts2(req[q])
    BY <1>1, <1>2 DEF Passes, Owes, Counts2
  <1>6. Typed' /\ RpmLimit' = RpmLimit
    <2>1. /\ buckets' \in [rpm : Nat, tpm : Nat] /\ buckets'.rpm \in Buckets(RpmLimit)
          /\ buckets'.tpm \in Buckets(setup.tpm) /\ IsStore(cache')
          /\ delivered' \in Nat /\ counted' \in Nat /\ recent' \in Seq(0 .. Minute)
          /\ uncounted' \in Nat /\ lost' \in Nat /\ row'.day <= day
          /\ UNCHANGED <<setup, day, arrivals>> /\ upsets' \in 0 .. setup.upsets
      BY <1>1, <1>3, <1>4 DEF IInv, Typed, rest
    <2> QED
      BY <1>1, <1>2, <1>4, <2>1, TypedMove DEF IInv
  <1>7. Quotas'
    <2>1. row'.spent + MaxTokens * Bit(Passes(r)) <= row.spent + MaxTokens * Bit(Passes(req[q]))
      BY <1>3, <1>4, <1>5 DEF Bit
    <2> QED
      BY <1>1, <1>2, <1>3, <1>4, <2>1, QuotasMove DEF IInv, rest
  <1>8. Charged'
    <2>1. delivered' + row.spent + (IF Owes(req[q]) THEN req[q].tokens ELSE 0)
              <= delivered + row'.spent + (IF Owes(r) THEN r.tokens ELSE 0)
      BY <1>1, <1>3, <1>4, <1>5
    <2>2. delivered' \in Nat /\ row'.spent \in Nat
      BY <1>1, <1>3, <1>4
    <2> QED
      BY <1>1, <1>2, <2>1, <2>2, ChargedKept DEF IInv, rest
  <1>9. Daily'
    <2>1. UsedToday' = UsedToday + 1
      BY <1>1, <1>4 DEF UsedToday, rest
    <2>2. setup.daily > 0 =>
              /\ counted' = UsedToday' + uncounted'
              /\ UsedToday' + Bit(Counts2(r)) <= UsedToday + Bit(Counts2(req[q]))
      BY <1>1, <1>3, <1>5, <2>1 DEF IInv, Typed, Daily, Bit
    <2>3. UsedToday' \in Nat
      BY <1>3, <2>1
    <2> QED
      BY <1>1, <1>2, <2>2, <2>3, DailyMove DEF IInv, rest
  <1>10. Rates'
    BY <1>1, <1>6 DEF IInv, Rates
  <1>11. CacheCounted'
    BY <1>1, <1>2, StillCached DEF rest
  <1> QED
    BY <1>6, <1>7, <1>8, <1>9, <1>10, <1>11 DEF IInv

\* The answer is there, and what it costs is owed.
LEMMA ChargeStep ==
    ASSUME IInv, NEW q \in Requests, req[q].at \in {"send", "again", "relay"}, NEW by \in Cands,
           NEW tokens \in 0 .. MaxTokens, Charge(q, by, tokens),
           UNCHANGED <<rest, row, buckets, cache, counted, uncounted, lost, recent>>,
           quota' \in QuotaType
    PROVE  IInv'
  <1>1. /\ req[q] \in Request /\ tokens \in Nat /\ delivered \in Nat
        /\ delivered' = delivered + tokens
    BY SetupFacts DEF IInv, Typed, Charge
  <1>2. CASE tokens = 0
    <2>1. Done(q) /\ delivered' = delivered
      BY <1>1, <1>2 DEF Charge
    <2> QED
      BY <2>1, DoneStep DEF Owes, ghosts
  <1>3. CASE tokens # 0
    <2> DEFINE r == [req[q] EXCEPT !.at = "deduct", !.by = by, !.tokens = tokens]
    <2>1. req' = [req EXCEPT ![q] = r]
      BY <1>3 DEF Charge
    <2>2. r \in Request /\ r.at = "deduct" /\ r.tokens = tokens
      BY <1>1 DEF Request, Steps
    <2> HIDE DEF r
    <2>3. /\ Passes(r) /\ Passes(req[q]) /\ Owes(r) /\ ~Owes(req[q])
          /\ ~Counts2(r) /\ ~Counts2(req[q])
      BY <2>2 DEF Passes, Owes, Counts2
    <2>4. /\ row.spent \in Nat /\ MaxTokens \in Nat /\ UsedToday \in Nat
          /\ UsedToday' = UsedToday /\ delivered' \in Nat /\ IsStore(cache')
      BY <1>1, SetupFacts DEF IInv, Typed, RowType, UsedToday, rest
    <2>5. Typed' /\ RpmLimit' = RpmLimit
      <3>1. /\ buckets' \in [rpm : Nat, tpm : Nat] /\ buckets'.rpm \in Buckets(RpmLimit)
            /\ buckets'.tpm \in Buckets(setup.tpm) /\ row' \in RowType /\ row'.day <= day
            /\ counted' \in Nat /\ uncounted' \in Nat /\ lost' \in Nat
            /\ recent' \in Seq(0 .. Minute)
            /\ UNCHANGED <<setup, day, arrivals>> /\ upsets' \in 0 .. setup.upsets
        BY DEF IInv, Typed, rest
      <3> QED
        BY <2>1, <2>2, <2>4, <3>1, TypedMove DEF IInv
    <2>6. Quotas'
      <3>1. row'.spent + MaxTokens * Bit(Passes(r)) <= row.spent + MaxTokens * Bit(Passes(req[q]))
        BY <2>3, <2>4 DEF Bit
      <3>2. row'.spent \in Nat
        BY <2>4
      <3> QED
        BY <2>1, <2>2, <3>1, <3>2, QuotasMove DEF IInv, rest
    <2>7. Charged'
      <3>1. delivered' + row.spent + (IF Owes(req[q]) THEN req[q].tokens ELSE 0)
                <= delivered + row'.spent + (IF Owes(r) THEN r.tokens ELSE 0)
        BY <1>1, <2>2, <2>3, <2>4
      <3>2. delivered' \in Nat /\ row'.spent \in Nat
        BY <2>4
      <3> QED
        BY <2>1, <2>2, <3>1, <3>2, ChargedKept DEF IInv, rest
    <2>8. Daily'
      <3>1. setup.daily > 0 =>
                /\ counted' = UsedToday' + uncounted'
                /\ UsedToday' + Bit(Counts2(r)) <= UsedToday + Bit(Counts2(req[q]))
        BY <2>3, <2>4 DEF IInv, Daily, Bit
      <3>2. UsedToday' \in Nat
        BY <2>4
      <3> QED
        BY <2>1, <2>2, <3>1, <3>2, DailyMove DEF IInv, rest
    <2>9. Rates'
      BY <2>5 DEF IInv, Rates
    <2>10. CacheCounted'
      BY <2>1, <2>2, StillCached DEF rest
    <2> QED
      BY <2>5, <2>6, <2>7, <2>8, <2>9, <2>10 DEF IInv
  <1> QED
    BY <1>2, <1>3

LEMMA ObserveQuota ==
    ASSUME Typed, NEW q \in Requests, NEW by, NEW left \in Left, Observe(q, by, left)
    PROVE  quota' \in QuotaType
  <1>1. left # Unobserved => left \in Nat
    BY GatewayAssumption DEF Left
  <1>2. quota \in QuotaType
    BY DEF Typed
  <1> QED
    BY <1>1, <1>2, LedgerFacts DEF Observe

LEMMA RefuseStep ==
    ASSUME IInv, NEW q \in Requests, NEW left \in Left, Refuse(q, left)
    PROVE  IInv'
  <1>1. /\ req[q].at = "send" /\ Observe(q, "metered", left) /\ Go(q, "again")
        /\ UNCHANGED <<rest, row, buckets, cache, ghosts>>
    BY DEF Refuse, At
  <1>2. quota' \in QuotaType
    BY <1>1, ObserveQuota DEF IInv
  <1> QED
    BY <1>1, <1>2, GoStep DEF Steps

LEMMA AnswerSteps ==
    ASSUME IInv, NEW q \in Requests, NEW by \in Cands, NEW left \in Left,
           NEW tokens \in Totals, Answer(q, by, tokens, left)
    PROVE  IInv'
  <1>1. /\ req[q].at \in {"send", "again"} /\ Observe(q, by, left) /\ Charge(q, by, tokens)
        /\ UNCHANGED <<rest, row, buckets, cache, counted, uncounted, lost, recent>>
    BY DEF Answer, Attempting, At
  <1>2. quota' \in QuotaType
    BY <1>1, ObserveQuota DEF IInv
  <1>3. tokens \in 0 .. MaxTokens
    BY GatewayAssumption
  <1> QED
    BY <1>1, <1>2, <1>3, ChargeStep

LEMMA AnswerStreamStep ==
    ASSUME IInv, NEW q \in Requests, NEW by \in Cands, NEW left \in Left,
           NEW dialect \in Dialects, AnswerStream(q, by, dialect, left)
    PROVE  IInv'
  <1> DEFINE s == NewStream(dialect)
             r == [req[q] EXCEPT !.at = "relay", !.by = by, !.stream = s]
  <1>1. /\ req[q].at \in {"send", "again"} /\ Observe(q, by, left)
        /\ req' = [req EXCEPT ![q] = r]
        /\ UNCHANGED <<rest, row, buckets, cache, ghosts>> /\ req[q] \in Request
    BY DEF AnswerStream, Attempting, At, IInv, Typed
  <1>2. quota' \in QuotaType
    BY <1>1, ObserveQuota DEF IInv
  <1>3. s \in StreamType
    BY NewStreamType
  <1> HIDE DEF s
  <1>4. r \in Request /\ r.at = "relay" /\ r.stream \in StreamType
    BY <1>1, <1>3 DEF Request, Steps
  <1> HIDE DEF r
  <1>5. Quiet(q, r)
    BY <1>1, <1>4 DEF Quiet, Passes, Owes, Counts2
  <1> QED
    BY <1>1, <1>2, <1>4, <1>5, QuietStep

LEMMA RelayStep ==
    ASSUME IInv, NEW q \in Requests, Relay(q)
    PROVE  IInv'
  <1> DEFINE t == req[q].stream
  <1>1. /\ req[q].at = "relay" /\ UNCHANGED <<rest, stores, ghosts>> /\ t \in StreamType
        /\ req[q] \in Request /\ quota' \in QuotaType
    BY DEF Relay, At, IInv, Typed, stores
  <1>2. PICK u \in StreamType : req' = [req EXCEPT ![q].stream = u]
    <2>1. \A e \in EventsOf(t.dialect) : Hears(t, e) \in StreamType
      BY <1>1, HearsType
    <2>2. Separated(t) \in StreamType
      BY <1>1, DispatchType, WrittenType DEF Separated
    <2>3. Over(t) \in StreamType
      BY <1>1, OverType
    <2> QED
      BY <2>1, <2>2, <2>3 DEF Relay
  <1> DEFINE r == [req[q] EXCEPT !.stream = u]
  <1>3. req' = [req EXCEPT ![q] = r]
    BY <1>2
  <1>4. r \in Request /\ r.at = "relay" /\ r.stream \in StreamType
    BY <1>1 DEF Request
  <1> HIDE DEF r
  <1>5. Quiet(q, r)
    BY <1>1, <1>4 DEF Quiet, Passes, Owes, Counts2
  <1> QED
    BY <1>1, <1>3, <1>4, <1>5, QuietStep DEF stores

LEMMA EndStreamStep ==
    ASSUME IInv, NEW q \in Requests, EndStream(q)
    PROVE  IInv'
  <1>1. /\ req[q].at = "relay" /\ UNCHANGED <<rest, stores, counted, uncounted, lost, recent>>
        /\ req[q].stream \in StreamType /\ req[q].by \in Cands /\ quota' \in QuotaType
        /\ Charge(q, req[q].by, Total(req[q].stream.tracked))
    BY DEF EndStream, At, IInv, Typed, Request, stores
  <1>2. Total(req[q].stream.tracked) \in 0 .. MaxTokens
    BY <1>1, UsageFacts DEF StreamType
  <1> QED
    BY <1>1, <1>2, ChargeStep DEF stores

LEMMA DeductStep ==
    ASSUME IInv, NEW q \in Requests, DeductTPM(q)
    PROVE  IInv'
  <1> DEFINE tpm == Deduct(buckets.tpm, req[q].tokens)
  <1>1. /\ req[q].at = "deduct" /\ UNCHANGED <<rest, row, quota, cache, ghosts>>
        /\ buckets' = [buckets EXCEPT !.tpm = tpm]
    BY DEF DeductTPM, At
  <1>2. PICK r \in Request :
            /\ req' = [req EXCEPT ![q] = r] /\ r.at = "spend" /\ r.tokens = req[q].tokens
    BY GoFacts DEF DeductTPM, IInv, Steps
  <1>3. Quiet(q, r)
    <2>1. req[q].tokens \in Nat
      BY SetupFacts DEF IInv, Typed, Request
    <2> QED
      BY <1>1, <1>2, <2>1 DEF Quiet, Passes, Owes, Counts2
  <1>4. Quotas' /\ Charged' /\ Daily'
    BY <1>1, <1>2, <1>3, StillCharged DEF rest, ghosts
  <1>5. CacheCounted'
    BY <1>1, <1>2, StillCached DEF rest
  <1>6. tpm \in Buckets(setup.tpm) /\ tpm \in Nat
    <2>1. req[q].tokens \in Nat /\ setup.tpm \in Nat /\ buckets.tpm \in Buckets(setup.tpm)
      BY SetupFacts DEF IInv, Typed, Request
    <2> QED
      BY <2>1, BucketFacts
  <1> HIDE DEF tpm
  <1>7. /\ buckets' \in [rpm : Nat, tpm : Nat] /\ buckets'.rpm = buckets.rpm /\ buckets'.tpm = tpm
    BY <1>1, <1>6 DEF IInv, Typed
  <1>8. Typed' /\ RpmLimit' = RpmLimit
    <2>1. /\ buckets'.rpm \in Buckets(RpmLimit) /\ row' \in RowType /\ row'.day <= day
          /\ quota' \in QuotaType /\ IsStore(cache') /\ uncounted' \in Nat /\ lost' \in Nat
          /\ delivered' \in Nat /\ counted' \in Nat /\ recent' \in Seq(0 .. Minute)
          /\ UNCHANGED <<setup, day, arrivals>> /\ upsets' \in 0 .. setup.upsets
      BY <1>1, <1>7 DEF IInv, Typed, ghosts, rest
    <2> QED
      BY <1>1, <1>2, <1>6, <1>7, <2>1, TypedMove DEF IInv
  <1>9. Rates'
    BY <1>1, <1>7, <1>8 DEF IInv, Rates, ghosts
  <1> QED
    BY <1>4, <1>5, <1>8, <1>9 DEF IInv

LEMMA SpendStep ==
    ASSUME IInv, NEW q \in Requests, SpendTokens(q)
    PROVE  IInv'
  <1>1. /\ req[q].at = "spend" /\ UNCHANGED <<rest, buckets, quota, cache, ghosts>>
        /\ row' = [row EXCEPT !.spent = @ + req[q].tokens]
    BY DEF SpendTokens, At
  <1>2. PICK r \in Request :
            /\ req' = [req EXCEPT ![q] = r] /\ r.at = "record" /\ r.tokens = req[q].tokens
    BY GoFacts DEF SpendTokens, IInv, Steps
  <1>3. /\ row \in RowType /\ row.spent \in Nat /\ MaxTokens \in Nat /\ delivered \in Nat
        /\ UsedToday \in Nat /\ req[q].tokens \in Nat /\ req[q].tokens <= MaxTokens
    BY SetupFacts, UsedFacts DEF IInv, Typed, RowType, Request
  <1>4. /\ row' \in RowType /\ row'.spent = row.spent + req[q].tokens
        /\ row'.used = row.used /\ row'.day = row.day
    <2>1. \A spent \in Nat :
              LET new == [row EXCEPT !.spent = spent]
              IN  /\ new \in RowType /\ new.spent = spent
                  /\ new.used = row.used /\ new.day = row.day
      BY <1>3 DEF RowType
    <2>2. row.spent + req[q].tokens \in Nat
      BY <1>3
    <2> QED
      BY <1>1, <2>1, <2>2
  <1>5. /\ ~Passes(r) /\ Passes(req[q]) /\ ~Owes(r) /\ Owes(req[q])
        /\ ~Counts2(r) /\ ~Counts2(req[q])
    BY <1>1, <1>2 DEF Passes, Owes, Counts2
  <1>6. Typed' /\ RpmLimit' = RpmLimit
    <2>1. /\ buckets' \in [rpm : Nat, tpm : Nat] /\ buckets'.rpm \in Buckets(RpmLimit)
          /\ buckets'.tpm \in Buckets(setup.tpm) /\ IsStore(cache') /\ quota' \in QuotaType
          /\ delivered' \in Nat /\ counted' \in Nat /\ recent' \in Seq(0 .. Minute)
          /\ uncounted' \in Nat /\ lost' \in Nat /\ row'.day <= day
          /\ UNCHANGED <<setup, day, arrivals>> /\ upsets' \in 0 .. setup.upsets
      BY <1>1, <1>4 DEF IInv, Typed, ghosts, rest
    <2> QED
      BY <1>1, <1>2, <1>4, <2>1, TypedMove DEF IInv
  <1>7. Quotas'
    <2>1. row'.spent + MaxTokens * Bit(Passes(r)) <= row.spent + MaxTokens * Bit(Passes(req[q]))
      BY <1>3, <1>4, <1>5 DEF Bit
    <2>2. row'.spent \in Nat
      BY <1>3, <1>4
    <2> QED
      BY <1>1, <1>2, <2>1, <2>2, QuotasMove DEF IInv, rest
  <1>8. Charged'
    <2>1. delivered' + row.spent + (IF Owes(req[q]) THEN req[q].tokens ELSE 0)
              <= delivered + row'.spent + (IF Owes(r) THEN r.tokens ELSE 0)
      BY <1>1, <1>3, <1>4, <1>5 DEF ghosts
    <2>2. delivered' \in Nat /\ row'.spent \in Nat
      BY <1>1, <1>3, <1>4 DEF ghosts
    <2> QED
      BY <1>1, <1>2, <2>1, <2>2, ChargedKept DEF IInv, rest, ghosts
  <1>9. Daily'
    <2>1. UsedToday' = UsedToday
      BY <1>1, <1>4 DEF UsedToday, rest
    <2>2. setup.daily > 0 =>
              /\ counted' = UsedToday' + uncounted'
              /\ UsedToday' + Bit(Counts2(r)) <= UsedToday + Bit(Counts2(req[q]))
      BY <1>1, <1>3, <1>5, <2>1 DEF IInv, Daily, Bit, ghosts
    <2>3. UsedToday' \in Nat
      BY <1>3, <2>1
    <2> QED
      BY <1>1, <1>2, <2>2, <2>3, DailyMove DEF IInv, rest
  <1>10. Rates'
    BY <1>1, <1>6 DEF IInv, Rates, ghosts
  <1>11. CacheCounted'
    BY <1>1, <1>2, StillCached DEF rest
  <1> QED
    BY <1>6, <1>7, <1>8, <1>9, <1>10, <1>11 DEF IInv

\* A write that the database refuses takes one of the upsets.
LEMMA UpsetFacts ==
    ASSUME Typed, Upset, setup' = setup
    PROVE  upsets' \in 0 .. setup.upsets
  <1>1. upsets \in 0 .. setup.upsets /\ setup.upsets \in Nat
    BY SetupFacts DEF Typed
  <1> QED
    BY <1>1 DEF Upset

\* The request goes on, and is missing in the database.
LEMMA CountFailsStep ==
    ASSUME IInv, NEW q \in Requests, CountFails(q)
    PROVE  IInv'
  <1>1. /\ req[q].at = "count" /\ UNCHANGED <<setup, day, arrivals, stores, delivered, lost, recent>>
        /\ counted' = counted + 1 /\ uncounted' = uncounted + 1
        /\ UNCHANGED <<row, buckets, quota, cache>>
        /\ upsets' \in 0 .. setup.upsets
    BY UpsetFacts DEF CountFails, At, IInv, stores
  <1>2. PICK r \in Request :
            /\ req' = [req EXCEPT ![q] = r] /\ r.at = "route" /\ r.tokens = req[q].tokens
    BY GoFacts DEF CountFails, IInv, Steps
  <1>3. /\ row.spent \in Nat /\ UsedToday \in Nat /\ counted \in Nat /\ uncounted \in Nat
        /\ delivered \in Nat /\ MaxTokens \in Nat /\ UsedToday' = UsedToday
    BY <1>1, SetupFacts DEF IInv, Typed, RowType, UsedToday
  <1>4. /\ Passes(r) /\ Passes(req[q]) /\ ~Owes(r) /\ ~Owes(req[q])
        /\ ~Counts2(r) /\ Counts2(req[q])
    BY <1>1, <1>2 DEF Passes, Owes, Counts2
  <1>5. Typed' /\ RpmLimit' = RpmLimit
    <2>1. /\ row' \in RowType /\ row'.day <= day /\ quota' \in QuotaType /\ IsStore(cache')
          /\ buckets' \in [rpm : Nat, tpm : Nat] /\ buckets'.rpm \in Buckets(RpmLimit)
          /\ buckets'.tpm \in Buckets(setup.tpm) /\ recent' \in Seq(0 .. Minute)
          /\ delivered' \in Nat /\ counted' \in Nat /\ uncounted' \in Nat /\ lost' \in Nat
      BY <1>1, <1>3 DEF IInv, Typed
    <2> QED
      BY <1>1, <1>2, <2>1, TypedMove DEF IInv
  <1>6. Quotas'
    <2>1. row'.spent + MaxTokens * Bit(Passes(r)) <= row.spent + MaxTokens * Bit(Passes(req[q]))
      BY <1>1, <1>3, <1>4 DEF Bit
    <2> QED
      BY <1>1, <1>2, <1>3, <2>1, QuotasMove DEF IInv
  <1>7. Charged'
    <2>1. delivered' + row.spent + (IF Owes(req[q]) THEN req[q].tokens ELSE 0)
              <= delivered + row'.spent + (IF Owes(r) THEN r.tokens ELSE 0)
      BY <1>1, <1>3, <1>4
    <2>2. delivered' \in Nat /\ row'.spent \in Nat
      BY <1>1, <1>3
    <2> QED
      BY <1>1, <1>2, <2>1, <2>2, ChargedKept DEF IInv
  <1>8. Daily'
    <2>1. setup.daily > 0 =>
              /\ counted' = UsedToday' + uncounted'
              /\ UsedToday' + Bit(Counts2(r)) <= UsedToday + Bit(Counts2(req[q]))
      BY <1>1, <1>3, <1>4 DEF IInv, Daily, Bit
    <2>2. UsedToday' \in Nat
      BY <1>3
    <2> QED
      BY <1>1, <1>2, <2>1, <2>2, DailyMove DEF IInv
  <1>9. Rates'
    BY <1>1, <1>5 DEF IInv, Rates
  <1>10. CacheCounted'
    BY <1>1, <1>2, StillCached
  <1> QED
    BY <1>5, <1>6, <1>7, <1>8, <1>9, <1>10 DEF IInv

\* The request goes on, and what it owes is written off.
LEMMA SpendFailsStep ==
    ASSUME IInv, NEW q \in Requests, SpendFails(q)
    PROVE  IInv'
  <1>1. /\ req[q].at = "spend" /\ UNCHANGED <<setup, day, arrivals, delivered, recent>>
        /\ UNCHANGED <<row, buckets, quota, cache, counted, uncounted>>
        /\ lost' = lost + 1 /\ upsets' \in 0 .. setup.upsets
    BY UpsetFacts DEF SpendFails, At, IInv, stores
  <1>2. PICK r \in Request :
            /\ req' = [req EXCEPT ![q] = r] /\ r.at = "record" /\ r.tokens = req[q].tokens
    BY GoFacts DEF SpendFails, IInv, Steps
  <1>3. /\ row.spent \in Nat /\ UsedToday \in Nat /\ delivered \in Nat /\ MaxTokens \in Nat
        /\ UsedToday' = UsedToday /\ lost \in Nat
        /\ req[q].tokens \in Nat /\ req[q].tokens <= MaxTokens
    BY <1>1, SetupFacts, UsedFacts DEF IInv, Typed, RowType, Request
  <1>4. /\ ~Passes(r) /\ Passes(req[q]) /\ ~Owes(r) /\ Owes(req[q])
        /\ ~Counts2(r) /\ ~Counts2(req[q])
    BY <1>1, <1>2 DEF Passes, Owes, Counts2
  <1>5. Typed' /\ RpmLimit' = RpmLimit
    <2>1. /\ row' \in RowType /\ row'.day <= day /\ quota' \in QuotaType /\ IsStore(cache')
          /\ buckets' \in [rpm : Nat, tpm : Nat] /\ buckets'.rpm \in Buckets(RpmLimit)
          /\ buckets'.tpm \in Buckets(setup.tpm) /\ recent' \in Seq(0 .. Minute)
          /\ delivered' \in Nat /\ counted' \in Nat /\ uncounted' \in Nat /\ lost' \in Nat
      BY <1>1, <1>3 DEF IInv, Typed
    <2> QED
      BY <1>1, <1>2, <2>1, TypedMove DEF IInv
  <1>6. Quotas'
    <2>1. row'.spent + MaxTokens * Bit(Passes(r)) <= row.spent + MaxTokens * Bit(Passes(req[q]))
      BY <1>1, <1>3, <1>4 DEF Bit
    <2> QED
      BY <1>1, <1>2, <1>3, <2>1, QuotasMove DEF IInv
  <1>7. Charged'
    <2> DEFINE free == 1
    <2>1. /\ free \in Nat /\ lost' = lost + free
          /\ delivered' + row.spent + (IF Owes(req[q]) THEN req[q].tokens ELSE 0)
                <= delivered + row'.spent + (IF Owes(r) THEN r.tokens ELSE 0) + free * MaxTokens
      BY <1>1, <1>3, <1>4
    <2>2. delivered' \in Nat /\ row'.spent \in Nat
      BY <1>1, <1>3
    <2> HIDE DEF free
    <2> QED
      BY <1>1, <1>2, <2>1, <2>2, ChargedMove DEF IInv
  <1>8. Daily'
    <2>1. setup.daily > 0 =>
              /\ counted' = UsedToday' + uncounted'
              /\ UsedToday' + Bit(Counts2(r)) <= UsedToday + Bit(Counts2(req[q]))
      BY <1>1, <1>3, <1>4 DEF IInv, Daily, Bit
    <2>2. UsedToday' \in Nat
      BY <1>3
    <2> QED
      BY <1>1, <1>2, <2>1, <2>2, DailyMove DEF IInv
  <1>9. Rates'
    BY <1>1, <1>5 DEF IInv, Rates
  <1>10. CacheCounted'
    BY <1>1, <1>2, StillCached
  <1> QED
    BY <1>5, <1>6, <1>7, <1>8, <1>9, <1>10 DEF IInv

LEMMA ProceedStep ==
    ASSUME IInv, NEW q \in Requests, Proceed(q)
    PROVE  IInv'
  <1>1. CASE Admit(q) \/ CheckTokens(q) \/ CountDay(q) \/ CountFails(q) \/ Route(q)
    BY <1>1, AdmitStep, CheckStep, CountDayStep, CountFailsStep, RouteStep
  <1>2. CASE Get(q) \/ Expire(q) \/ UncountExpired(q) \/ Fail(q)
    BY <1>2, GetStep, ExpireStep, UncountSteps, FailStep
  <1>3. CASE DeductTPM(q) \/ SpendTokens(q) \/ SpendFails(q) \/ RecordUse(q)
    BY <1>3, DeductStep, SpendStep, SpendFailsStep, RecordStep
  <1>4. CASE Store(q) \/ CountStored(q) \/ Evict(q) \/ UncountEvicted(q)
    BY <1>4, StoreStep, CountStep, EvictStep, UncountSteps
  <1>5. CASE Relay(q) \/ EndStream(q)
    BY <1>5, RelayStep, EndStreamStep
  <1>6. CASE \E by \in Cands, left \in Left, tokens \in Totals : Answer(q, by, tokens, left)
    BY <1>6, AnswerSteps
  <1>7. CASE \E by \in Cands, left \in Left, dialect \in Dialects :
                AnswerStream(q, by, dialect, left)
    BY <1>7, AnswerStreamStep
  <1>8. CASE \E left \in Left : Refuse(q, left)
    BY <1>8, RefuseStep
  <1> QED
    BY <1>1, <1>2, <1>3, <1>4, <1>5, <1>6, <1>7, <1>8 DEF Proceed

-----------------------------------------------------------------------------
(* The steps of the environment                                            *)

\* While no request moves, what counts requests stays.
LEMMA Unmoved ==
    ASSUME IInv, UNCHANGED <<setup, req>>
    PROVE  /\ row'.spent = row.spent => Quotas'
           /\ row'.spent = row.spent /\ delivered' = delivered /\ lost' = lost => Charged'
           /\ UsedToday' = UsedToday /\ UNCHANGED <<counted, uncounted>> => Daily'
           /\ cache'.n = cache.n /\ Stored(cache)' = Stored(cache) => CacheCounted'
           /\ RpmLimit' = RpmLimit
  <1>1. Passing' = Passing /\ Owing' = Owing /\ Counting' = Counting
    BY DEF Passing, Owing, Counting, Passes, Owes, Counts2
  <1>2. \A f : IsSum(f)' <=> IsSum(f)
    BY DEF IsSum
  <1>3. row'.spent = row.spent => Quotas'
    BY <1>1 DEF IInv, Quotas
  <1>4. row'.spent = row.spent /\ delivered' = delivered /\ lost' = lost => Charged'
    BY <1>1, <1>2 DEF IInv, Charged
  <1>5. UsedToday' = UsedToday /\ UNCHANGED <<counted, uncounted>> => Daily'
    BY <1>1 DEF IInv, Daily
  <1>6. cache'.n = cache.n /\ Stored(cache)' = Stored(cache) => CacheCounted'
    BY DEF IInv, CacheCounted, InSteps
  <1> QED
    BY <1>3, <1>4, <1>5, <1>6 DEF RpmLimit

LEMMA TypedAt ==
    ASSUME Typed, UNCHANGED <<setup, req>>
    PROVE  /\ req' \in [Requests -> Request]
           /\ \A q \in Requests : At(q, "relay")' => req'[q].stream \in StreamType
           /\ RpmLimit' = RpmLimit
  BY DEF Typed, At, RpmLimit

LEMMA TickStep ==
    ASSUME IInv, Tick
    PROVE  IInv'
  <1>1. UNCHANGED <<rest, row, req, delivered, counted, uncounted, lost>>
    BY DEF Tick
  <1> DEFINE rpm == IF RpmLimit = 0 THEN 0 ELSE Refill(buckets.rpm, RpmLimit)
             tpm == IF setup.tpm = 0 THEN 0 ELSE Refill(buckets.tpm, setup.tpm)
  <1>2. /\ RpmLimit \in Nat /\ setup.tpm \in Nat /\ buckets.rpm \in Buckets(RpmLimit)
        /\ buckets.tpm \in Buckets(setup.tpm) /\ Minute \in Nat /\ recent \in Seq(0 .. Minute)
        /\ buckets.rpm \in Nat
    BY SetupFacts DEF IInv, Typed
  <1>3. /\ rpm \in Buckets(RpmLimit) /\ rpm \in Nat /\ rpm <= buckets.rpm + RpmLimit
    <2>1. CASE RpmLimit = 0
      <3>1. RpmLimit * Minute \in Nat
        BY <1>2, BucketFacts
      <3> QED
        BY <1>2, <2>1, <3>1 DEF Buckets, NewBucket
    <2>2. CASE RpmLimit # 0
      <3>1. Refill(buckets.rpm, RpmLimit) \in Buckets(RpmLimit)
        BY <1>2, BucketFacts
      <3> QED
        BY <1>2, <2>2, <3>1, BucketFacts
    <2> QED
      BY <2>1, <2>2
  <1>4. tpm \in Buckets(setup.tpm) /\ tpm \in Nat
    <2>1. CASE setup.tpm = 0
      BY <1>2, <2>1, BucketFacts DEF Buckets, NewBucket
    <2>2. CASE setup.tpm # 0
      <3>1. Refill(buckets.tpm, setup.tpm) \in Buckets(setup.tpm)
        BY <1>2, BucketFacts
      <3> QED
        BY <1>2, <2>2, <3>1, BucketFacts
    <2> QED
      BY <2>1, <2>2
  <1>5. buckets' = [rpm |-> rpm, tpm |-> tpm]
    BY DEF Tick
  <1> HIDE DEF rpm, tpm
  <1>6. /\ DOMAIN recent = 1 .. Len(recent) /\ Len(recent) \in Nat
        /\ \A i \in DOMAIN recent : recent[i] \in 0 .. Minute
    BY <1>2, ElementOfSeq
  <1>7. /\ DOMAIN recent' = DOMAIN recent
        /\ \A i \in DOMAIN recent :
              recent'[i] = IF recent[i] = Minute THEN Minute ELSE recent[i] + 1
    BY DEF Tick
  <1>8. recent' \in Seq(0 .. Minute)
    <2>1. \A i \in DOMAIN recent : recent'[i] \in 0 .. Minute
      BY <1>2, <1>6, <1>7
    <2>2. recent' = [i \in DOMAIN recent |-> IF recent[i] = Minute THEN Minute ELSE recent[i] + 1]
      BY DEF Tick
    <2>3. recent' \in [1 .. Len(recent) -> 0 .. Minute]
      BY <1>6, <1>7, <2>1, <2>2
    <2> QED
      BY <1>6, <2>3, SeqDef
  <1>9. IsStore(cache') /\ cache'.n = cache.n /\ Stored(cache)' = Stored(cache)
    BY CacheFacts DEF Tick, IInv, Typed, Stored
  <1>10. quota' \in QuotaType
    BY LedgerFacts DEF Tick, IInv, Typed
  <1>11. Typed'
    <2>1. /\ buckets' \in [rpm : Nat, tpm : Nat] /\ buckets'.rpm = rpm /\ buckets'.tpm = tpm
      BY <1>3, <1>4, <1>5
    <2> QED
      BY <1>1, <1>3, <1>4, <1>8, <1>9, <1>10, <2>1, TypedAt DEF IInv, Typed, rest
  <1>12. Quotas' /\ Charged' /\ Daily' /\ CacheCounted' /\ RpmLimit' = RpmLimit
    <2>1. UsedToday' = UsedToday
      BY <1>1 DEF UsedToday, rest
    <2> QED
      BY <1>1, <1>9, <2>1, Unmoved DEF rest
  <1>13. Rates'
    <2>1. SUFFICES ASSUME NEW i \in DOMAIN recent', recent'[i] < Minute
                   PROVE  i * Minute + rpm <= RpmLimit * Minute + RpmLimit * recent'[i]
      BY <1>5, <1>12 DEF Rates
    <2>2. /\ i \in Nat /\ i \in DOMAIN recent /\ recent[i] \in Nat
          /\ recent'[i] = recent[i] + 1 /\ recent[i] < Minute
      BY <1>2, <1>6, <1>7, <2>1
    <2> DEFINE passed == i * Minute
               full == RpmLimit * Minute
               gained == RpmLimit * recent[i]
               now == RpmLimit * recent'[i]
    <2>3. passed \in Int /\ full \in Int /\ gained \in Int
      BY <1>2, <2>2
    <2>4. now = gained + RpmLimit
      BY <1>2, <2>2, Times1
    <2>5. passed + buckets.rpm <= full + gained
      BY <2>2 DEF IInv, Rates
    <2> HIDE DEF passed, full, gained, now
    <2>6. passed + rpm <= full + now
      BY <1>2, <1>3, <2>3, <2>4, <2>5
    <2> QED
      BY <2>6 DEF passed, full, now
  <1> QED
    BY <1>11, <1>12, <1>13 DEF IInv

LEMMA MidnightStep ==
    ASSUME IInv, Midnight
    PROVE  IInv'
  <1>1. /\ UNCHANGED <<setup, arrivals, upsets, stores, req, delivered, lost, recent>>
        /\ day' = day + 1 /\ day < setup.days /\ counted' = 0 /\ uncounted' = 0
        /\ day \in Nat /\ row.day \in Nat /\ row.day <= day /\ setup.days \in Nat
    BY SetupFacts DEF Midnight, IInv, Typed, RowType
  <1>2. Typed'
    <2>1. day' \in Nat /\ row'.day <= day' /\ day' <= setup'.days
      BY <1>1 DEF stores
    <2> QED
      BY <1>1, <2>1, TypedAt DEF IInv, Typed, stores
  <1>3. Quotas' /\ Charged' /\ CacheCounted' /\ RpmLimit' = RpmLimit
    <2>1. Stored(cache)' = Stored(cache) /\ row' = row /\ cache' = cache
      BY <1>1 DEF Stored, stores
    <2> QED
      BY <1>1, <2>1, Unmoved
  <1>4. Daily'
    <2>1. UsedToday' = 0
      BY <1>1 DEF UsedToday, stores
    <2>2. Counting' \in SUBSET Requests
      BY DEF Counting
    <2>3. /\ Cardinality(Counting') \in Nat /\ Cardinality(Requests) \in Nat
          /\ Cardinality(Counting') <= Cardinality(Requests) /\ setup.daily \in Nat
      BY <2>2, RequestsFinite, SetupFacts DEF IInv
    <2> QED
      BY <1>1, <2>1, <2>3 DEF Daily, Most
  <1>5. Rates'
    BY <1>1, <1>3 DEF IInv, Rates, stores
  <1> QED
    BY <1>2, <1>3, <1>4, <1>5 DEF IInv

LEMMA ProbeStep ==
    ASSUME IInv, NEW low \in BOOLEAN, ProbeBalance(low)
    PROVE  IInv'
  <1>1. UNCHANGED <<rest, row, buckets, cache, req, ghosts>> /\ quota' = SetBalanceLow(quota, low)
    BY DEF ProbeBalance
  <1>2. quota' \in QuotaType
    BY <1>1, LedgerFacts DEF IInv, Typed
  <1>3. Typed'
    BY <1>1, <1>2, TypedAt DEF IInv, Typed, rest, ghosts
  <1>4. Quotas' /\ Charged' /\ Daily' /\ CacheCounted' /\ RpmLimit' = RpmLimit
    <2>1. UsedToday' = UsedToday /\ Stored(cache)' = Stored(cache)
      BY <1>1 DEF UsedToday, Stored, rest
    <2> QED
      BY <1>1, <2>1, Unmoved DEF rest, ghosts
  <1>5. Rates'
    BY <1>1, <1>4 DEF IInv, Rates, ghosts
  <1> QED
    BY <1>3, <1>4, <1>5 DEF IInv

LEMMA FullFacts ==
    ASSUME Typed
    PROVE  /\ FullBuckets(setup) \in [rpm : Nat, tpm : Nat]
           /\ FullBuckets(setup).rpm \in Buckets(RpmLimit)
           /\ FullBuckets(setup).tpm \in Buckets(setup.tpm)
  <1>1. /\ RpmLimit \in Nat /\ setup.tpm \in Nat /\ buckets.rpm \in Buckets(RpmLimit)
        /\ buckets.tpm \in Buckets(setup.tpm)
    BY SetupFacts DEF Typed
  <1>2. /\ NewBucket(RpmLimit) \in Buckets(RpmLimit) /\ NewBucket(setup.tpm) \in Buckets(setup.tpm)
        /\ NewBucket(RpmLimit) \in Nat /\ NewBucket(setup.tpm) \in Nat
    BY <1>1, BucketFacts DEF NewBucket
  <1>3. FullBuckets(setup) = [rpm |-> NewBucket(RpmLimit), tpm |-> NewBucket(setup.tpm)]
    BY DEF FullBuckets, RpmLimit
  <1> QED
    BY <1>2, <1>3

LEMMA SetKeyStep ==
    ASSUME IInv, NEW enabled \in BOOLEAN, SetKey(enabled)
    PROVE  IInv'
  <1>1. /\ UNCHANGED <<setup, day, arrivals, quota, cache, req, delivered, counted>>
        /\ UNCHANGED <<uncounted, lost>>
        /\ row' = [row EXCEPT !.enabled = enabled] /\ buckets' = FullBuckets(setup)
        /\ recent' = <<>> /\ upsets' = upsets + 1 /\ upsets < setup.upsets
    BY DEF SetKey, Upset
  <1>2. /\ row' \in RowType /\ row'.spent = row.spent /\ row'.used = row.used
        /\ row'.day = row.day
    BY <1>1 DEF IInv, Typed, RowType
  <1>3. RpmLimit' = RpmLimit
    BY <1>1 DEF RpmLimit
  <1>4. Typed'
    <2>1. upsets' \in 0 .. setup.upsets
      <3>1. upsets \in 0 .. setup.upsets /\ setup.upsets \in Nat
        BY SetupFacts DEF IInv, Typed
      <3> QED
        BY <1>1, <3>1
    <2>2. /\ buckets' \in [rpm : Nat, tpm : Nat] /\ buckets'.rpm \in Buckets(RpmLimit)
          /\ buckets'.tpm \in Buckets(setup.tpm)
      BY <1>1, FullFacts DEF IInv
    <2>3. recent' \in Seq(0 .. Minute)
      BY <1>1
    <2> QED
      BY <1>1, <1>2, <1>3, <2>1, <2>2, <2>3, TypedAt DEF IInv, Typed
  <1>5. Quotas' /\ Charged' /\ Daily' /\ CacheCounted'
    <2>1. UsedToday' = UsedToday /\ Stored(cache)' = Stored(cache)
      BY <1>1, <1>2 DEF UsedToday, Stored
    <2> QED
      BY <1>1, <1>2, <2>1, Unmoved
  <1>6. Rates'
    BY <1>1 DEF Rates
  <1> QED
    BY <1>4, <1>5, <1>6 DEF IInv

LEMMA ReloadStep ==
    ASSUME IInv, Reload
    PROVE  IInv'
  <1>1. /\ UNCHANGED <<setup, day, arrivals, row, buckets, cache, ghosts>>
        /\ quota' = NewQuota /\ upsets' = upsets + 1 /\ upsets < setup.upsets
        /\ req' = [q \in Requests |-> IF At(q, "idle") THEN req[q] ELSE [req[q] EXCEPT !.old = TRUE]]
    BY DEF Reload, Upset
  <1>2. ASSUME NEW q \in Requests
        PROVE  /\ req'[q] \in Request /\ req'[q].at = req[q].at /\ req'[q].spent = req[q].spent
               /\ req'[q].today = req[q].today /\ req'[q].tokens = req[q].tokens
               /\ req'[q].stream = req[q].stream
    <2>1. req[q] \in Request
      BY DEF IInv, Typed
    <2>2. req'[q] = req[q] \/ req'[q] = [req[q] EXCEPT !.old = TRUE]
      BY <1>1
    <2> QED
      BY <2>1, <2>2 DEF Request
  <1>3. req' \in [Requests -> Request]
    BY <1>1, <1>2
  <1>4. quota' \in QuotaType
    BY <1>1, LedgerAssumption DEF NewQuota, QuotaType, Windows, Remainders, Freshness
  <1>5. RpmLimit' = RpmLimit
    BY <1>1 DEF RpmLimit
  <1>6. Typed'
    <2>1. upsets' \in 0 .. setup.upsets
      <3>1. upsets \in 0 .. setup.upsets /\ setup.upsets \in Nat
        BY SetupFacts DEF IInv, Typed
      <3> QED
        BY <1>1, <3>1
    <2>2. \A q \in Requests : At(q, "relay")' => req'[q].stream \in StreamType
      BY <1>2 DEF IInv, Typed, At
    <2> QED
      BY <1>1, <1>3, <1>4, <1>5, <2>1, <2>2 DEF IInv, Typed, ghosts
  <1>7. Passing' = Passing /\ Owing' = Owing /\ Counting' = Counting
    BY <1>1, <1>2 DEF Passing, Owing, Counting, Passes, Owes, Counts2
  <1>8. Quotas'
    BY <1>1, <1>7 DEF IInv, Quotas
  <1>9. Charged'
    <2>1. \A f : IsSum(f)' <=> IsSum(f)
      BY <1>2 DEF IsSum
    <2> QED
      BY <1>1, <1>7, <2>1 DEF IInv, Charged, ghosts
  <1>10. Daily'
    BY <1>1, <1>7 DEF IInv, Daily, UsedToday, ghosts
  <1>11. Rates'
    BY <1>1, <1>5 DEF IInv, Rates, ghosts
  <1>12. CacheCounted'
    <2>1. \A steps : InSteps(steps)' = InSteps(steps)
      <3>1. \A steps : {q \in Requests : req'[q].at \in steps} = {q \in Requests : req[q].at \in steps}
        BY <1>2
      <3> QED
        BY <3>1 DEF InSteps
    <2>2. Stored(cache)' = Stored(cache)
      BY <1>1 DEF Stored
    <2> QED
      BY <1>1, <2>1, <2>2 DEF IInv, CacheCounted
  <1> QED
    BY <1>6, <1>8, <1>9, <1>10, <1>11, <1>12 DEF IInv

\* Where every request is idle, none counts.
LEMMA AllIdle ==
    ASSUME NEW state, state = [q \in Requests |-> Idle]
    PROVE  /\ state \in [Requests -> Request]
           /\ \A q \in Requests : /\ state[q].at = "idle" /\ state[q].tokens = 0
                                  /\ ~Passes(state[q]) /\ ~Owes(state[q]) /\ ~Counts2(state[q])
  BY IdleFacts

\* A cost of nothing.
LEMMA NoSum ==
    ASSUME NEW f, f = [S \in SUBSET Requests |-> 0],
           \A q \in Requests : req[q].tokens = 0
    PROVE  IsSum(f)
  <1>1. f \in [SUBSET Requests -> Nat]
    OBVIOUS
  <1>2. \A S \in SUBSET Requests : f[S] = 0 /\ MaxTokens * Cardinality(S) \in Nat
    BY RequestsFinite, GatewayAssumption
  <1>3. \A S \in SUBSET Requests : \A q \in Requests \ S :
            S \cup {q} \in SUBSET Requests /\ f[S \cup {q}] = 0
    <2>1. \A S \in SUBSET Requests : \A q \in Requests \ S : S \cup {q} \in SUBSET Requests
      OBVIOUS
    <2> QED
      BY <1>2, <2>1
  <1> QED
    BY <1>1, <1>2, <1>3 DEF IsSum

LEMMA EmptyStore == IsStore(NewCache) /\ NewCache.n = 0 /\ DOMAIN NewCache.age = {}
  <1>1. NewCache.age \in Ages({}) /\ NewCache.n = 0 /\ DOMAIN NewCache.age = {}
    BY DEF NewCache, Ages
  <1>2. NewCache \in CacheOf({})
    BY <1>1 DEF NewCache, CacheOf, Ages
  <1> QED
    BY <1>1, <1>2 DEF IsStore

LEMMA FreshQuota == NewQuota \in QuotaType
  BY LedgerAssumption DEF NewQuota, QuotaType, Windows, Remainders, Freshness

LEMMA InitHolds == Init => IInv
  <1> SUFFICES ASSUME Init PROVE IInv
    OBVIOUS
  <1> USE DEF Init
  <1>1. /\ req \in [Requests -> Request]
        /\ \A q \in Requests : /\ req[q].at = "idle" /\ req[q].tokens = 0 /\ ~Passes(req[q])
                               /\ ~Owes(req[q]) /\ ~Counts2(req[q])
    BY AllIdle
  <1>2. Typed
    <2>1. setup \in Setup /\ row \in RowType /\ row.day = 0 /\ recent \in Seq(0 .. Minute)
      BY GatewayAssumption DEF RowType
    <2>2. /\ setup.days \in Nat /\ setup.arrivals \in Nat /\ setup.upsets \in Nat
          /\ setup.tpm \in Nat /\ RpmLimit \in Nat
      BY <2>1 DEF Setup, RpmLimit
    <2>3. buckets = [rpm |-> NewBucket(RpmLimit), tpm |-> NewBucket(setup.tpm)]
      BY DEF FullBuckets, RpmLimit
    <2>4. \A n \in Nat : NewBucket(n) \in Nat /\ NewBucket(n) \in Buckets(n)
      <3>1. \A n \in Nat : n * Minute \in Nat
        BY MinuteAssumption
      <3> QED
        BY <3>1 DEF NewBucket, Buckets
    <2>5. \A q \in Requests : ~At(q, "relay")
      BY <1>1 DEF At
    <2>6. quota \in QuotaType /\ IsStore(cache)
      BY FreshQuota, EmptyStore
    <2>7. /\ buckets \in [rpm : Nat, tpm : Nat]
          /\ buckets.rpm \in Buckets(RpmLimit) /\ buckets.tpm \in Buckets(setup.tpm)
      BY <2>2, <2>3, <2>4
    <2>8. /\ day \in Nat /\ row.day <= day /\ day <= setup.days
          /\ arrivals \in 0 .. setup.arrivals /\ upsets \in 0 .. setup.upsets
          /\ delivered \in Nat /\ counted \in Nat /\ uncounted \in Nat /\ lost \in Nat
      BY <2>1, <2>2
    <2> QED
      BY <1>1, <2>1, <2>5, <2>6, <2>7, <2>8 DEF Typed
  <1>3. /\ Passing = {} /\ Owing = {} /\ Counting = {} /\ Cardinality({}) = 0
        /\ Cardinality(Requests) \in Nat /\ MaxTokens \in Nat \ {0}
        /\ \A q \in Requests : req[q].at = "idle"
    BY <1>1, RequestsFinite, FS_EmptySet, GatewayAssumption DEF Passing, Owing, Counting
  <1>4. MaxTokens * 0 = 0 /\ MaxTokens * Cardinality(Requests) \in Nat
    BY <1>3
  <1>5. setup.quota \in Nat /\ setup.daily \in Nat
    BY <1>2, SetupFacts
  <1>6. Quotas
    <2>1. row.spent = 0 /\ Cardinality(Passing) = 0
      BY <1>3
    <2>2. setup.quota > 0 =>
              row.spent + MaxTokens * 0 < setup.quota + MaxTokens * Cardinality(Requests)
      BY <1>4, <1>5, <2>1
    <2> QED
      BY <2>1, <2>2 DEF Quotas, Most
  <1>7. Charged
    <2> DEFINE f == [S \in SUBSET Requests |-> 0]
    <2>1. IsSum(f) /\ f \in [SUBSET Requests -> Nat] /\ f[Owing] = 0
      BY <1>1, <1>3, NoSum
    <2>2. row.spent = 0 /\ delivered = 0 /\ lost * MaxTokens = 0
      BY <1>3
    <2> HIDE DEF f
    <2>3. delivered <= row.spent + f[Owing] + lost * MaxTokens
      BY <2>1, <2>2
    <2> QED
      BY <2>1, <2>3 DEF Charged
  <1>8. Daily
    <2>1. UsedToday = 0 /\ Cardinality(Counting) = 0
      BY <1>3 DEF UsedToday
    <2> QED
      BY <1>3, <1>5, <2>1 DEF Daily, Most
  <1>9. Rates
    BY DEF Rates
  <1>10. CacheCounted
    <2>1. Stored(cache) = {} /\ cache.n = 0
      BY EmptyStore DEF Stored
    <2>2. \A steps : "idle" \notin steps => InSteps(steps) = 0
      <3>1. \A steps : "idle" \notin steps => {q \in Requests : req[q].at \in steps} = {}
        BY <1>1
      <3> QED
        BY <1>3, <3>1 DEF InSteps
    <2>3. InSteps({"added"}) = 0 /\ InSteps({"uncount", "evicted"}) = 0
      BY <2>2
    <2> QED
      BY <1>3, <2>1, <2>3 DEF CacheCounted
  <1> QED
    BY <1>2, <1>6, <1>7, <1>8, <1>9, <1>10 DEF IInv

LEMMA RestartStep ==
    ASSUME IInv, Restart
    PROVE  IInv'
  <1> DEFINE Busy == {q \in Requests : ~At(q, "idle")}
  <1>1. /\ UNCHANGED <<setup, day, arrivals, row, delivered, counted, uncounted>>
        /\ buckets' = FullBuckets(setup) /\ quota' = NewQuota /\ cache' = NewCache
        /\ req' = [q \in Requests |-> Idle] /\ lost' = lost + Cardinality(Busy)
        /\ recent' = <<>> /\ upsets' = upsets + 1 /\ upsets < setup.upsets
    BY DEF Restart, Upset
  <1>2. /\ req' \in [Requests -> Request]
        /\ \A q \in Requests : /\ req'[q].at = "idle" /\ req'[q].tokens = 0 /\ ~Passes(req'[q])
                               /\ ~Owes(req'[q]) /\ ~Counts2(req'[q])
    BY <1>1, AllIdle
  <1>3. RpmLimit' = RpmLimit
    BY <1>1 DEF RpmLimit
  <1>4. /\ Busy \in SUBSET Requests /\ Cardinality(Busy) \in Nat /\ lost \in Nat
        /\ MaxTokens \in Nat /\ row.spent \in Nat /\ delivered \in Nat /\ counted \in Nat
    <2>1. Busy \in SUBSET Requests
      OBVIOUS
    <2>2. Cardinality(Busy) \in Nat
      BY <2>1, RequestsFinite
    <2> QED
      BY <2>1, <2>2, SetupFacts DEF IInv, Typed, RowType
  <1>5. Typed'
    <2>1. upsets' \in 0 .. setup.upsets
      <3>1. upsets \in 0 .. setup.upsets /\ setup.upsets \in Nat
        BY SetupFacts DEF IInv, Typed
      <3> QED
        BY <1>1, <3>1
    <2>2. /\ buckets' \in [rpm : Nat, tpm : Nat] /\ buckets'.rpm \in Buckets(RpmLimit)
          /\ buckets'.tpm \in Buckets(setup.tpm)
      BY <1>1, FullFacts DEF IInv
    <2>3. recent' \in Seq(0 .. Minute) /\ lost' \in Nat
      BY <1>1, <1>4
    <2>4. quota' \in QuotaType /\ IsStore(cache')
      BY <1>1, FreshQuota, EmptyStore
    <2>5. \A q \in Requests : At(q, "relay")' => req'[q].stream \in StreamType
      BY <1>2 DEF At
    <2> QED
      BY <1>1, <1>2, <1>3, <2>1, <2>2, <2>3, <2>4, <2>5 DEF IInv, Typed
  <1>6. Passing' = {} /\ Owing' = {} /\ Counting' = {} /\ Cardinality({}) = 0
    <2>1. Passing' = {}
      BY <1>1, <1>2 DEF Passing, Passes
    <2>2. Owing' = {}
      BY <1>1, <1>2 DEF Owing, Owes
    <2>3. Counting' = {}
      BY <1>1, <1>2 DEF Counting, Counts2
    <2> QED
      BY <2>1, <2>2, <2>3, FS_EmptySet
  <1>7. Quotas'
    <2> DEFINE may == MaxTokens * Cardinality(Passing)
    <2>1. Passing \in SUBSET Requests
      BY DEF Passing
    <2>2. may \in Nat /\ MaxTokens * 0 = 0 /\ Most(MaxTokens) \in Nat
      BY <1>4, <2>1, RequestsFinite DEF Most
    <2>3. setup.quota > 0 => row.spent + may < setup.quota + Most(MaxTokens)
      BY DEF IInv, Quotas
    <2>4. setup.quota \in Nat
      BY SetupFacts DEF IInv
    <2> HIDE DEF may
    <2>5. setup.quota > 0 => row.spent + 0 < setup.quota + Most(MaxTokens)
      BY <1>4, <2>2, <2>3, <2>4
    <2>6. MaxTokens * Cardinality(Passing') = 0
      BY <1>6, <2>2
    <2> QED
      BY <1>1, <2>5, <2>6 DEF Quotas, Most
  <1>8. Charged'
    <2> DEFINE zero == [S \in SUBSET Requests |-> 0]
    <2>1. PICK f \in [SUBSET Requests -> Nat] :
              IsSum(f) /\ delivered <= row.spent + f[Owing] + lost * MaxTokens
      BY DEF IInv, Charged
    <2>2. Owing \in SUBSET Requests /\ Owing \subseteq Busy
      BY DEF Owing, Owes, At
    <2>3. f[Owing] \in Nat /\ f[Owing] <= MaxTokens * Cardinality(Owing)
      BY <2>1, <2>2 DEF IsSum
    <2>4. Cardinality(Owing) \in Nat /\ Cardinality(Owing) <= Cardinality(Busy)
      <3>1. IsFiniteSet(Busy)
        BY <1>4, RequestsFinite
      <3> QED
        BY <2>2, <3>1, RequestsFinite, FS_Subset
    <2>5. f[Owing] <= MaxTokens * Cardinality(Busy)
      <3>1. MaxTokens * Cardinality(Owing) <= MaxTokens * Cardinality(Busy)
        BY <1>4, <2>4, TimesMonotone
      <3>2. MaxTokens * Cardinality(Owing) \in Nat /\ MaxTokens * Cardinality(Busy) \in Nat
        BY <1>4, <2>4
      <3> DEFINE x == MaxTokens * Cardinality(Owing)
                 y == MaxTokens * Cardinality(Busy)
      <3> HIDE DEF x, y
      <3>3. f[Owing] <= x /\ x <= y /\ x \in Nat /\ y \in Nat
        BY <2>3, <3>1, <3>2 DEF x, y
      <3>4. f[Owing] <= y
        BY <2>3, <3>3
      <3> QED
        BY <3>4 DEF y
    <2>6. lost' * MaxTokens = lost * MaxTokens + MaxTokens * Cardinality(Busy)
      <3>1. Cardinality(Busy) * MaxTokens = MaxTokens * Cardinality(Busy)
        BY <1>4
      <3> QED
        BY <1>1, <1>4, <3>1, Distributes
    <2>7. zero \in [SUBSET Requests -> Nat] /\ zero[Owing'] = 0
      BY <1>6
    <2>8. IsSum(zero)'
      <3>1. \A S \in SUBSET Requests : zero[S] = 0 /\ MaxTokens * Cardinality(S) \in Nat
        BY RequestsFinite, GatewayAssumption
      <3>2. \A S \in SUBSET Requests : \A q \in Requests \ S : S \cup {q} \in SUBSET Requests
        OBVIOUS
      <3> HIDE DEF zero
      <3>3. \A S \in SUBSET Requests :
                /\ zero[S] <= MaxTokens * Cardinality(S)
                /\ \A q \in Requests \ S : zero[S \cup {q}] = zero[S] + req'[q].tokens
        BY <1>2, <3>1, <3>2
      <3> QED
        BY <2>7, <3>3 DEF IsSum
    <2> DEFINE a == lost * MaxTokens
               b == MaxTokens * Cardinality(Busy)
               c == lost' * MaxTokens
               d == f[Owing]
    <2>9. a \in Nat /\ b \in Nat /\ d \in Nat
      BY <1>4, <2>3
    <2>10. c = a + b /\ d <= b /\ delivered <= row.spent + d + a
      BY <2>1, <2>5, <2>6
    <2> HIDE DEF a, b, c, d
    <2>11. delivered <= row.spent + 0 + c
      BY <1>4, <2>9, <2>10
    <2>12. delivered' <= row'.spent + zero[Owing'] + lost' * MaxTokens
      BY <1>1, <2>7, <2>11 DEF c
    <2> QED
      BY <2>7, <2>8, <2>12 DEF Charged
  <1>9. Daily'
    <2>1. Counting \in SUBSET Requests
      BY DEF Counting
    <2>2. /\ Cardinality(Counting) \in Nat /\ Most(1) \in Nat /\ UsedToday' = UsedToday
          /\ setup.daily \in Nat /\ UsedToday \in Nat
      BY <1>1, <2>1, RequestsFinite, SetupFacts, UsedFacts DEF Most, IInv
    <2>3. setup.daily > 0 =>
              counted = UsedToday + uncounted /\ UsedToday + 0 < setup.daily + Most(1)
      BY <1>4, <2>2 DEF IInv, Daily
    <2>4. Cardinality(Counting') = 0
      BY <1>6
    <2> QED
      BY <1>1, <2>2, <2>3, <2>4 DEF Daily, Most
  <1>10. Rates'
    BY <1>1 DEF Rates
  <1>11. CacheCounted'
    <2>1. Stored(cache)' = {} /\ cache'.n = 0
      BY <1>1, EmptyStore DEF Stored
    <2>2. \A steps : "idle" \notin steps => InSteps(steps)' = 0
      <3>1. \A steps : "idle" \notin steps => {q \in Requests : req'[q].at \in steps} = {}
        BY <1>2
      <3> QED
        BY <1>6, <3>1 DEF InSteps
    <2>3. InSteps({"added"})' = 0 /\ InSteps({"uncount", "evicted"})' = 0
      BY <2>2
    <2> QED
      BY <1>6, <2>1, <2>3 DEF CacheCounted
  <1> QED
    BY <1>5, <1>7, <1>8, <1>9, <1>10, <1>11 DEF IInv

-----------------------------------------------------------------------------
(* The theorems                                                            *)

LEMMA StepHolds == IInv /\ [Next]_vars => IInv'
  <1> SUFFICES ASSUME IInv, [Next]_vars PROVE IInv'
    OBVIOUS
  <1>1. ASSUME NEW q \in Requests, Arrive(q) PROVE IInv'
    BY <1>1, ArriveStep
  <1>2. ASSUME NEW q \in Requests, Proceed(q) PROVE IInv'
    BY <1>2, ProceedStep
  <1>3. CASE Tick \/ Midnight
    BY <1>3, TickStep, MidnightStep
  <1>4. CASE Reload \/ Restart
    BY <1>4, ReloadStep, RestartStep
  <1>5. ASSUME NEW yes \in BOOLEAN, ProbeBalance(yes) \/ SetKey(yes) PROVE IInv'
    BY <1>5, ProbeStep, SetKeyStep
  <1>6. CASE UNCHANGED vars
    <2>1. /\ UNCHANGED <<setup, row, day, buckets, quota, cache, req, arrivals, upsets>>
          /\ UNCHANGED <<delivered, counted, uncounted, lost, recent>>
      BY <1>6 DEF vars
    <2>2. UsedToday' = UsedToday /\ Stored(cache)' = Stored(cache)
      BY <2>1 DEF UsedToday, Stored
    <2>3. Quotas' /\ Charged' /\ Daily' /\ CacheCounted' /\ RpmLimit' = RpmLimit
      BY <2>1, <2>2, Unmoved
    <2>4. Typed'
      BY <2>1, TypedAt DEF IInv, Typed
    <2>5. Rates'
      BY <2>1, <2>3 DEF IInv, Rates
    <2> QED
      BY <2>3, <2>4, <2>5 DEF IInv
  <1> QED
    BY <1>1, <1>2, <1>3, <1>4, <1>5, <1>6 DEF Next

\* Every state that requests, time, reloads, restarts and changes of the key can reach
\* satisfies the invariant (server.go:510-700, auth.go:243, ratelimit.go, quota.go,
\* cache.go).
THEOREM Invariance == Spec => []IInv
  BY InitHolds, StepHolds, PTL DEF Spec

\* The types of the stores and of every request; a bucket is never overdrawn nor over
\* its limit (ratelimit.go:103).
THEOREM TypeCorrect == Spec => []TypeOK
  <1>1. ASSUME IInv PROVE TypeOK
    <2>1. Typed
      BY <1>1 DEF IInv
    <2>2. /\ setup \in Setups /\ row.enabled \in BOOLEAN /\ row.spent \in Nat /\ row.used \in Nat
          /\ row.day \in 0 .. day /\ day \in 0 .. setup.days
      BY <2>1, SetupFacts DEF Typed, RowType
    <2>3. IsQuota(quota)
      BY <2>1 DEF Typed, QuotaType, IsQuota, Windows, Remainders, Freshness
    <2>4. IsCache(cache)
      <3>1. /\ cache.n \in Int /\ Stored(cache) \in SUBSET CacheKeys
            /\ cache.age \in Ages(Stored(cache))
        BY <2>1, StoreFacts DEF Typed
      <3> QED
        BY <3>1 DEF IsCache, Stored, Ages
    <2>5. ASSUME NEW q \in Requests
          PROVE  /\ req[q].at \in Steps /\ req[q].spent \in Nat /\ req[q].today \in Nat
                 /\ req[q].first \in Cands /\ req[q].by \in Cands
                 /\ req[q].tokens \in 0 .. MaxTokens /\ req[q].old \in BOOLEAN
                 /\ At(q, "relay") => IsStream(req[q].stream)
      <3>1. req[q] \in Request /\ (At(q, "relay") => req[q].stream \in StreamType)
        BY <2>1 DEF Typed
      <3>2. \A t \in StreamType : IsStream(t)
        BY DEF StreamType, IsStream, Data, Chunks, Told
      <3> QED
        BY <3>1, <3>2 DEF Request
    <2> QED
      BY <2>1, <2>2, <2>3, <2>4, <2>5 DEF Typed, TypeOK
  <1> QED
    BY <1>1, Invariance, PTL

\* However many requests are under way at a time, wherever restarts cut them off and
\* whichever charges and counts the database refuses, the quotas are overrun by what the
\* requests under way cost and by the requests lost in one of these ways, and no more
\* (server.go:510, 567, 1150, auth.go:243).
THEOREM OverrunHolds == Spec => []OverrunBounded
  <1>1. ASSUME IInv PROVE OverrunBounded
    <2>1. /\ MaxTokens \in Nat /\ row.spent \in Nat /\ delivered \in Nat /\ lost \in Nat
          /\ setup.quota \in Nat /\ setup.daily \in Nat /\ counted \in Nat
          /\ uncounted \in Nat /\ UsedToday \in Nat
      BY <1>1, SetupFacts DEF IInv, Typed, RowType, UsedToday
    <2>2. Owing \subseteq Passing /\ Passing \in SUBSET Requests /\ Counting \in SUBSET Requests
      BY DEF Owing, Passing, Counting, Owes, Passes
    <2>3. /\ Cardinality(Owing) \in Nat /\ Cardinality(Passing) \in Nat
          /\ Cardinality(Owing) <= Cardinality(Passing) /\ Cardinality(Counting) \in Nat
          /\ Cardinality(Requests) \in Nat
      <3>1. IsFiniteSet(Passing)
        BY <2>2, RequestsFinite
      <3> QED
        BY <2>2, <3>1, RequestsFinite, FS_Subset
    <2>4. PICK f \in [SUBSET Requests -> Nat] :
              IsSum(f) /\ delivered <= row.spent + f[Owing] + lost * MaxTokens
      BY <1>1 DEF IInv, Charged
    <2> DEFINE owed == f[Owing]
               may == MaxTokens * Cardinality(Passing)
               less == MaxTokens * Cardinality(Owing)
               gone == lost * MaxTokens
               most == Most(MaxTokens)
    <2>5. owed \in Nat /\ owed <= less
      BY <2>2, <2>4 DEF IsSum
    <2>6. less <= may
      BY <2>1, <2>3, TimesMonotone
    <2>7. may \in Nat /\ less \in Nat /\ gone \in Nat /\ most \in Nat
      BY <2>1, <2>3 DEF Most
    <2>8. delivered <= row.spent + owed + gone
      BY <2>4
    <2>9. setup.quota > 0 => row.spent + may < setup.quota + most
      BY <1>1 DEF IInv, Quotas
    <2> HIDE DEF owed, may, less, gone, most
    <2>10. setup.quota > 0 => delivered < setup.quota + most + gone
      BY <2>1, <2>5, <2>6, <2>7, <2>8, <2>9
    <2>11. setup.daily > 0 => counted < setup.daily + Most(1) + uncounted
      <3>1. Most(1) \in Nat
        BY <2>3 DEF Most
      <3> QED
        BY <1>1, <2>1, <2>3, <3>1 DEF IInv, Daily
    <2> QED
      BY <2>10, <2>11 DEF OverrunBounded, most, gone
  <1> QED
    BY <1>1, Invariance, PTL

\* For any limit and any history of requests and pauses, no minute sees more than twice
\* the limit pass (ratelimit.go:39).
THEOREM RateHolds == Spec => []RateBounded
  <1>1. ASSUME IInv PROVE RateBounded
    <2>1. SUFFICES ASSUME NEW i \in DOMAIN recent, recent[i] < Minute
                   PROVE  i <= 2 * RpmLimit
      BY DEF RateBounded
    <2>2. /\ RpmLimit \in Nat /\ Minute \in Nat \ {0} /\ buckets.rpm \in Nat
          /\ recent \in Seq(0 .. Minute)
      BY <1>1, SetupFacts, MinuteAssumption DEF IInv, Typed
    <2>3. i \in Nat /\ recent[i] \in Nat
      BY <2>1, <2>2, ElementOfSeq
    <2> DEFINE passed == i * Minute
               full == RpmLimit * Minute
               gained == RpmLimit * recent[i]
    <2>4. passed + buckets.rpm <= full + gained
      BY <1>1, <2>1 DEF IInv, Rates
    <2>5. gained <= full
      BY <2>1, <2>2, <2>3, TimesMonotone
    <2>6. passed \in Nat /\ full \in Nat /\ gained \in Nat
      BY <2>2, <2>3
    <2>7. ASSUME i > 2 * RpmLimit PROVE FALSE
      <3>1. 2 * RpmLimit + 1 <= i /\ 2 * RpmLimit + 1 \in Nat
        BY <2>2, <2>3, <2>7
      <3>2. Minute * (2 * RpmLimit + 1) <= Minute * i
        BY <2>2, <2>3, <3>1, TimesMonotone
      <3>3. Minute * (2 * RpmLimit + 1) = full + full + Minute /\ Minute * i = passed
        BY <2>2, <2>3
      <3> HIDE DEF passed, full, gained
      <3>4. full + full + Minute <= passed
        BY <3>2, <3>3
      <3> QED
        BY <2>2, <2>4, <2>5, <2>6, <3>4
    <2> QED
      BY <2>2, <2>3, <2>7
  <1> QED
    BY <1>1, Invariance, PTL

\* Whatever gets, stores and evictions overlap, the counter of the cache never exceeds
\* what is stored by more than the operations under way (cache.go:87-100).
THEOREM CacheHolds == Spec => []CacheCounted
  <1>1. IInv => CacheCounted
    BY DEF IInv
  <1> QED
    BY <1>1, Invariance, PTL

-----------------------------------------------------------------------------
(* The streams                                                             *)

Streams == \A q \in Requests : At(q, "relay") => Good(req[q].stream)

LEMMA StreamsMove ==
    ASSUME Typed, Streams, NEW q \in Requests, NEW r, req' = [req EXCEPT ![q] = r],
           r.at = "relay" => Good(r.stream)
    PROVE  Streams'
  <1>1. req \in [Requests -> Request]
    BY DEF Typed
  <1>2. ASSUME NEW p \in Requests, req'[p].at = "relay"
        PROVE  Good(req'[p].stream)
    <2>1. req'[p] = IF p = q THEN r ELSE req[p]
      BY <1>1
    <2> QED
      BY <1>2, <2>1 DEF Streams, At
  <1> QED
    BY <1>2 DEF Streams, At

\* The steps of a request that are not about a stream.
LEMMA StreamsGo ==
    ASSUME Typed, Streams, NEW q \in Requests,
           Done(q) \/ \E step \in Steps \ {"relay"} : Go(q, step)
    PROVE  Streams'
  <1>1. CASE Done(q)
    BY <1>1, StreamsMove DEF Done, Idle
  <1>2. ASSUME NEW step \in Steps \ {"relay"}, Go(q, step)
        PROVE  Streams'
    <2>1. PICK r \in Request : req' = [req EXCEPT ![q] = r] /\ r.at = step
      BY <1>2, GoFacts
    <2> QED
      BY <2>1, StreamsMove
  <1> QED
    BY <1>1, <1>2

LEMMA StreamsCharge ==
    ASSUME Typed, Streams, NEW q \in Requests, NEW by, NEW tokens, Charge(q, by, tokens)
    PROVE  Streams'
  <1>1. CASE Done(q)
    BY <1>1, StreamsGo
  <1>2. CASE ~Done(q)
    <2> DEFINE r == [req[q] EXCEPT !.at = "deduct", !.by = by, !.tokens = tokens]
    <2>1. req' = [req EXCEPT ![q] = r] /\ req[q] \in Request
      BY <1>2 DEF Charge, Typed
    <2>2. r.at = "deduct"
      BY <2>1 DEF Request
    <2> HIDE DEF r
    <2> QED
      BY <2>1, <2>2, StreamsMove
  <1> QED
    BY <1>1, <1>2

LEMMA StreamsRelay ==
    ASSUME Typed, Streams, NEW q \in Requests, Relay(q)
    PROVE  Streams'
  <1> DEFINE t == req[q].stream
  <1>1. Good(t) /\ ~t.closed /\ req[q] \in Request
    BY DEF Relay, Streams, Typed, At
  <1>2. PICK u : Good(u) /\ req' = [req EXCEPT ![q].stream = u]
    <2>1. ASSUME NEW e \in EventsOf(t.dialect), ~t.done, t.data = NoEvent
          PROVE  Good(Hears(t, e))
      BY <1>1, <2>1, HearsIsGood
    <2>2. ~t.done /\ t.data # NoEvent => Good(Separated(t))
      BY <1>1, SeparatedIsGood
    <2>3. Good(Over(t))
      BY <1>1, OverIsGood
    <2> QED
      BY <2>1, <2>2, <2>3 DEF Relay
  <1> DEFINE r == [req[q] EXCEPT !.stream = u]
  <1>3. req' = [req EXCEPT ![q] = r] /\ r.stream = u
    BY <1>1, <1>2 DEF Request
  <1> HIDE DEF r
  <1> QED
    BY <1>2, <1>3, StreamsMove

LEMMA StreamsAnswer ==
    ASSUME Typed, Streams, NEW q \in Requests, NEW by, NEW left, NEW dialect \in Dialects,
           AnswerStream(q, by, dialect, left)
    PROVE  Streams'
  <1> DEFINE r == [req[q] EXCEPT !.at = "relay", !.by = by, !.stream = NewStream(dialect)]
  <1>1. req' = [req EXCEPT ![q] = r] /\ req[q] \in Request
    BY DEF AnswerStream, Typed
  <1>2. r.stream = NewStream(dialect)
    BY <1>1 DEF Request
  <1>3. Good(NewStream(dialect))
    BY NewIsGood
  <1> HIDE DEF r
  <1> QED
    BY <1>1, <1>2, <1>3, StreamsMove

LEMMA StreamsRoute ==
    ASSUME Typed, Streams, NEW q \in Requests, Arrive(q) \/ Route(q)
    PROVE  Streams'
  <1>1. req[q] \in Request
    BY DEF Typed
  <1>2. CASE Arrive(q)
    <2> DEFINE r == [req[q] EXCEPT !.at = "admit", !.spent = row.spent, !.today = UsedToday]
    <2>1. req' = [req EXCEPT ![q] = r] /\ r.at = "admit"
      BY <1>1, <1>2 DEF Arrive, Request
    <2> HIDE DEF r
    <2> QED
      BY <2>1, StreamsMove
  <1>3. CASE Route(q) /\ Done(q)
    BY <1>3, StreamsGo
  <1>4. CASE Route(q) /\ ~Done(q)
    <2> DEFINE step == IF Cached THEN "get" ELSE "send"
               first == IF ~req[q].old /\ Exhausted(quota, setup.limit) THEN "spare" ELSE "metered"
               r == [req[q] EXCEPT !.at = step, !.first = first]
    <2>1. req' = [req EXCEPT ![q] = r]
      BY <1>4 DEF Route
    <2> HIDE DEF first
    <2>2. r.at # "relay"
      BY <1>1 DEF Request
    <2> HIDE DEF r
    <2> QED
      BY <2>1, <2>2, StreamsMove
  <1> QED
    BY <1>2, <1>3, <1>4

LEMMA StreamsProceed ==
    ASSUME Typed, Streams, NEW q \in Requests, Proceed(q)
    PROVE  Streams'
  <1> DEFINE Goes == Done(q) \/ \E step \in Steps \ {"relay"} : Go(q, step)
  <1>1. CASE \/ Admit(q) \/ CheckTokens(q) \/ CountDay(q) \/ CountFails(q)
             \/ Get(q) \/ Expire(q) \/ UncountExpired(q) \/ Fail(q)
    <2>1. Goes
      BY <1>1 DEF Admit, CheckTokens, CountDay, CountFails, Get, Expire, UncountExpired, Fail, Steps
    <2> QED
      BY <2>1, StreamsGo
  <1>2. CASE \/ DeductTPM(q) \/ SpendTokens(q) \/ SpendFails(q) \/ RecordUse(q)
             \/ Store(q) \/ CountStored(q) \/ Evict(q) \/ UncountEvicted(q)
    <2>1. Goes
      BY <1>2 DEF DeductTPM, SpendTokens, SpendFails, RecordUse, Store, CountStored, Evict, UncountEvicted,
                  Steps
    <2> QED
      BY <2>1, StreamsGo
  <1>3. CASE Route(q)
    BY <1>3, StreamsRoute
  <1>4. CASE Relay(q)
    BY <1>4, StreamsRelay
  <1>5. CASE EndStream(q)
    <2>1. Charge(q, req[q].by, Total(req[q].stream.tracked))
      BY <1>5 DEF EndStream
    <2> QED
      BY <2>1, StreamsCharge
  <1>6. ASSUME NEW by \in Cands, NEW left \in Left, NEW tokens \in Totals,
               Answer(q, by, tokens, left)
        PROVE  Streams'
    <2>1. Charge(q, by, tokens)
      BY <1>6 DEF Answer
    <2> QED
      BY <2>1, StreamsCharge
  <1>7. ASSUME NEW by \in Cands, NEW left \in Left, NEW dialect \in Dialects,
               AnswerStream(q, by, dialect, left)
        PROVE  Streams'
    BY <1>7, StreamsAnswer
  <1>8. ASSUME NEW left \in Left, Refuse(q, left)
        PROVE  Streams'
    <2>1. Go(q, "again") /\ "again" \in Steps \ {"relay"}
      BY <1>8 DEF Refuse, Steps
    <2> QED
      BY <2>1, StreamsGo
  <1> QED
    BY <1>1, <1>2, <1>3, <1>4, <1>5, <1>6, <1>7, <1>8 DEF Proceed

LEMMA StreamsStep ==
    ASSUME Typed, Streams, [Next]_vars
    PROVE  Streams'
  <1>1. ASSUME NEW q \in Requests, Arrive(q) \/ Proceed(q)
        PROVE  Streams'
    BY <1>1, StreamsRoute, StreamsProceed
  <1>2. ASSUME UNCHANGED req
        PROVE  Streams'
    BY <1>2 DEF Streams, At
  <1>3. CASE Tick \/ Midnight \/ \E yes \in BOOLEAN : ProbeBalance(yes) \/ SetKey(yes)
    <2>1. UNCHANGED req
      BY <1>3 DEF Tick, Midnight, ProbeBalance, SetKey
    <2> QED
      BY <1>2, <2>1
  <1>4. CASE Reload
    <2>1. ASSUME NEW q \in Requests
          PROVE  req'[q].at = req[q].at /\ req'[q].stream = req[q].stream
      <3>1. req[q] \in Request
        BY DEF Typed
      <3>2. req'[q] = req[q] \/ req'[q] = [req[q] EXCEPT !.old = TRUE]
        BY <1>4 DEF Reload
      <3> QED
        BY <3>1, <3>2 DEF Request
    <2> QED
      BY <2>1 DEF Streams, At
  <1>5. CASE Restart
    BY <1>5 DEF Restart, Streams, At, Idle
  <1>6. CASE UNCHANGED vars
    BY <1>2, <1>6 DEF vars
  <1> QED
    BY <1>1, <1>3, <1>4, <1>5, <1>6 DEF Next

\* Between any two lines a stream is in order: what has been sent has its shape, and
\* what has not been said yet is in the event at hand (server.go, relayStream).
THEOREM StreamsInvariance == Spec => []Streams
  <1>1. Init => Streams
    BY DEF Init, Streams, At, Idle
  <1>2. IInv => Typed
    BY DEF IInv
  <1>3. Typed /\ Streams /\ [Next]_vars => Streams'
    BY StreamsStep
  <1> QED
    BY <1>1, <1>2, <1>3, Invariance, PTL DEF Spec

\* Whatever an upstream sends, in any number of events, and wherever it stops, a
\* translated stream gives the role once, and ends with one usage chunk and [DONE], at
\* the end only (anthropic.go:348, gemini.go:363).
THEOREM StreamsWellFormedHolds == Spec => []StreamsWellFormed
  <1>1. Streams => StreamsWellFormed
    BY GoodIsWellFormed DEF Streams, StreamsWellFormed
  <1> QED
    BY <1>1, StreamsInvariance, PTL

\* What an upstream has said when its stream is over has reached the client and is what
\* will be charged, the event whose blank line never came included (anthropic.go:370,
\* gemini.go:361, sse.go:103).
THEOREM StreamsFaithfulHolds == Spec => []StreamsFaithful
  <1>1. Streams => StreamsFaithful
    BY GoodIsFaithful DEF Streams, StreamsFaithful
  <1> QED
    BY <1>1, StreamsInvariance, PTL
=============================================================================
