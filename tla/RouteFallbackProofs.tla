------------------------ MODULE RouteFallbackProofs ------------------------
(***************************************************************************)
(* The safety properties of RouteFallback for any requests, routes,        *)
(* candidates and hashes.  Each step moves one request, so the invariant   *)
(* is one on the shared pins and one on each request by itself: where it   *)
(* has walked, what it has to report, and whom its pin holds it to.        *)
(***************************************************************************)
EXTENDS RouteFallback, NaturalsInduction, WellFoundedInduction, FiniteSetTheorems, TLAPS

\* Every pin names a provider that has served the hash.
PinsOK ==
    /\ DOMAIN pins \subseteq Hashes
    /\ \A h \in DOMAIN pins : pins[h] \in PinState /\ pins[h].provider \in served[h]

\* There is always something to call or something to report.
Explained(r) ==
    /\ r.phase = "pass" => r.list # <<>> \/ r.fail \/ r.err
    /\ r.phase = "failed" => r.fail \/ r.err
    /\ r.phase = "answered" => r.resp \/ r.fail \/ r.err

\* The walk w is the one the request remembers by cur, visited and hops.
Walked(r, w) ==
    /\ IsInjective(w)
    /\ r.phase = "idle" => w = <<>>
    /\ w = <<>> => r.cur = "none"
    /\ w # <<>> => /\ r.cur \in Names /\ r.cur = Last(w)
                   /\ Len(w) = r.hops + 1 /\ Range(w) = r.visited

\* A hit is on a hash and goes to a provider that has served it; a pinned request
\* has its candidate in front and has called no other.
Held(r, s) ==
    /\ r.hit => r.key \in Hashes
    /\ (r.phase = "pass" /\ r.hit /\ r.list # <<>>) => ProviderOf(Head(r.list)) \in s[r.key]
    /\ (r.phase \in {"pass", "failed"} /\ Pinned(r)) => r.list # <<>>
    /\ (r.phase = "failed" /\ Pinned(r) /\ ~Fusing(r) /\ ~Judging(r)) =>
          r.cand = Head(r.list)

RequestOK(r, w, s) == Explained(r) /\ Walked(r, w) /\ Held(r, s)

IInv ==
    /\ PinsOK
    /\ served \in [Hashes -> SUBSET Providers]
    /\ req \in [Requests -> RequestState] /\ walk \in [Requests -> Seq(Names)]
    /\ \A q \in Requests : RequestOK(req[q], walk[q], served)

-----------------------------------------------------------------------------
\* Least elements, and what the code takes first.

LEMMA NatIsOrdered ==
    \E R : IsWellFoundedOn(R, Nat) /\ \A x, y \in Nat : y < x => <<y, x>> \in R
  <1> DEFINE R == OpToRel(<, Nat)
  <1>1. IsWellFoundedOn(R, Nat)
    BY NatLessThanWellFounded
  <1>2. \A x, y \in Nat : y < x => <<y, x>> \in R
    BY DEF OpToRel
  <1> HIDE DEF R
  <1> QED
    BY <1>1, <1>2

LEMMA MinIsIn ==
    ASSUME NEW S \in SUBSET Nat, S # {}
    PROVE  Min(S) \in S
  <1>1. PICK R : IsWellFoundedOn(R, Nat) /\ \A x, y \in Nat : y < x => <<y, x>> \in R
    BY NatIsOrdered
  <1>2. PICK x \in S : \A y \in S : <<y, x>> \notin R
    BY <1>1, WFMin
  <1>3. ASSUME NEW y \in S PROVE x <= y
    <2>1. x \in Nat /\ y \in Nat
      OBVIOUS
    <2>2. ~(y < x)
      BY <1>1, <1>2, <2>1
    <2> QED
      BY <2>1, <2>2
  <1> QED
    BY <1>3 DEF Min

\* Whatever the filters leave of a route is a list of candidates.
LEMMA OrdersAreLists ==
    ASSUME NEW name \in Names, NEW list \in Orders(name)
    PROVE  list \in Seq(Cands)
  <1>1. PICK S \in SUBSET Routes[name].cands : list \in SetToSeqs(S)
    BY DEF Orders
  <1>2. S \subseteq Cands
    BY <1>1, RoutesAssumption DEF RouteConfig
  <1>3. IsFiniteSet(S)
    BY <1>2, CandidatesAssumption, FS_Subset
  <1>4. Cardinality(S) \in Nat
    BY <1>3, FS_CardinalityType
  <1>5. list \in [1 .. Cardinality(S) -> S]
    BY <1>1 DEF SetToSeqs
  <1> QED
    BY <1>2, <1>4, <1>5

\* PinByAffinity only reorders, and a hit puts the pinned provider first.
LEMMA PinFirstFacts ==
    ASSUME NEW list \in Seq(Cands), NEW key
    PROVE  /\ PinFirst(list, key) \in Seq(Cands)
           /\ list # <<>> => PinFirst(list, key) # <<>>
           /\ Hits(list, key) =>
                 ProviderOf(Head(PinFirst(list, key))) = pins[key].provider
  <1>1. CASE ~Hits(list, key)
    BY <1>1 DEF PinFirst
  <1>2. CASE Hits(list, key)
    <2> DEFINE i == Min(PinnedAt(list, key))
    <2>1. PinnedAt(list, key) \in SUBSET Nat
      BY DEF PinnedAt
    <2>2. i \in PinnedAt(list, key)
      BY <1>2, <2>1, MinIsIn DEF Hits
    <2>3. i \in 1 .. Len(list) /\ ProviderOf(list[i]) = pins[key].provider
      BY <2>2 DEF PinnedAt
    <2>4. PinFirst(list, key) = <<list[i]>> \o RemoveAt(list, i)
      BY <1>2 DEF PinFirst
    <2> HIDE DEF i
    <2>5. RemoveAt(list, i) \in Seq(Cands)
      BY <2>3 DEF RemoveAt
    <2>6. list[i] \in Cands
      BY <2>3
    <2>7. /\ PinFirst(list, key) \in Seq(Cands)
          /\ PinFirst(list, key) # <<>>
          /\ Head(PinFirst(list, key)) = list[i]
      BY <2>4, <2>5, <2>6
    <2> QED
      BY <2>3, <2>7
  <1> QED
    BY <1>1, <1>2

\* The next fallback route exists and has not been walked.
LEMMA NextRoute ==
    ASSUME NEW r \in RequestState, r.cur \in Names, Unvisited(r) # {}
    PROVE  Routes[r.cur].fallbacks[Min(Unvisited(r))] \in Names \ r.visited
  <1>1. Routes[r.cur].fallbacks \in Seq(Names)
    BY RoutesAssumption DEF RouteConfig
  <1>2. Unvisited(r) \in SUBSET Nat
    BY <1>1 DEF Unvisited
  <1>3. Min(Unvisited(r)) \in Unvisited(r)
    BY <1>2, MinIsIn
  <1> QED
    BY <1>3 DEF Unvisited

\* Coming to a route, a request keeps what it has to report and knows whom its
\* pin means.
LEMMA OnRouteFacts ==
    ASSUME PinsOK, NEW r \in RequestState, NEW name \in Names,
           NEW list \in Orders(name), list # <<>>
    PROVE  LET n == OnRoute(r, name, list)
           IN  /\ n \in RequestState
               /\ n.phase = "pass" /\ n.cur = name /\ n.list # <<>>
               /\ n.visited = r.visited /\ n.hops = r.hops
               /\ Held(n, served)
  <1> DEFINE n == OnRoute(r, name, list)
             key == KeyFor(Routes[name], r.ask)
  <1>1. list \in Seq(Cands)
    BY OrdersAreLists
  <1>2. Routes[name] \in RouteConfig
    BY RoutesAssumption
  <1>3. key \in Hashes \cup {0}
    BY DEF KeyFor, RequestState, Ask
  <1> HIDE DEF key
  <1>4. /\ PinFirst(list, key) \in Seq(Cands)
        /\ PinFirst(list, key) # <<>>
        /\ Hits(list, key) => ProviderOf(Head(PinFirst(list, key))) = pins[key].provider
    BY <1>1, PinFirstFacts
  <1>5. n = [r EXCEPT !.phase = "pass", !.cur = name, !.strategy = Routes[name].strategy,
                      !.key = key, !.ttl = Routes[name].ttl, !.skip = Routes[name].skipRetry,
                      !.hit = Hits(list, key), !.list = PinFirst(list, key)]
    BY DEF OnRoute, key
  <1>6. Hits(list, key) \in BOOLEAN
    BY DEF Hits
  <1>7. /\ Routes[name].strategy \in {"failover", "fusion", "fusion_judge"}
        /\ Routes[name].ttl \in Nat /\ Routes[name].skipRetry \in BOOLEAN
    BY <1>2 DEF RouteConfig
  <1>8. n \in RequestState
    BY <1>3, <1>4, <1>5, <1>6, <1>7 DEF RequestState
  <1>9. /\ n.phase = "pass" /\ n.cur = name /\ n.list = PinFirst(list, key)
        /\ n.hit = Hits(list, key) /\ n.key = key
        /\ n.visited = r.visited /\ n.hops = r.hops
    BY <1>5 DEF RequestState
  <1>10. n.hit => n.key \in Hashes /\ ProviderOf(Head(n.list)) \in served[n.key]
    BY <1>4, <1>9 DEF Hits, PinsOK
  <1> HIDE DEF n
  <1>11. Held(n, served)
    BY <1>4, <1>9, <1>10 DEF Held
  <1> QED
    BY <1>4, <1>8, <1>9, <1>11 DEF n

\* A step of one request leaves the others as they are, whatever hashes it serves.
LEMMA OneRequest ==
    ASSUME IInv, NEW q \in Requests, NEW n \in RequestState, NEW w \in Seq(Names),
           Becomes(q, n), walk' = [walk EXCEPT ![q] = w], PinsOK',
           served' \in [Hashes -> SUBSET Providers],
           \A h \in Hashes : served[h] \subseteq served'[h],
           RequestOK(n, w, served')
    PROVE  IInv'
  <1>1. req' \in [Requests -> RequestState] /\ walk' \in [Requests -> Seq(Names)]
    BY DEF IInv, Becomes
  <1>2. ASSUME NEW o \in Requests PROVE RequestOK(req'[o], walk'[o], served')
    <2>1. CASE o = q
      BY <2>1 DEF IInv, Becomes
    <2>2. CASE o # q
      <3>1. req'[o] = req[o] /\ walk'[o] = walk[o]
        BY <2>2 DEF IInv, Becomes
      <3>2. RequestOK(req[o], walk[o], served)
        BY DEF IInv
      <3>3. Held(req[o], served')
        BY <3>2 DEF RequestOK, Held
      <3> QED
        BY <3>1, <3>2, <3>3 DEF RequestOK
    <2> QED
      BY <2>1, <2>2
  <1> QED
    BY <1>1, <1>2 DEF IInv

-----------------------------------------------------------------------------
\* One lemma per action.

LEMMA IdleFacts ==
    /\ Idle \in RequestState
    /\ \A s : RequestOK(Idle, <<>>, s)
  <1>1. Nothing \in Ask
    BY DEF Nothing, Ask
  <1>2. <<>> \in Seq(Cands)
    OBVIOUS
  <1>3. Idle \in RequestState
    BY <1>1, <1>2 DEF Idle, RequestState, MaxHops
  <1>4. /\ Idle.phase = "idle" /\ Idle.cur = "none" /\ ~Idle.hit
    BY DEF Idle
  <1>5. IsInjective(<<>>)
    BY DEF IsInjective
  <1> QED
    BY <1>3, <1>4, <1>5 DEF RequestOK, Explained, Walked, Held

LEMMA InitIInv == Init => IInv
  <1> SUFFICES ASSUME Init PROVE IInv
    OBVIOUS
  <1>1. PinsOK
    BY DEF Init, PinsOK
  <1>2. served \in [Hashes -> SUBSET Providers]
    BY DEF Init
  <1>3. walk \in [Requests -> Seq(Names)]
    BY DEF Init
  <1> QED
    BY <1>1, <1>2, <1>3, IdleFacts DEF Init, IInv

LEMMA ArriveIInv ==
    ASSUME IInv, NEW q \in Requests, NEW ask \in Asks, Arrive(q, ask)
    PROVE  IInv'
  <1> DEFINE fresh == [Idle EXCEPT !.ask = ask, !.visited = {ask.model}]
  <1>1. ask \in Ask
    BY RoutesAssumption
  <1>2. ask.model \in Names \cup {"passthrough"}
    BY <1>1 DEF Ask
  <1>3. fresh \in RequestState
    BY <1>1, <1>2, IdleFacts DEF RequestState
  <1>4. /\ fresh.visited = {ask.model} /\ fresh.hops = 0 /\ fresh.cur = "none"
        /\ ~fresh.hit
    BY DEF Idle
  <1>5. PinsOK /\ PinsOK'
    BY DEF Arrive, IInv, PinsOK, Hits
  <1>6. served' = served
    BY DEF Arrive
  <1>7. CASE /\ ask.model \in Names
             /\ \E list \in Orders(ask.model) \ {<<>>} : Becomes(q, OnRoute(fresh, ask.model, list))
             /\ walk' = [walk EXCEPT ![q] = <<ask.model>>]
    <2>1. PICK list \in Orders(ask.model) : list # <<>> /\ Becomes(q, OnRoute(fresh, ask.model, list))
      BY <1>7
    <2> DEFINE n == OnRoute(fresh, ask.model, list)
    <2> HIDE DEF fresh
    <2>2. /\ n \in RequestState
          /\ n.phase = "pass" /\ n.cur = ask.model /\ n.list # <<>>
          /\ n.visited = fresh.visited /\ n.hops = fresh.hops
          /\ Held(n, served)
      BY <1>3, <1>5, <1>7, <2>1, OnRouteFacts
    <2> HIDE DEF n
    <2> DEFINE w == <<ask.model>>
    <2>3. w \in Seq(Names) /\ w # <<>> /\ Len(w) = 1 /\ Last(w) = ask.model
      BY <1>7 DEF Last
    <2>4. Range(w) = {ask.model} /\ IsInjective(w)
      BY DEF Range, IsInjective
    <2> HIDE DEF w
    <2>5. RequestOK(n, w, served)
      BY <1>4, <1>7, <2>2, <2>3, <2>4 DEF RequestOK, Explained, Walked
    <2>6. Becomes(q, n) /\ walk' = [walk EXCEPT ![q] = w]
      BY <1>7, <2>1 DEF n, w
    <2> QED
      BY <1>5, <1>6, <2>2, <2>3, <2>5, <2>6, OneRequest DEF IInv
  <1>8. CASE /\ ask.model = "passthrough"
             /\ Becomes(q, [fresh EXCEPT !.phase = "pass", !.list = Passthrough])
             /\ UNCHANGED walk
    <2> DEFINE n == [fresh EXCEPT !.phase = "pass", !.list = Passthrough]
    <2>1. n \in RequestState
      BY <1>3, CandidatesAssumption DEF RequestState
    <2>2. /\ n.phase = "pass" /\ n.list # <<>> /\ n.cur = "none" /\ ~n.hit
      BY CandidatesAssumption DEF Idle
    <2>3. walk[q] = <<>>
      BY DEF Arrive, IInv, RequestOK, Walked
    <2> HIDE DEF n
    <2>4. RequestOK(n, <<>>, served)
      <3>1. IsInjective(<<>>)
        BY DEF IsInjective
      <3> QED
        BY <2>2, <3>1 DEF RequestOK, Explained, Walked, Held, Pinned
    <2>5. walk' = [walk EXCEPT ![q] = <<>>]
      BY <1>8, <2>3 DEF IInv
    <2>6. Becomes(q, n)
      BY <1>8 DEF n
    <2>7. <<>> \in Seq(Names)
      OBVIOUS
    <2> QED
      BY <1>5, <1>6, <2>1, <2>4, <2>5, <2>6, <2>7, OneRequest DEF IInv
  <1> QED
    BY <1>7, <1>8 DEF Arrive

LEMMA ServeIInv ==
    ASSUME IInv, NEW q \in Requests, NEW c \in Cands, NEW below500 \in BOOLEAN,
           Serve(q, c, below500)
    PROVE  IInv'
  <1> DEFINE r == req[q]
             pin == r.key # 0 /\ below500
             n == [r EXCEPT !.phase = "answered", !.cand = c, !.resp = TRUE]
  <1>1. r \in RequestState /\ RequestOK(r, walk[q], served) /\ walk[q] \in Seq(Names)
    BY DEF IInv
  <1>2. n \in RequestState
    BY <1>1 DEF RequestState
  <1>3. /\ n.phase = "answered" /\ n.resp /\ n.cur = r.cur /\ n.visited = r.visited
        /\ n.hops = r.hops /\ n.hit = r.hit /\ n.key = r.key
    BY <1>1 DEF RequestState
  <1>4. r.phase = "pass" /\ Becomes(q, n)
    BY DEF Serve
  <1>5. walk' = [walk EXCEPT ![q] = walk[q]]
    BY DEF Serve, IInv
  <1>6. r.key \in Hashes \cup {0} /\ r.ttl \in Nat
    BY <1>1 DEF RequestState
  <1>7. ProviderOf(c) \in Providers /\ ModelOf(r, c) \in Models
    BY DEF Providers, Models, ModelOf
  <1>8. /\ served' \in [Hashes -> SUBSET Providers]
        /\ \A h \in Hashes : served[h] \subseteq served'[h]
        /\ pin => ProviderOf(c) \in served'[r.key]
    BY <1>6, <1>7 DEF Serve, IInv
  <1>9. PinsOK'
    <2>1. CASE ~pin
      BY <1>8, <2>1 DEF Serve, IInv, PinsOK
    <2>2. CASE pin
      <3> DEFINE p == [provider |-> ProviderOf(c), model |-> ModelOf(r, c),
                       left |-> IF r.ttl = 0 THEN DefaultTTL ELSE r.ttl]
      <3>1. p \in PinState /\ p.provider = ProviderOf(c)
        BY <1>6, <1>7, RoutesAssumption DEF PinState
      <3>2. pins' = [h \in DOMAIN pins \cup {r.key} |-> IF h = r.key THEN p ELSE pins[h]]
        BY <2>2 DEF Serve, Pin
      <3> HIDE DEF p
      <3>3. DOMAIN pins' = DOMAIN pins \cup {r.key}
        BY <3>2
      <3>4. ASSUME NEW h \in DOMAIN pins'
            PROVE  pins'[h] \in PinState /\ pins'[h].provider \in served'[h]
        BY <1>8, <2>2, <3>1, <3>2, <3>3, <3>4 DEF IInv, PinsOK
      <3>5. DOMAIN pins' \subseteq Hashes
        BY <1>6, <2>2, <3>3 DEF IInv, PinsOK
      <3> QED
        BY <3>4, <3>5 DEF PinsOK
    <2> QED
      BY <2>1, <2>2
  <1>10. RequestOK(n, walk[q], served')
    BY <1>1, <1>3, <1>4 DEF RequestOK, Explained, Walked, Held
  <1> HIDE DEF n
  <1> QED
    BY <1>1, <1>2, <1>4, <1>5, <1>8, <1>9, <1>10, OneRequest

LEMMA FailIInv ==
    ASSUME IInv, NEW q \in Requests, NEW c \in Cands \cup {0}, NEW fail \in BOOLEAN,
           NEW err \in BOOLEAN, Fail(q, c, fail, err)
    PROVE  IInv'
  <1> DEFINE r == req[q]
             n == [r EXCEPT !.phase = "failed", !.cand = c,
                            !.fail = r.fail \/ fail, !.err = r.err \/ err]
  <1>1. r \in RequestState /\ RequestOK(r, walk[q], served) /\ walk[q] \in Seq(Names)
    BY DEF IInv
  <1>2. r.fail \in BOOLEAN /\ r.err \in BOOLEAN /\ r.list \in Seq(Cands)
    BY <1>1 DEF RequestState
  <1>3. n \in RequestState
    BY <1>1, <1>2 DEF RequestState
  <1>4. /\ n.phase = "failed" /\ n.cand = c /\ n.cur = r.cur /\ n.visited = r.visited
        /\ n.hops = r.hops /\ n.hit = r.hit /\ n.key = r.key /\ n.list = r.list
        /\ n.skip = r.skip /\ n.strategy = r.strategy /\ n.ask = r.ask
        /\ n.fail = (r.fail \/ fail) /\ n.err = (r.err \/ err)
    BY <1>1 DEF RequestState
  <1>5. Becomes(q, n) /\ r.phase = "pass"
    BY DEF Fail
  <1>6. walk' = [walk EXCEPT ![q] = walk[q]] /\ served' = served
    BY DEF Fail, IInv
  <1>7. PinsOK'
    BY DEF Fail, IInv, PinsOK
  <1>8. Called(r) = {} => r.list = <<>>
    <2>1. r.list # <<>> => r.list[1] \in Range(r.list)
      BY <1>2 DEF Range
    <2> QED
      BY <2>1 DEF Called
  <1>9. n.fail \/ n.err
    BY <1>1, <1>4, <1>5, <1>8 DEF Fail, RequestOK, Explained
  <1>10. (Pinned(r) /\ ~Fusing(r) /\ ~Judging(r)) => r.list # <<>> /\ c = Head(r.list)
    <2> SUFFICES ASSUME Pinned(r), ~Fusing(r), ~Judging(r)
                 PROVE  r.list # <<>> /\ c = Head(r.list)
      OBVIOUS
    <2>1. r.list # <<>>
      BY <1>1, <1>5 DEF RequestOK, Held
    <2>2. Called(r) = {r.list[1]}
      BY <2>1 DEF Called
    <2>3. r.list[1] = Head(r.list)
      BY <1>2, <2>1
    <2> QED
      BY <2>1, <2>2, <2>3, Zenon DEF Fail
  <1>11. RequestOK(n, walk[q], served)
    BY <1>1, <1>4, <1>5, <1>9, <1>10
    DEF RequestOK, Explained, Walked, Held, Pinned, Fusing, Judging
  <1> HIDE DEF n
  <1> QED
    BY <1>1, <1>3, <1>5, <1>6, <1>7, <1>11, OneRequest DEF IInv

LEMMA FallbackIInv ==
    ASSUME IInv, NEW q \in Requests, Fallback(q)
    PROVE  IInv'
  <1> DEFINE r == req[q]
             next == Routes[r.cur].fallbacks[Min(Unvisited(r))]
             moved == [r EXCEPT !.hops = @ + 1, !.visited = @ \cup {next}]
             empty == [moved EXCEPT !.phase = "pass", !.cur = next, !.list = <<>>]
             w == Append(walk[q], next)
  <1>1. r \in RequestState /\ RequestOK(r, walk[q], served) /\ walk[q] \in Seq(Names)
    BY DEF IInv
  <1>2. /\ r.phase = "failed" /\ r.cur # "none" /\ r.hops < MaxHops /\ ~Pinned(r)
        /\ Unvisited(r) # {}
    BY DEF Fallback, CanFallBack
  <1>3. walk[q] # <<>> /\ r.cur \in Names /\ Len(walk[q]) = r.hops + 1
        /\ Range(walk[q]) = r.visited /\ IsInjective(walk[q])
    BY <1>1, <1>2 DEF RequestOK, Walked
  <1>4. next \in Names \ r.visited
    BY <1>1, <1>2, <1>3, NextRoute
  <1>5. PICK list \in Orders(next) :
          Becomes(q, IF list = <<>> THEN empty ELSE OnRoute(moved, next, list))
    BY DEF Fallback
  <1>6. walk' = [walk EXCEPT ![q] = w] /\ pins' = pins /\ served' = served
    BY DEF Fallback, IInv
  <1> HIDE DEF next
  <1>7. r.hops + 1 \in 0 .. MaxHops
    BY <1>1, <1>2 DEF RequestState, MaxHops
  <1>8. moved \in RequestState
    BY <1>1, <1>4, <1>7 DEF RequestState
  <1>9. /\ moved.hops = r.hops + 1 /\ moved.visited = r.visited \cup {next}
        /\ moved.fail = r.fail /\ moved.err = r.err /\ moved.hit = r.hit
        /\ moved.skip = r.skip /\ moved.key = r.key
    BY <1>1 DEF RequestState
  <1>10. /\ w \in Seq(Names) /\ w # <<>> /\ Last(w) = next /\ Len(w) = moved.hops + 1
         /\ Range(w) = moved.visited /\ IsInjective(w)
    <2>1. /\ w \in Seq(Names) /\ Len(w) = Len(walk[q]) + 1 /\ w[Len(w)] = next
          /\ \A i \in 1 .. Len(walk[q]) : w[i] = walk[q][i]
      BY <1>1, <1>4
    <2> HIDE DEF w
    <2>2. Last(w) = next /\ w # <<>> /\ Len(w) = moved.hops + 1
      BY <1>1, <1>3, <1>9, <2>1 DEF Last
    <2>3. DOMAIN w = 1 .. Len(walk[q]) + 1 /\ DOMAIN walk[q] = 1 .. Len(walk[q])
      BY <1>1, <2>1
    <2>4. Len(walk[q]) \in Nat
      BY <1>1
    <2>5. Range(w) = Range(walk[q]) \cup {next}
      <3>1. ASSUME NEW i \in DOMAIN w PROVE w[i] \in Range(walk[q]) \cup {next}
        BY <2>1, <2>3, <2>4, <3>1 DEF Range
      <3>2. ASSUME NEW i \in DOMAIN walk[q] PROVE walk[q][i] \in Range(w)
        BY <2>1, <2>3, <2>4, <3>2 DEF Range
      <3>3. next \in Range(w)
        BY <2>1, <2>3, <2>4 DEF Range
      <3> QED
        BY <3>1, <3>2, <3>3 DEF Range
    <2>6. \A i \in DOMAIN walk[q] : walk[q][i] # next
      BY <1>3, <1>4 DEF Range
    <2>7. IsInjective(w)
      BY <1>3, <2>1, <2>3, <2>4, <2>6 DEF IsInjective
    <2> QED
      BY <1>3, <1>9, <2>1, <2>2, <2>5, <2>7
  <1> HIDE DEF w
  <1>11. r.fail \/ r.err
    BY <1>1, <1>2 DEF RequestOK, Explained
  <1>12. CASE list = <<>>
    <2> HIDE DEF moved
    <2>1. empty \in RequestState
      <3>1. <<>> \in Seq(Cands)
        OBVIOUS
      <3> QED
        BY <1>4, <1>8, <3>1 DEF RequestState
    <2>2. /\ empty.phase = "pass" /\ empty.cur = next /\ empty.list = <<>>
          /\ empty.fail = r.fail /\ empty.err = r.err /\ empty.hit = r.hit
          /\ empty.skip = r.skip /\ empty.key = r.key
          /\ empty.hops = moved.hops /\ empty.visited = moved.visited
      BY <1>8, <1>9 DEF RequestState
    <2> HIDE DEF empty
    <2>3. RequestOK(empty, w, served)
      BY <1>1, <1>2, <1>4, <1>10, <1>11, <2>2
      DEF RequestOK, Explained, Walked, Held, Pinned
    <2> QED
      BY <1>5, <1>6, <1>10, <1>12, <2>1, <2>3, OneRequest DEF IInv, PinsOK
  <1>13. CASE list # <<>>
    <2> DEFINE n == OnRoute(moved, next, list)
    <2> HIDE DEF moved
    <2>1. /\ n \in RequestState
          /\ n.phase = "pass" /\ n.cur = next /\ n.list # <<>>
          /\ n.visited = moved.visited /\ n.hops = moved.hops
          /\ Held(n, served)
      BY <1>4, <1>5, <1>8, <1>13, OnRouteFacts DEF IInv
    <2>2. Becomes(q, n)
      BY <1>5, <1>13
    <2> HIDE DEF n
    <2>3. RequestOK(n, w, served)
      BY <1>4, <1>10, <2>1 DEF RequestOK, Explained, Walked
    <2> QED
      BY <1>6, <1>10, <2>1, <2>2, <2>3, OneRequest DEF IInv, PinsOK
  <1> QED
    BY <1>12, <1>13

\* A request that may not go on keeps the cause it has.
LEMMA GiveUpIInv ==
    ASSUME IInv, NEW q \in Requests, GiveUp(q)
    PROVE  IInv'
  <1> DEFINE r == req[q]
             n == [r EXCEPT !.phase = "answered"]
  <1>1. r \in RequestState /\ RequestOK(r, walk[q], served) /\ walk[q] \in Seq(Names)
    BY DEF IInv
  <1>2. n \in RequestState
    BY <1>1 DEF RequestState
  <1>3. /\ n.phase = "answered" /\ n.fail = r.fail /\ n.err = r.err /\ n.cur = r.cur
        /\ n.visited = r.visited /\ n.hops = r.hops /\ n.hit = r.hit
        /\ n.skip = r.skip /\ n.key = r.key
    BY <1>1 DEF RequestState
  <1>4. r.phase = "failed" /\ ~CanFallBack(r) /\ Becomes(q, n)
    BY DEF GiveUp
  <1>5. walk' = [walk EXCEPT ![q] = walk[q]] /\ pins' = pins /\ served' = served
    BY DEF GiveUp, IInv
  <1> HIDE DEF n
  <1>6. RequestOK(n, walk[q], served)
    BY <1>1, <1>3, <1>4 DEF RequestOK, Explained, Walked, Held, Pinned
  <1> QED
    BY <1>1, <1>2, <1>4, <1>5, <1>6, OneRequest DEF IInv, PinsOK

LEMMA RelayIInv ==
    ASSUME IInv, NEW q \in Requests, Relay(q)
    PROVE  IInv'
  <1>1. /\ Becomes(q, Idle) /\ walk' = [walk EXCEPT ![q] = <<>>]
        /\ pins' = pins /\ served' = served
    BY DEF Relay
  <1>2. <<>> \in Seq(Names)
    OBVIOUS
  <1> QED
    BY <1>1, <1>2, IdleFacts, OneRequest DEF IInv, PinsOK

LEMMA TickIInv ==
    ASSUME IInv, Tick
    PROVE  IInv'
  <1>1. pins' = [h \in {g \in DOMAIN pins : pins[g].left > 0} |->
                   [pins[h] EXCEPT !.left = @ - 1]]
    BY DEF Tick
  <1>2. DOMAIN pins' \subseteq DOMAIN pins
    BY <1>1
  <1>3. ASSUME NEW h \in DOMAIN pins'
        PROVE  pins'[h] \in PinState /\ pins'[h].provider = pins[h].provider
    <2>1. pins[h] \in PinState /\ pins[h].left > 0
      BY <1>1, <1>3 DEF IInv, PinsOK
    <2>2. pins'[h] = [pins[h] EXCEPT !.left = pins[h].left - 1]
      BY <1>1, <1>3
    <2>3. pins[h].left - 1 \in Nat
      BY <2>1 DEF PinState
    <2> QED
      BY <2>1, <2>2, <2>3 DEF PinState
  <1>4. PinsOK'
    BY <1>2, <1>3 DEF Tick, IInv, PinsOK
  <1> QED
    BY <1>4 DEF Tick, IInv

LEMMA NextIInv == IInv /\ [Next]_vars => IInv'
  <1> SUFFICES ASSUME IInv, [Next]_vars PROVE IInv'
    OBVIOUS
  <1>1. CASE UNCHANGED vars
    BY <1>1 DEF vars, IInv, PinsOK
  <1>2. ASSUME NEW q \in Requests, NEW ask \in Asks, Arrive(q, ask) PROVE IInv'
    BY <1>2, ArriveIInv
  <1>3. ASSUME NEW q \in Requests, Proceed(q) PROVE IInv'
    BY <1>3, ServeIInv, FailIInv, FallbackIInv, GiveUpIInv, RelayIInv DEF Proceed
  <1>4. CASE Tick
    BY <1>4, TickIInv
  <1> QED
    BY <1>1, <1>2, <1>3, <1>4 DEF Next

LEMMA Invariance == Spec => []IInv
  BY InitIInv, NextIInv, PTL DEF Spec

-----------------------------------------------------------------------------
\* Pins and requests have their types in every reachable state, and no request
\* makes more than three hops (runRoute).
THEOREM RouteFallbackTypeCorrect == Spec => []TypeOK
  <1>1. IInv => TypeOK
    BY DEF IInv, PinsOK, TypeOK
  <1> QED
    BY <1>1, Invariance, PTL

\* Whenever runRoute returns without a response it returns an error or the last
\* failed response, whatever empty routes it has come through.
THEOREM CauseToReportHolds == Spec => []CauseToReport
  <1>1. IInv => CauseToReport
    BY DEF IInv, RequestOK, Explained, CauseToReport
  <1> QED
    BY <1>1, Invariance, PTL

\* For every graph of fallback routes, runRoute passes no route twice and no more than
\* three after the one asked for.
THEOREM NoRouteTwiceHolds == Spec => []NoRouteTwice
  <1>1. IInv => NoRouteTwice
    <2> SUFFICES ASSUME IInv, NEW q \in Requests
                 PROVE  IsInjective(walk[q]) /\ Len(walk[q]) <= MaxHops + 1
      BY DEF NoRouteTwice
    <2>1. Walked(req[q], walk[q]) /\ req[q] \in RequestState
      BY DEF IInv, RequestOK
    <2>2. req[q].hops \in 0 .. MaxHops /\ MaxHops \in Nat
      BY <2>1 DEF RequestState, MaxHops
    <2>3. CASE walk[q] = <<>>
      BY <2>1, <2>2, <2>3 DEF Walked
    <2>4. CASE walk[q] # <<>>
      BY <2>1, <2>2, <2>4 DEF Walked
    <2> QED
      BY <2>3, <2>4
  <1> QED
    BY <1>1, Invariance, PTL

\* On an affinity hit the first candidate called belongs to a provider that has
\* answered the same hash (PinByAffinity).
THEOREM HitWasServedHolds == Spec => []HitWasServed
  <1>1. IInv => HitWasServed
    BY DEF IInv, RequestOK, Held, HitWasServed
  <1> QED
    BY <1>1, Invariance, PTL

\* skip_retry_on_failure: a pinned request ends with its pinned candidate, on the
\* route it was pinned on.
THEOREM PinnedStaysHolds == Spec => PinnedStays
  <1> DEFINE A == \A q \in Requests :
          LET r == req[q]
              n == req'[q]
          IN  (r.phase \in {"pass", "failed"} /\ Pinned(r) /\ ~Fusing(r) /\ ~Judging(r)) =>
                 /\ n.cur = r.cur /\ n.list = r.list
                 /\ n.phase \in {"failed", "answered"} => n.cand = Head(r.list)
  <1>1. IInv /\ [Next]_vars => [A]_vars
    <2> SUFFICES ASSUME IInv, Next, NEW q \in Requests,
                        req[q].phase \in {"pass", "failed"}, Pinned(req[q]),
                        ~Fusing(req[q]), ~Judging(req[q])
                 PROVE  /\ req'[q].cur = req[q].cur /\ req'[q].list = req[q].list
                        /\ req'[q].phase \in {"failed", "answered"} =>
                              req'[q].cand = Head(req[q].list)
      OBVIOUS
    <2>1. req[q] \in RequestState /\ Held(req[q], served)
      BY DEF IInv, RequestOK
    <2>2. /\ req[q].list \in Seq(Cands) /\ req[q].list # <<>>
          /\ req[q].phase = "failed" => req[q].cand = Head(req[q].list)
      BY <2>1 DEF Held, RequestState
    <2>3. Called(req[q]) = {Head(req[q].list)}
      BY <2>2 DEF Called
    <2>4. CASE req'[q] = req[q]
      BY <2>2, <2>4
    <2>5. ASSUME NEW o \in Requests, o # q, NEW n, Becomes(o, n) PROVE req'[q] = req[q]
      BY <2>5 DEF Becomes, IInv
    <2>6. ASSUME NEW ask \in Asks PROVE ~Arrive(q, ask)
      BY DEF Arrive
    <2>7. ASSUME NEW c \in Cands, NEW below500 \in BOOLEAN, Serve(q, c, below500)
          PROVE  /\ req'[q].cur = req[q].cur /\ req'[q].list = req[q].list
                 /\ req'[q].cand = Head(req[q].list)
      BY <2>1, <2>3, <2>7 DEF Serve, Becomes, IInv, RequestState
    <2>8. ASSUME NEW c \in Cands \cup {0}, NEW fail \in BOOLEAN, NEW err \in BOOLEAN,
                 Fail(q, c, fail, err)
          PROVE  /\ req'[q].cur = req[q].cur /\ req'[q].list = req[q].list
                 /\ req'[q].cand = Head(req[q].list)
      BY <2>1, <2>3, <2>8 DEF Fail, Becomes, IInv, RequestState
    <2>9. ~Fallback(q) /\ ~Relay(q)
      BY DEF Fallback, CanFallBack, Relay
    <2>10. ASSUME GiveUp(q)
           PROVE  /\ req'[q].cur = req[q].cur /\ req'[q].list = req[q].list
                  /\ req'[q].cand = Head(req[q].list)
      BY <2>1, <2>2, <2>10 DEF GiveUp, Becomes, IInv, RequestState
    <2>11. CASE Tick
      BY <2>4, <2>11 DEF Tick
    <2>12. CASE \E o \in Requests : o # q /\ (Proceed(o) \/ \E ask \in Asks : Arrive(o, ask))
      BY <2>4, <2>5, <2>12 DEF Proceed, Arrive, Serve, Fail, Fallback, GiveUp, Relay
    <2>13. CASE Proceed(q)
      BY <2>7, <2>8, <2>9, <2>10, <2>13 DEF Proceed
    <2> QED
      BY <2>6, <2>11, <2>12, <2>13 DEF Next
  <1> QED
    BY <1>1, Invariance, PTL DEF Spec, PinnedStays
=============================================================================
