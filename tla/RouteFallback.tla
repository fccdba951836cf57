--------------------------- MODULE RouteFallback ---------------------------
(***************************************************************************)
(* runRoute of internal/server/server.go: one pass over the candidates of  *)
(* a route after the other along fallback_routes, and the affinity pins    *)
(* of internal/router/affinity.go that the requests share.                 *)
(*                                                                         *)
(* A pass (failoverPass, fusionRun, fusionJudgeRun) is one step here: a    *)
(* candidate it may call answers, or they all fail and leave a response,   *)
(* an error or both.  Dispatch has the steps of failoverPass, and          *)
(* FailureHasCause there is what allows this.  What breakers, locks, tags  *)
(* and the strategy leave of a route's candidates is any order of any      *)
(* subset of them.                                                         *)
(***************************************************************************)
EXTENDS Naturals, FiniteSets, SequencesExt

CONSTANTS
    Requests,
    Candidates,     \* candidate |-> [provider, model, upstream]; MapModel makes
                    \* `upstream' of `model'
    Routes,         \* route |-> its configuration, a member of RouteConfig
    Passthrough,    \* the candidates of a model without a route
    Asks,           \* what requests ask for, a subset of Ask
    Hashes,         \* hashes of header values and of prompt prefixes, no value both
    DefaultTTL      \* AffinityCache.ttl

Cands == DOMAIN Candidates
Names == DOMAIN Routes
ProviderOf(c) == Candidates[c].provider
Providers == {ProviderOf(c) : c \in Cands}
Models == {Candidates[c].model : c \in Cands} \cup {Candidates[c].upstream : c \in Cands}

\* Route hops after the requested route.
MaxHops == 3

\* "failover" stands for every strategy that calls one candidate at a time;
\* judge is 0 when the route names none; affinity includes the global default.
RouteConfig == [strategy : {"failover", "fusion", "fusion_judge"}, cands : SUBSET Cands,
                fallbacks : Seq(Names), judge : Cands \cup {0},
                affinity : BOOLEAN, byHeader : BOOLEAN, ttl : Nat, skipRetry : BOOLEAN]

\* A requested model is a route or "passthrough".
Ask == [model : Names \cup {"passthrough"}, header : Hashes \cup {0},
        prefix : Hashes \cup {0}, stream : BOOLEAN]

ASSUME CandidatesAssumption ==
    /\ IsFiniteSet(Cands) /\ Cands \subseteq Nat \ {0} /\ Hashes \subseteq Nat \ {0}
    /\ Passthrough \in Seq(Cands) /\ Passthrough # <<>>
ASSUME RoutesAssumption ==
    /\ Routes \in [Names -> RouteConfig] /\ Names \cap {"passthrough", "none"} = {}
    /\ Asks \subseteq Ask /\ DefaultTTL \in Nat \ {0}

VARIABLES
    pins,   \* AffinityCache.m without its expired entries
    req,    \* the local state of every request
    walk,   \* for the properties: the routes each request has come through
    served  \* for the properties: the providers that served each hash

vars == <<pins, req, walk, served>>

Nothing == [model |-> "passthrough", header |-> 0, prefix |-> 0, stream |-> FALSE]

\* phase:  pass      `list' is about to be called
\*         failed    it has failed retryably
\*         answered  the handler has what runRoute returns: resp or not, the
\*                   candidate, lastFailResp (fail) and lastErr (err)
\* cur:    the route, "none" for passthrough;  cand: 0 is the zero Candidate
Idle == [phase |-> "idle", ask |-> Nothing, cur |-> "none", visited |-> {}, hops |-> 0,
         list |-> <<>>, strategy |-> "failover", key |-> 0, ttl |-> 0, skip |-> FALSE,
         hit |-> FALSE, cand |-> 0, resp |-> FALSE, fail |-> FALSE, err |-> FALSE]

Init ==
    /\ pins = [h \in {} |-> Nothing]
    /\ req = [q \in Requests |-> Idle]
    /\ walk = [q \in Requests |-> <<>>]
    /\ served = [h \in Hashes |-> {}]

-----------------------------------------------------------------------------
\* Affinity.

KeyFor(route, ask) ==
    IF route.byHeader THEN ask.header
    ELSE IF route.affinity THEN ask.prefix ELSE 0

\* The places of the pinned provider and model in a candidate list.
PinnedAt(list, key) ==
    {i \in DOMAIN list : /\ ProviderOf(list[i]) = pins[key].provider
                         /\ Candidates[list[i]].model = pins[key].model}

Hits(list, key) ==
    key \in DOMAIN pins /\ Len(list) >= 2 /\ PinnedAt(list, key) # {}

\* A hit that leaves the order as it is.
PinFirst_ReportsOnly(list, key) == list

\* PinByAffinity.
PinFirst(list, key) ==
    IF ~Hits(list, key) THEN list
    ELSE LET i == Min(PinnedAt(list, key)) IN <<list[i]>> \o RemoveAt(list, i)

\* PutTTL: the hash is pinned for the route's TTL, 0 for the default.
Pin(key, provider, model, ttl) ==
    [h \in DOMAIN pins \cup {key} |->
        IF h = key THEN [provider |-> provider, model |-> model,
                         left |-> IF ttl = 0 THEN DefaultTTL ELSE ttl]
        ELSE pins[h]]

-----------------------------------------------------------------------------
\* Passes.

Becomes(q, r) == req' = [req EXCEPT ![q] = r]

\* The request starts on a route that has candidates.
OnRoute(r, name, list) ==
    LET route == Routes[name]
        key == KeyFor(route, r.ask)
    IN  [r EXCEPT !.phase = "pass", !.cur = name, !.strategy = route.strategy,
                  !.key = key, !.ttl = route.ttl, !.skip = route.skipRetry,
                  !.hit = Hits(list, key), !.list = PinFirst(list, key)]

\* What OrderCandidatesCaps may make of a route.
Orders(name) == UNION {SetToSeqs(S) : S \in SUBSET Routes[name].cands}

Arrive(q, ask) ==
    LET fresh == [Idle EXCEPT !.ask = ask, !.visited = {ask.model}]
    IN  /\ req[q].phase = "idle"
        /\ \/ /\ ask.model \in Names
              /\ \E list \in Orders(ask.model) \ {<<>>} : Becomes(q, OnRoute(fresh, ask.model, list))
              /\ walk' = [walk EXCEPT ![q] = <<ask.model>>]
           \/ /\ ask.model = "passthrough"
              /\ Becomes(q, [fresh EXCEPT !.phase = "pass", !.list = Passthrough])
              /\ UNCHANGED walk
        /\ UNCHANGED <<pins, served>>

Fusing(r) == r.strategy = "fusion" /\ ~r.ask.stream /\ Len(r.list) > 1
Judging(r) == r.strategy = "fusion_judge" /\ r.cur # "none" /\ Len(r.list) > 1
Pinned(r) == r.hit /\ r.skip

\* The candidates a pass may call.
Called(r) ==
    IF Fusing(r) THEN {r.list[1], r.list[2]}
    ELSE IF Judging(r) THEN Range(r.list) \cup ({Routes[r.cur].judge} \ {0})
    ELSE IF Pinned(r) /\ r.list # <<>> THEN {r.list[1]}
    ELSE Range(r.list)

\* The model a pass reports as the one that served; fusionRun maps none.
ModelOf(r, c) == IF Fusing(r) THEN Candidates[c].model ELSE Candidates[c].upstream

\* Candidate c answers.  Any answer below 500 pins it.
Serve(q, c, below500) ==
    LET r == req[q]
        pin == r.key # 0 /\ below500
    IN  /\ r.phase = "pass" /\ c \in Called(r)
        /\ pins' = IF pin THEN Pin(r.key, ProviderOf(c), ModelOf(r, c), r.ttl) ELSE pins
        /\ served' = IF pin THEN [served EXCEPT ![r.key] = @ \cup {ProviderOf(c)}] ELSE served
        /\ Becomes(q, [r EXCEPT !.phase = "answered", !.cand = c, !.resp = TRUE])
        /\ UNCHANGED walk

\* A pass that takes the cause of the last one back.
Fail_Resets(q, c, fail, err) ==
    /\ req[q].phase = "pass"
    /\ IF Called(req[q]) = {} THEN c = 0 /\ ~fail /\ ~err
       ELSE c \in Called(req[q]) /\ (fail \/ err)
    /\ Becomes(q, [req[q] EXCEPT !.phase = "failed", !.cand = c, !.fail = fail, !.err = err])
    /\ UNCHANGED <<pins, walk, served>>

\* They all fail; c is the one reported.  A pass over no candidates reports the
\* zero candidate and no cause.
Fail(q, c, fail, err) ==
    /\ req[q].phase = "pass"
    /\ IF Called(req[q]) = {} THEN c = 0 /\ ~fail /\ ~err
       ELSE c \in Called(req[q]) /\ (fail \/ err)
    /\ Becomes(q, [req[q] EXCEPT !.phase = "failed", !.cand = c,
                                 !.fail = @ \/ fail, !.err = @ \/ err])
    /\ UNCHANGED <<pins, walk, served>>

-----------------------------------------------------------------------------
\* Fallback.

Unvisited(r) ==
    {i \in DOMAIN Routes[r.cur].fallbacks :
        Routes[r.cur].fallbacks[i] \in Names \ r.visited}

\* skip_retry_on_failure left out.
CanFallBack_ThoughPinned(r) ==
    /\ r.phase = "failed" /\ r.cur # "none" /\ r.hops < MaxHops
    /\ Unvisited(r) # {}

CanFallBack(r) ==
    /\ r.phase = "failed" /\ r.cur # "none" /\ r.hops < MaxHops /\ ~Pinned(r)
    /\ Unvisited(r) # {}

\* A route that is walked without being marked.
Fallback_Unmarked(q) ==
    LET next == Routes[req[q].cur].fallbacks[Min(Unvisited(req[q]))]
        moved == [req[q] EXCEPT !.hops = @ + 1]
    IN  /\ CanFallBack(req[q])
        /\ \E list \in Orders(next) :
             Becomes(q, IF list = <<>> THEN [moved EXCEPT !.phase = "pass", !.cur = next,
                                                          !.list = <<>>]
                        ELSE OnRoute(moved, next, list))
        /\ walk' = [walk EXCEPT ![q] = Append(@, next)]
        /\ UNCHANGED <<pins, served>>

\* The next route in the order of fallback_routes.  One without a usable
\* candidate is walked through with everything else as it was.
Fallback(q) ==
    LET next == Routes[req[q].cur].fallbacks[Min(Unvisited(req[q]))]
        moved == [req[q] EXCEPT !.hops = @ + 1, !.visited = @ \cup {next}]
    IN  /\ CanFallBack(req[q])
        /\ \E list \in Orders(next) :
             Becomes(q, IF list = <<>> THEN [moved EXCEPT !.phase = "pass", !.cur = next,
                                                          !.list = <<>>]
                        ELSE OnRoute(moved, next, list))
        /\ walk' = [walk EXCEPT ![q] = Append(@, next)]
        /\ UNCHANGED <<pins, served>>

\* Nowhere to go, as long as there is a route to go from.
GiveUp_OnlyRouted(q) ==
    /\ req[q].phase = "failed" /\ req[q].cur # "none" /\ ~CanFallBack(req[q])
    /\ Becomes(q, [req[q] EXCEPT !.phase = "answered"])
    /\ UNCHANGED <<pins, walk, served>>

GiveUp(q) ==
    /\ req[q].phase = "failed" /\ ~CanFallBack(req[q])
    /\ Becomes(q, [req[q] EXCEPT !.phase = "answered"])
    /\ UNCHANGED <<pins, walk, served>>

\* The handler relays the response or relayAllFailed reports the cause.
Relay(q) ==
    /\ req[q].phase = "answered"
    /\ Becomes(q, Idle)
    /\ walk' = [walk EXCEPT ![q] = <<>>]
    /\ UNCHANGED <<pins, served>>

\* One tick of the clock.  An expired pin is gone: Get drops it.
Tick ==
    /\ pins' = [h \in {g \in DOMAIN pins : pins[g].left > 0} |->
                   [pins[h] EXCEPT !.left = @ - 1]]
    /\ UNCHANGED <<req, walk, served>>

Proceed(q) ==
    \/ \E c \in Cands, below500 \in BOOLEAN : Serve(q, c, below500)
    \/ \E c \in Cands \cup {0}, fail, err \in BOOLEAN : Fail(q, c, fail, err)
    \/ Fallback(q)
    \/ GiveUp(q)
    \/ Relay(q)

Next ==
    \/ \E q \in Requests, ask \in Asks : Arrive(q, ask)
    \/ \E q \in Requests : Proceed(q)
    \/ Tick

\* A pass ends, since every attempt in it does (Dispatch, EveryRequestEnds).
Spec == Init /\ [][Next]_vars /\ \A q \in Requests : WF_vars(Proceed(q))

-----------------------------------------------------------------------------
PinState == [provider : Providers, model : Models, left : Nat]

RequestState ==
    [phase : {"idle", "pass", "failed", "answered"}, ask : Ask, cur : Names \cup {"none"},
     visited : SUBSET (Names \cup {"passthrough"}), hops : 0 .. MaxHops,
     list : Seq(Cands), strategy : {"failover", "fusion", "fusion_judge"},
     key : Hashes \cup {0}, ttl : Nat, skip : BOOLEAN, hit : BOOLEAN, cand : Cands \cup {0},
     resp : BOOLEAN, fail : BOOLEAN, err : BOOLEAN]

\* Pins and requests have the types the code declares, and no request makes more
\* than three hops.
TypeOK ==
    /\ DOMAIN pins \subseteq Hashes /\ \A h \in DOMAIN pins : pins[h] \in PinState
    /\ req \in [Requests -> RequestState]
    /\ walk \in [Requests -> Seq(Names)]
    /\ served \in [Hashes -> SUBSET Providers]

\* The handler has an error or a response to report whenever it has no answer
\* to relay, although a pass over an empty route reports neither
\* (relayAllFailed dereferences lastErr).
CauseToReport ==
    \A q \in Requests : (req[q].phase = "answered" /\ ~req[q].resp) =>
        req[q].fail \/ req[q].err

\* "max 3 route hops, cycles skipped" (config.example.yaml): whatever cycles the
\* fallback_routes of one route and the next make, and whatever routes on the way
\* have nobody to call, a request passes no route twice and no more than three after
\* its own (visited and hops of runRoute).
NoRouteTwice ==
    \A q \in Requests : IsInjective(walk[q]) /\ Len(walk[q]) <= MaxHops + 1

\* A session is sent to a provider that has served it: on an affinity hit the
\* first candidate called belongs to a provider that answered the same hash,
\* through all reorderings, expiries and other sessions (PinByAffinity).
HitWasServed ==
    \A q \in Requests : (req[q].phase = "pass" /\ req[q].hit /\ req[q].list # <<>>) =>
        ProviderOf(Head(req[q].list)) \in served[req[q].key]

\* skip_retry_on_failure: once a request is pinned it is answered, well or badly,
\* by the pinned candidate; fusion and fusion_judge call others all the same.
PinnedStays ==
    [][\A q \in Requests :
          LET r == req[q]
              n == req'[q]
          IN  (r.phase \in {"pass", "failed"} /\ Pinned(r) /\ ~Fusing(r) /\ ~Judging(r)) =>
                 /\ n.cur = r.cur /\ n.list = r.list
                 /\ n.phase \in {"failed", "answered"} => n.cand = Head(r.list)]_vars

\* No cycle of routes keeps a request from its answer (CycleProtection).
EveryRequestAnswered ==
    \A q \in Requests : (req[q].phase # "idle") ~> (req[q].phase = "idle")

-----------------------------------------------------------------------------
\* What the documentation promises and the code does not do.

\* "other virtual models tried, in order, when EVERY candidate here fails retryably
\* (max 3 route hops, cycles skipped)" (config.example.yaml): a request that goes
\* unanswered has used up its hops, or has been through every fallback of the route
\* it asked for.  The code looks for the next route in the list of the route that has
\* failed last.  A pinned session is promised no fallback.
FallbacksTried ==
    \A q \in Requests :
        (req[q].phase = "answered" /\ ~req[q].resp /\ walk[q] # <<>> /\ ~Pinned(req[q])) =>
            \/ Len(walk[q]) = MaxHops + 1
            \/ Range(Routes[req[q].ask.model].fallbacks) \subseteq Range(walk[q])

\* "skip routes with no usable candidates" (runRoute): a request that went
\* through one still ends with a candidate to report.
EmptyRouteSkipped ==
    \A q \in Requests : req[q].phase = "answered" => req[q].cand # 0
=============================================================================
