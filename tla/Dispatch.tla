------------------------------ MODULE Dispatch ------------------------------
(***************************************************************************)
(* Requests served by failover: internal/router/router.go (circuit and     *)
(* lock filtering, candidate order, inflight counters) and failoverPass of *)
(* internal/server/server.go, with the per-provider breakers of Breaker.   *)
(*                                                                         *)
(* Every request is a goroutine.  A step is one critical section of the    *)
(* shared state (a breaker's mutex, lockMu, latMu) with the local work     *)
(* around it, so another request, an administrator, a health check or the  *)
(* clock may come between asking a breaker, looking at a lock, sending,    *)
(* recording the answer and applying the cooldown the answer asked for.    *)
(*                                                                         *)
(* The scores the strategies sort by (latency, cost, quota, weight, load)  *)
(* are abstracted: whatever the strategy, the admitted candidates are      *)
(* tried in some order.                                                    *)
(***************************************************************************)
EXTENDS Breaker, FiniteSets, SequencesExt

CONSTANTS
    Requests,       \* request slots: how many requests are under way at once
    Providers,
    Policy,         \* the resolved circuit: block of every provider with one
    Candidates,     \* candidate |-> [provider, model]
    Route,          \* the route's candidates by priority, a sequence
    Passthrough,    \* the candidates of a model no route names
    Profiles,       \* what requests ask for and are allowed
    Rejections,     \* retryable upstream answers, [limited, kind]
    TransportKinds, \* kinds of transport errors
    Hints,          \* durations in Retry-After and reset headers, 0 for none
    RuleCooldowns,  \* cooldowns of the failure_rules that match, 0 for none
    ShortLock,      \* the lockout of a 404 or a plain 429
    LongLock,       \* QuotaExhaustedCooldown
    MaxTrips        \* bound: no request arrives beyond so many trips

Guarded == DOMAIN Policy
Cands == DOMAIN Candidates
ProviderOf(c) == Candidates[c].provider
Targets == {Candidates[c] : c \in Cands}

\* routed: a route names the model; tagged: the candidates X-Route-Tags
\* selects; granted: those the key's groups may use; fits: those whose context
\* window holds the prompt; timed: the request carries X-Timeout-Ms.
Profile == [routed : BOOLEAN, tagged : SUBSET Cands, granted : SUBSET Cands,
            fits : SUBSET Cands, timed : BOOLEAN]

ASSUME RequestsAssumption == IsFiniteSet(Requests)
ASSUME PolicyAssumption == Guarded \subseteq Providers /\ Policy \in [Guarded -> Config]
ASSUME CandidatesAssumption ==
    /\ IsFiniteSet(Cands) /\ Cands \subseteq Nat \ {0}
    /\ \A c \in Cands : ProviderOf(c) \in Providers
    /\ Route \in Seq(Cands) /\ Passthrough \in Seq(Cands) /\ IsInjective(Passthrough)
    /\ Profiles \subseteq Profile
    /\ \A profile \in Profiles : profile.routed => profile.tagged \subseteq Range(Route)
ASSUME AnswersAssumption ==
    /\ Rejections \subseteq [limited : BOOLEAN, kind : Kinds]
    /\ TransportKinds \subseteq Kinds /\ "timeout" \in TransportKinds
ASSUME DurationsAssumption ==
    /\ Hints \subseteq Nat /\ RuleCooldowns \subseteq Nat
    /\ ShortLock \in Nat \ {0} /\ LongLock \in Nat \ {0} /\ MaxTrips \in Nat

VARIABLES
    circuits,   \* Router.circuits
    modelLock,  \* Router.modelLock, as the ticks each lock still lasts
    inflight,   \* Router.inflight
    req,        \* the local state of every request
    seen        \* what each request has lived through, for the properties

vars == <<circuits, modelLock, inflight, req, seen>>

Statuses == {"none", "rejected", "ok", "not_found", "denied"}
NoAnswer == [status |-> "none", limited |-> FALSE, kind |-> "unknown"]

NoProfile == [routed |-> FALSE, tagged |-> {}, granted |-> {}, fits |-> {}, timed |-> FALSE]

\* phase:  scan     asking the breakers, candidate by candidate
\*         lock     the breaker of `at' admitted it; its model lock is next
\*         try      between two attempts
\*         call     the attempt at `at' is under way
\*         cool     `answer' is recorded; its lockouts and cooldowns are next
\*         body     relaying the answer of `at'
\* rest:   candidates still to be asked;  todo: admitted and not yet tried
\* ctx:    the request's context;  err, fail: lastErr and lastFailResp
Idle == [phase |-> "idle", profile |-> NoProfile, rest |-> <<>>, todo |-> <<>>,
         at |-> 0, ctx |-> "live", answer |-> NoAnswer, err |-> "none", fail |-> FALSE]

\* refused, locked: pending candidates whose breaker refused, or whose model was
\* locked, in every state since the request arrived;  healthy: candidates not yet
\* tried that were eligible, closed and unlocked in all of them.
NothingSeen == [refused |-> {}, locked |-> {}, healthy |-> {}]

Init ==
    /\ circuits = [p \in Guarded |-> NewBreaker]
    /\ modelLock = [t \in Targets |-> 0]
    /\ inflight = [p \in Providers |-> 0]
    /\ req = [q \in Requests |-> Idle]
    /\ seen = [q \in Requests |-> NothingSeen]

-----------------------------------------------------------------------------
\* Shared-state operations of the router, as the next value of the variable.

\* circuitAllow's answer: true for a provider without a breaker.
CircuitAllows(p) == p \in Guarded => Admits(Policy[p], circuits[p])

\* A circuit call on provider p that leaves breaker b; a no-op without one.
WithCircuit(p, b) == IF p \in Guarded THEN [circuits EXCEPT ![p] = b] ELSE circuits

AskCircuit(p) == WithCircuit(p, Allow(Policy[p], circuits[p]))

\* RecordResultKind, as far as it reaches the breaker.
RecordSuccess(p) == WithCircuit(p, OnSuccess(Policy[p], circuits[p]))
RecordFailure(p, kind, counts) ==
    WithCircuit(p, OnFailureKind(Policy[p], circuits[p], kind, counts))

LockFor(c, d) == [modelLock EXCEPT ![Candidates[c]] = d]

IncInflight(p) == [inflight EXCEPT ![p] = @ + 1]
DecInflight(p) == [inflight EXCEPT ![p] = IF @ > 0 THEN @ - 1 ELSE 0]

\* Request q moves to local state r.
Becomes(q, r) == req' = [req EXCEPT ![q] = r]

-----------------------------------------------------------------------------
\* The witness variable `seen' follows every step.

Eligible(profile) == profile.tagged \cap profile.granted \cap profile.fits

Observe ==
    LET Refuses(c) == ProviderOf(c) \in Guarded
                      /\ ~Admits(Policy[ProviderOf(c)], circuits'[ProviderOf(c)])
        Locked(c)  == modelLock'[Candidates[c]] > 0
        Steady(c)  == /\ ~Locked(c)
                      /\ ProviderOf(c) \in Guarded =>
                            circuits'[ProviderOf(c)].state \in {"closed", "degraded"}
        Before(q)  == IF req[q].phase # "idle" THEN seen[q]
                      ELSE [refused |-> Cands, locked |-> Cands,
                            healthy |-> Eligible(req'[q].profile)]
        Pending(q) == {req'[q].at} \cup Range(req'[q].rest) \cup Range(req'[q].todo)
        Sent(q)    == IF req'[q].phase = "call" THEN {req'[q].at} ELSE {}
    IN  seen' = [q \in Requests |->
                  IF req'[q].phase \in {"idle", "body"} THEN NothingSeen
                  ELSE [refused |-> {c \in Before(q).refused \cap Pending(q) : Refuses(c)},
                        locked  |-> {c \in Before(q).locked \cap Pending(q) : Locked(c)},
                        healthy |-> {c \in Before(q).healthy \ Sent(q) : Steady(c)}]]

-----------------------------------------------------------------------------
\* prepareRequest: the candidate list.

Calm == \A p \in Guarded : circuits[p].trips < MaxTrips

\* A passthrough model is offered to every provider, asking no breaker.
Arrive(q, profile) ==
    /\ req[q].phase = "idle"
    /\ Calm
    /\ Becomes(q, IF profile.routed
                  THEN [Idle EXCEPT !.phase = "scan", !.profile = profile, !.rest = Route]
                  ELSE [Idle EXCEPT !.phase = "scan", !.profile = profile,
                                    !.todo = Passthrough])
    /\ UNCHANGED <<circuits, modelLock, inflight>>
    /\ Observe

\* One candidate of OrderCandidatesCaps: its tags, then its breaker.  Allow
\* takes the probe of a cooled-down breaker whatever becomes of the candidate.
Consult(q) ==
    LET c == Head(req[q].rest)
        p == ProviderOf(c)
        skip == [req[q] EXCEPT !.rest = Tail(@)]
    IN  /\ req[q].phase = "scan" /\ req[q].rest # <<>>
        /\ \/ /\ c \notin req[q].profile.tagged
              /\ Becomes(q, skip)
              /\ UNCHANGED circuits
           \/ /\ c \in req[q].profile.tagged
              /\ circuits' = AskCircuit(p)
              /\ Becomes(q, IF CircuitAllows(p)
                            THEN [skip EXCEPT !.phase = "lock", !.at = c] ELSE skip)
        /\ UNCHANGED <<modelLock, inflight>>
        /\ Observe

\* Model locks not looked at.
CheckLock_Never(q) ==
    /\ req[q].phase = "lock"
    /\ Becomes(q, [req[q] EXCEPT !.phase = "scan", !.todo = Append(@, req[q].at), !.at = 0])
    /\ UNCHANGED <<circuits, modelLock, inflight>>
    /\ Observe

\* IsModelLocked, for the candidate its breaker has admitted.
CheckLock(q) ==
    /\ req[q].phase = "lock"
    /\ Becomes(q, [req[q] EXCEPT !.phase = "scan", !.at = 0,
                     !.todo = IF modelLock[Candidates[req[q].at]] = 0
                              THEN Append(@, req[q].at) ELSE @])
    /\ UNCHANGED <<circuits, modelLock, inflight>>
    /\ Observe

\* The strategy's order of what the key's groups may use; with no candidate left
\* the request is answered 400 or 403.  A passthrough candidate has no groups,
\* which every key may use, and the providers keep their order.
Order(q) ==
    /\ req[q].phase = "scan" /\ req[q].rest = <<>>
    /\ \E order \in IF req[q].profile.routed
                    THEN SetToSeqs(Range(req[q].todo) \cap req[q].profile.granted)
                    ELSE {req[q].todo} :
         Becomes(q, IF order = <<>> THEN Idle
                    ELSE [req[q] EXCEPT !.phase = "try", !.todo = order])
    /\ UNCHANGED <<circuits, modelLock, inflight>>
    /\ Observe

\* The per-request budget (402) or the response cache answers in place of the
\* candidates.
AnswerLocally(q) ==
    /\ req[q].phase = "scan" /\ req[q].rest = <<>>
    /\ req[q].profile.routed => Range(req[q].todo) \cap req[q].profile.granted # {}
    /\ req[q].todo # <<>>
    /\ Becomes(q, Idle)
    /\ UNCHANGED <<circuits, modelLock, inflight>>
    /\ Observe

-----------------------------------------------------------------------------
\* failoverPass.

Trying(q) == req[q].phase = "try" /\ req[q].todo # <<>>

\* The context-window guard, without going on to the next candidate.
SkipSmall_Stays(q) ==
    /\ Trying(q) /\ Head(req[q].todo) \notin req[q].profile.fits
    /\ Becomes(q, [req[q] EXCEPT !.err = "context"])
    /\ UNCHANGED <<circuits, modelLock, inflight>>
    /\ Observe

\* The context-window guard.
SkipSmall(q) ==
    /\ Trying(q) /\ Head(req[q].todo) \notin req[q].profile.fits
    /\ Becomes(q, [req[q] EXCEPT !.todo = Tail(@), !.err = "context"])
    /\ UNCHANGED <<circuits, modelLock, inflight>>
    /\ Observe

\* A candidate that stays on the list while it is called.
Send_StaysListed(q) ==
    LET c == Head(req[q].todo)
    IN  /\ Trying(q) /\ c \in req[q].profile.fits
        /\ inflight' = IncInflight(ProviderOf(c))
        /\ Becomes(q, [req[q] EXCEPT !.phase = "call", !.at = c])
        /\ UNCHANGED <<circuits, modelLock>>
        /\ Observe

Send(q) ==
    LET c == Head(req[q].todo)
    IN  /\ Trying(q) /\ c \in req[q].profile.fits
        /\ inflight' = IncInflight(ProviderOf(c))
        /\ Becomes(q, [req[q] EXCEPT !.phase = "call", !.todo = Tail(@), !.at = c])
        /\ UNCHANGED <<circuits, modelLock>>
        /\ Observe

\* The client goes away, or X-Timeout-Ms expires.  Either is felt by the
\* current attempt and by every later one, and nowhere else.
Leave(q) ==
    /\ req[q].phase = "call" /\ req[q].ctx = "live"
    /\ \E end \in {"canceled"} \cup (IF req[q].profile.timed THEN {"expired"} ELSE {}) :
         Becomes(q, [req[q] EXCEPT !.ctx = end])
    /\ UNCHANGED <<circuits, modelLock, inflight>>
    /\ Observe

\* The request after a failed transport.
AfterError(q) ==
    [req[q] EXCEPT !.phase = "try", !.at = 0, !.err = "transport", !.fail = FALSE]

\* A transport error that isLocalAbort recognises, by a cancelled context or by
\* the text of a reset or broken connection: not the provider's fault.
Abort(q) ==
    LET p == ProviderOf(req[q].at)
    IN  /\ req[q].phase = "call" /\ req[q].ctx # "expired"
        /\ inflight' = DecInflight(p)
        /\ circuits' = RecordFailure(p, "unknown", FALSE)
        /\ Becomes(q, AfterError(q))
        /\ UNCHANGED modelLock
        /\ Observe

\* Variants of a transport error: an inflight counter left standing, a lost
\* lastErr, a failover that ends there.
Break_KeepsInflight(q, kind) ==
    /\ req[q].phase = "call" /\ req[q].ctx # "canceled"
    /\ req[q].ctx = "expired" => kind = "timeout"
    /\ circuits' = RecordFailure(ProviderOf(req[q].at), kind, TRUE)
    /\ Becomes(q, AfterError(q))
    /\ UNCHANGED <<modelLock, inflight>>
    /\ Observe

Break_ForgetsError(q, kind) ==
    LET p == ProviderOf(req[q].at)
    IN  /\ req[q].phase = "call" /\ req[q].ctx # "canceled"
        /\ req[q].ctx = "expired" => kind = "timeout"
        /\ inflight' = DecInflight(p)
        /\ circuits' = RecordFailure(p, kind, TRUE)
        /\ Becomes(q, [AfterError(q) EXCEPT !.err = req[q].err])
        /\ UNCHANGED modelLock
        /\ Observe

Break_GivesUp(q, kind) ==
    LET p == ProviderOf(req[q].at)
    IN  /\ req[q].phase = "call" /\ req[q].ctx # "canceled"
        /\ req[q].ctx = "expired" => kind = "timeout"
        /\ inflight' = DecInflight(p)
        /\ circuits' = RecordFailure(p, kind, TRUE)
        /\ Becomes(q, [AfterError(q) EXCEPT !.todo = <<>>])
        /\ UNCHANGED modelLock
        /\ Observe

\* Any other transport error, an expired X-Timeout-Ms among them, counts.
Break(q, kind) ==
    LET p == ProviderOf(req[q].at)
    IN  /\ req[q].phase = "call" /\ req[q].ctx # "canceled"
        /\ req[q].ctx = "expired" => kind = "timeout"
        /\ inflight' = DecInflight(p)
        /\ circuits' = RecordFailure(p, kind, TRUE)
        /\ Becomes(q, AfterError(q))
        /\ UNCHANGED modelLock
        /\ Observe

\* The failover has ended with a response from c; only that matters from here.
Relaying(c) == [Idle EXCEPT !.phase = "body", !.at = c]

\* A retryable status.
Reject(q, rejection) ==
    LET p == ProviderOf(req[q].at)
    IN  /\ req[q].phase = "call" /\ req[q].ctx = "live"
        /\ inflight' = DecInflight(p)
        /\ circuits' = RecordFailure(p, rejection.kind, TRUE)
        /\ Becomes(q, [req[q] EXCEPT !.phase = "cool",
                         !.answer = [status |-> "rejected", limited |-> rejection.limited,
                                     kind |-> rejection.kind]])
        /\ UNCHANGED modelLock
        /\ Observe

\* Any other status: 2xx, 404, and the 401, 403, 400 that a client sees as is.
Accept(q, status) ==
    /\ req[q].phase = "call" /\ req[q].ctx = "live"
    /\ modelLock' = IF status = "not_found" THEN LockFor(req[q].at, ShortLock) ELSE modelLock
    /\ circuits' = RecordSuccess(ProviderOf(req[q].at))
    /\ Becomes(q, IF status = "ok" THEN Relaying(req[q].at)
                  ELSE [req[q] EXCEPT !.phase = "cool", !.answer.status = status])
    /\ UNCHANGED inflight
    /\ Observe

\* What an answer leaves behind once it is recorded.  429: a lockout of the
\* model until the signalled reset, and the breaker open for Retry-After unless
\* the balance is exhausted.  A failure rule that matches comes last and wins.
Cool(q, retryAfter, reset, rule) ==
    LET c == req[q].at
        p == ProviderOf(c)
        answer == req[q].answer
        lock == CASE reset > 0 -> reset
                  [] reset = 0 /\ retryAfter > 0 -> retryAfter
                  [] OTHER -> IF answer.kind = "quota_exhausted" THEN LongLock ELSE ShortLock
        hinted == IF answer.limited /\ answer.kind # "quota_exhausted"
                  THEN OpenFor(Policy[p], circuits[p], retryAfter) ELSE circuits[p]
    IN  /\ req[q].phase = "cool"
        /\ modelLock' = IF answer.limited THEN LockFor(c, lock) ELSE modelLock
        /\ circuits' = WithCircuit(p, OpenFor(Policy[p], hinted, rule))
        /\ Becomes(q, IF answer.status = "rejected"
                      THEN [req[q] EXCEPT !.phase = "try", !.at = 0, !.answer = NoAnswer,
                                          !.err = "none", !.fail = TRUE]
                      ELSE Relaying(c))
        /\ UNCHANGED inflight
        /\ Observe

\* The relayed body is closed: read to its end, or abandoned by the client.
Close(q) ==
    /\ req[q].phase = "body"
    /\ inflight' = DecInflight(ProviderOf(req[q].at))
    /\ Becomes(q, Idle)
    /\ UNCHANGED <<circuits, modelLock>>
    /\ Observe

\* relayAllFailed: the last retryable answer, else lastErr, goes to the client.
GiveUp(q) ==
    /\ req[q].phase = "try" /\ req[q].todo = <<>>
    /\ Becomes(q, Idle)
    /\ UNCHANGED <<circuits, modelLock, inflight>>
    /\ Observe

-----------------------------------------------------------------------------
\* What else reaches the breakers.

AdminDisable(p) ==
    /\ p \in Guarded
    /\ circuits' = WithCircuit(p, Disable(circuits[p]))
    /\ UNCHANGED <<modelLock, inflight, req>>
    /\ Observe

AdminEnable(p) ==
    /\ p \in Guarded
    /\ circuits' = WithCircuit(p, Enable(circuits[p]))
    /\ UNCHANGED <<modelLock, inflight, req>>
    /\ Observe

\* probeOnce with a 2xx answer, and the administrator's ResetCircuit.
HealthOK(p) ==
    /\ Calm
    /\ circuits' = RecordSuccess(p)
    /\ UNCHANGED <<modelLock, inflight, req>>
    /\ Observe

\* probeOnce with any other answer: here a 401 counts.
HealthFailed(p, kind) ==
    /\ Calm
    /\ circuits' = RecordFailure(p, kind, TRUE)
    /\ UNCHANGED <<modelLock, inflight, req>>
    /\ Observe

Tick ==
    /\ circuits' = [p \in Guarded |-> Elapse(Policy[p], circuits[p])]
    /\ modelLock' = [t \in Targets |-> Larger(modelLock[t] - 1, 0)]
    /\ UNCHANGED <<inflight, req>>
    /\ Observe

-----------------------------------------------------------------------------
\* What the gateway does for request q without anybody's help, and the answer
\* or timeout that every attempt ends with.
Proceed(q) ==
    \/ Consult(q)
    \/ CheckLock(q)
    \/ Order(q)
    \/ SkipSmall(q)
    \/ Send(q)
    \/ Abort(q)
    \/ \E kind \in TransportKinds : Break(q, kind)
    \/ \E rejection \in Rejections : Reject(q, rejection)
    \/ \E status \in {"ok", "not_found", "denied"} : Accept(q, status)
    \/ \E retryAfter \in Hints, reset \in Hints, rule \in RuleCooldowns :
          Cool(q, retryAfter, reset, rule)
    \/ Close(q)
    \/ GiveUp(q)

Environment ==
    \/ \E p \in Providers : AdminDisable(p) \/ AdminEnable(p) \/ HealthOK(p)
    \/ \E p \in Providers, kind \in Kinds : HealthFailed(p, kind)
    \/ Tick

Next ==
    \/ \E q \in Requests, profile \in Profiles : Arrive(q, profile)
    \/ \E q \in Requests : AnswerLocally(q) \/ Leave(q) \/ Proceed(q)
    \/ Environment

Spec == Init /\ [][Next]_vars

\* The scheduler runs every goroutine, and every provider client has a timeout.
Fairness == \A q \in Requests : WF_vars(Proceed(q))

FairSpec == Spec /\ Fairness

-----------------------------------------------------------------------------
RequestState ==
    [phase : {"idle", "scan", "lock", "try", "call", "cool", "body"},
     profile : Profile, rest : Seq(Cands), todo : Seq(Cands), at : Cands \cup {0},
     ctx : {"live", "canceled", "expired"},
     answer : [status : Statuses, limited : BOOLEAN, kind : Kinds \cup {"unknown"}],
     err : {"none", "context", "transport"}, fail : BOOLEAN]

\* Breakers, locks, counters and requests have the types the code declares; a
\* lock's remaining time and an inflight count are never negative.
TypeOK ==
    /\ circuits \in [Guarded -> BreakerState]
    /\ modelLock \in [Targets -> Nat]
    /\ inflight \in [Providers -> Nat]
    /\ req \in [Requests -> RequestState]

\* A request in local state r has an upstream attempt or an unread body.
Holds(r) == \/ r.phase \in {"call", "body"}
            \/ r.phase = "cool" /\ r.answer.status # "rejected"

\* The requests that have theirs at provider p.
Holders(p) == {q \in Requests : Holds(req[q]) /\ ProviderOf(req[q].at) = p}

\* The load signal of least_connections and auto is exact: a provider's counter
\* is the number of requests waiting on it or relaying from it, over every way
\* an attempt can end (IncInflight, DecInflight, inflightBody).
InflightExact ==
    \A p \in Providers : inflight[p] = Cardinality(Holders(p))

\* A routed request is not sent to a provider whose breaker has refused
\* ever since the request arrived, nor to a model locked ever since: the checks
\* are stale by the time of the call, but no staler than the request.
NotSentBlindly ==
    \A q \in Requests : (req[q].phase = "call" /\ req[q].profile.routed) =>
        req[q].at \notin seen[q].refused \cup seen[q].locked

\* Failover forgets nobody: an untried candidate the request may use, closed and
\* unlocked ever since it arrived, is still to come until there is a response
\* (OrderCandidatesCaps, failoverPass).
NobodyForgotten ==
    \A q \in Requests : (req[q].profile.routed /\ req[q].answer.status \in {"none", "rejected"})
        => seen[q].healthy \subseteq Range(req[q].rest) \cup Range(req[q].todo) \cup {req[q].at}

\* relayAllFailed dereferences lastErr when there is no response to relay:
\* whatever mix of skips, errors and answers ended the failover, one is there.
FailureHasCause ==
    \A q \in Requests : (req[q].phase = "try" /\ req[q].todo = <<>>) =>
        req[q].fail \/ req[q].err # "none"

\* What a request in local state r looks like to the caller of the failover: how far
\* it has come, who may still be called, who is asked, and whether something failed.
JobOf(r) ==
    LET Job(stage, may, with, cause) ==
            [stage |-> stage, may |-> may, with |-> with, cause |-> cause]
        failed == r.fail \/ r.err # "none"
    IN  CASE r.phase = "idle" -> Job("idle", {}, 0, FALSE)
          [] r.phase = "scan" -> Job("choosing", Range(r.rest) \cup Range(r.todo), 0, FALSE)
          [] r.phase = "lock" ->
                Job("choosing", Range(r.rest) \cup Range(r.todo) \cup {r.at}, 0, FALSE)
          [] r.phase = "try" -> Job("trying", Range(r.todo), 0, failed)
          [] r.phase = "call" -> Job("calling", Range(r.todo), r.at, failed)
          [] r.phase = "cool" /\ r.answer.status = "rejected" ->
                Job("calling", Range(r.todo), r.at, failed)
          [] OTHER -> Job("served", {}, r.at, FALSE)

Abstract == INSTANCE Failover WITH job <- [q \in Requests |-> JobOf(req[q])], Nobody <- 0

\* The failover does what Failover promises: nobody is called twice, nobody who has
\* been dropped from the list, and it ends with an answer from the one it is calling
\* or with nobody left and a cause (failoverPass).
FailsOver == Abstract!Spec

\* What is left of a request in local state r, in steps: at most six for a candidate
\* to be asked about, four for one to be called.
StepsLeft(r) ==
    LET ask == 6 * Len(r.rest)
        call == 4 * Len(r.todo)
    IN  CASE r.phase = "scan" -> ask + call + 3
          [] r.phase = "lock" -> ask + call + 8
          [] r.phase = "try"  -> call + 2
          [] r.phase = "cool" -> call + 3
          [] r.phase = "call" -> call + (IF r.ctx = "live" THEN 5 ELSE 4)
          [] r.phase = "body" -> 1
          [] OTHER -> 0

\* No request goes round in circles: whatever happens to it, from an aborting client
\* to a rejected attempt, brings it nearer to its end, and nobody else's step sets it
\* back (prepareRequest, failoverPass).
StepsRunOut ==
    [][\A q \in Requests : (req[q].phase # "idle" /\ req'[q] # req[q]) =>
          StepsLeft(req'[q]) < StepsLeft(req[q])]_vars

\* Every request is answered, whatever the breakers, locks and clients do.
EveryRequestEnds ==
    \A q \in Requests : (req[q].phase # "idle") ~> (req[q].phase = "idle")

-----------------------------------------------------------------------------
\* What the documentation promises and the code does not do.

\* "half-open: probe already in flight" (circuit.go): some request that was
\* let through is still on its way to the provider.
ProbeInFlight ==
    \A p \in Guarded : circuits[p].state = "half-open" =>
        \E q \in Requests : \E c \in {req[q].at} \cup Range(req[q].todo) :
            c # 0 /\ ProviderOf(c) = p

\* "401/403 open the circuit immediately" (README).
DenialOpens ==
    [][\A q \in Requests :
          (req[q].phase = "call" /\ req'[q].answer.status = "denied"
           /\ ProviderOf(req[q].at) \in Guarded) =>
              circuits'[ProviderOf(req[q].at)].state \in {"open", "disabled"}]_vars
=============================================================================
