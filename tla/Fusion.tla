------------------------------- MODULE Fusion -------------------------------
(***************************************************************************)
(* The strategies that ask several candidates at once: the race of two     *)
(* (internal/server/fusion.go) and the panel with its judge                *)
(* (fusionjudge.go), over the key pools of their providers                 *)
(* (openai.go, ChatComplete).                                              *)
(*                                                                         *)
(* Every candidate is called by a goroutine of its own.  The handler waits *)
(* for both racers; of a panel it collects answers until all are in, or    *)
(* the grace after the quorum or the deadline has passed, and then asks    *)
(* one more candidate, call 0: the judge, or the only one that answered.   *)
(* Returning from there cancels the calls still under way.                 *)
(***************************************************************************)
EXTENDS KeyPool

CONSTANTS
    Members,        \* candidates of the route, 1 .. n
    Providers,
    ProviderOf,     \* the provider of each candidate
    KeysAt,         \* the number of keys of each provider
    Cost,           \* the price of each candidate's model, unknown being dear
    Orders,         \* the candidate lists that filtering can leave
    JudgeAt,        \* the provider of the configured judge, None if there is none
    None,
    MinPanels,      \* the values of min_panel, 0 if not configured
    Statuses,       \* the answers that providers give
    Grace, Timeout, \* grace_ms, timeout_ms in ticks
    MaxRuns         \* bound: requests, one after the other

Answered == {"ok", "denied", "limited", "failing", "refused"}   \* 200, 401, 429, 5xx, 400

ASSUME FusionAssumption ==
    /\ 0 \notin Members /\ Members \subseteq Nat /\ IsFiniteSet(Members)
    /\ ProviderOf \in [Members -> Providers] /\ KeysAt \in [Providers -> Nat]
    /\ Cost \in [Members -> Nat]
    /\ \A order \in Orders : order \in Seq(Members) /\ Len(order) > 1 /\ IsInjective(order)
    /\ None \notin Providers \cup Nat /\ JudgeAt \in Providers \cup {None}
    /\ MinPanels \subseteq Nat /\ Statuses \subseteq Answered
    /\ Grace \in Nat \ {0} /\ Timeout \in Nat \ {0} /\ MaxRuns \in Nat

VARIABLES
    pools,      \* provider -> its KeyPool
    inflight,   \* provider -> its inflight counter
    run,        \* the request: its strategy, progress, timers and contexts
    calls,      \* each candidate's call, and call 0
    rows,       \* member -> usage rows logged for its panel call
    runs,       \* requests so far
    denied      \* for the properties: provider -> key -> how long ago its last
                \* 401 or 429 was, KeyCooldown at most

vars == <<pools, inflight, run, calls, rows, runs, denied>>

Calls == Members \cup {0}

NoCall == [at |-> "none", key |-> NoKey, status |-> "none", outcome |-> "none", counted |-> "none"]

NoRun == [phase |-> "idle", kind |-> "none", order |-> <<>>, quorum |-> 0, grace |-> None,
          deadline |-> 0, ctx |-> "live", panelCtx |-> "live", reply |-> "none", from |-> 0]

Retryable == {"limited", "failing"}
CoolsKey == {"denied", "limited"}

Init ==
    /\ pools = [p \in Providers |-> NewKeyPool(KeysAt[p])]
    /\ inflight = [p \in Providers |-> 0]
    /\ run = NoRun
    /\ calls = [m \in Calls |-> NoCall]
    /\ rows = [m \in Members |-> 0]
    /\ runs = 0
    /\ denied = [p \in Providers |-> [k \in 1 .. KeysAt[p] |-> KeyCooldown]]

Panel == Range(run.order)

\* A variant that waits for more answers than there are candidates.
QuorumOf_Unclamped(minPanel, size) == IF minPanel = 0 THEN 2 ELSE minPanel

\* FusionJudge.resolve
QuorumOf(minPanel, size) ==
    LET n == IF minPanel = 0 THEN 2 ELSE minPanel IN IF n > size THEN size ELSE n

Taken(outcome) == {m \in Panel : calls[m].at = "taken" /\ calls[m].outcome = outcome}
Answers == Taken("answer")

\* resolveJudge: the configured one, or the first of the panel; a single answer
\* is asked for again with the original request.
At(m) ==
    IF m # 0 THEN ProviderOf[m]
    ELSE IF Cardinality(Answers) = 1 THEN ProviderOf[CHOOSE a \in Answers : TRUE]
    ELSE IF JudgeAt # None THEN JudgeAt ELSE ProviderOf[run.order[1]]

InPanel(m) == run.kind = "judge" /\ m # 0

Ended(m) == calls[m].at \in {"none", "landed", "taken"}

\* The context a call runs under.
ContextOf(m) == IF InPanel(m) THEN run.panelCtx ELSE run.ctx

Cancel(ctx) == IF ctx = "live" THEN "canceled" ELSE ctx

-----------------------------------------------------------------------------
(* One call                                                                *)

Leave(p) == inflight' = [inflight EXCEPT ![p] = Less(@)]

\* A call that ends, with what RecordResult makes of it.
Land(m, outcome, counted) ==
    calls' = [calls EXCEPT ![m].at = "landed", ![m].key = NoKey,
                           ![m].outcome = outcome, ![m].counted = counted]

\* "all API keys in cooldown" is an error like a broken connection.
Launch(m) ==
    /\ calls[m].at = "ready"
    /\ IF Available(pools[At(m)])
       THEN /\ pools' = [pools EXCEPT ![At(m)] = Picked(@)]
            /\ inflight' = [inflight EXCEPT ![At(m)] = @ + 1]
            /\ calls' = [calls EXCEPT ![m].at = "sent", ![m].key = Pick(pools[At(m)])]
       ELSE Land(m, "keys", "failure") /\ UNCHANGED <<pools, inflight>>
    /\ UNCHANGED <<run, rows, runs, denied>>

\* The status of the answer decides about the key.
Headers(m, status) ==
    LET p == At(m)  k == calls[m].key
    IN  /\ calls[m].at = "sent"
        /\ calls' = [calls EXCEPT ![m].at = "body", ![m].status = status]
        /\ IF status \in CoolsKey
           THEN /\ pools' = [pools EXCEPT ![p] = Cool(@, k)]
                /\ denied' = IF k = NoKey THEN denied ELSE [denied EXCEPT ![p][k] = 0]
           ELSE pools' = [pools EXCEPT ![p] = RecordUse(@, k)] /\ UNCHANGED denied
        /\ UNCHANGED <<inflight, run, rows, runs>>

\* The race counts every error against the provider.  The panel and the last call
\* spare it the client's or their own cancellation, and a connection that was reset.
Blamed(m) ==
    IF ~InPanel(m) /\ m # 0 THEN {"failure"}
    ELSE IF ContextOf(m) = "canceled" THEN {"spared"} ELSE {"failure", "spared"}

\* The connection or its context breaks.
Break(m) ==
    /\ calls[m].at = "sent"
    /\ Leave(At(m))
    /\ \E counted \in Blamed(m) : Land(m, "err", counted)
    /\ UNCHANGED <<pools, run, rows, runs, denied>>

\* A variant that leaves the metering to the collector.
Metered_IfAwaited(m) == [rows EXCEPT ![m] = IF run.phase = "panel" THEN @ + 1 ELSE @]

Metered(m) == [rows EXCEPT ![m] = @ + 1]

\* panelCall reads the body, whole or as far as it comes, and logs its usage row
\* whether it is of any use or not.
ReadPanelBody(m, how) ==
    /\ InPanel(m) /\ calls[m].at = "body"
    /\ Leave(At(m))
    /\ IF calls[m].status # "ok"
       THEN Land(m, "fail", "failure") /\ UNCHANGED rows
       ELSE /\ rows' = Metered(m)
            /\ Land(m, IF how = "text" THEN "answer" ELSE "err", "success")
    /\ UNCHANGED <<pools, run, runs, denied>>

\* A racer, or the last call: an error is buffered, anything else is relayed and
\* counts as under way until its body is closed.
Respond(m) ==
    /\ ~InPanel(m) /\ calls[m].at = "body"
    /\ IF calls[m].status \in Retryable
       THEN Leave(At(m)) /\ Land(m, "fail", "failure")
       ELSE Land(m, "response", "success") /\ UNCHANGED inflight
    /\ UNCHANGED <<pools, run, rows, runs, denied>>

Call(m) ==
    \/ Launch(m) \/ Break(m) \/ Respond(m)
    \/ \E status \in Statuses : Headers(m, status)
    \/ \E how \in {"text", "blank", "broken"} : ReadPanelBody(m, how)

-----------------------------------------------------------------------------
(* The handler                                                             *)

Ready(order) ==
    [m \in Calls |-> IF m \in Range(order) THEN [NoCall EXCEPT !.at = "ready"] ELSE NoCall]

\* runRoute comes to a route of one of the two strategies.
Start(kind, order, minPanel) ==
    /\ run.phase = "idle" /\ runs < MaxRuns
    /\ \A m \in Calls : Ended(m)
    /\ runs' = runs + 1
    /\ LET started == IF kind = "race" THEN SubSeq(order, 1, 2) ELSE order
       IN  /\ run' = [NoRun EXCEPT !.phase = IF kind = "race" THEN "race" ELSE "panel",
                         !.kind = kind, !.order = started, !.deadline = Timeout,
                         !.quorum = IF kind = "judge" THEN QuorumOf(minPanel, Len(order)) ELSE 0]
           /\ calls' = Ready(started)
    /\ rows' = [m \in Members |-> 0]
    /\ UNCHANGED <<pools, inflight, denied>>

\* A variant that counts results.
AnswersWith_AnyResult(m) == Cardinality({n \in Panel : calls[n].at = "taken"} \cup {m})

AnswersWith(m) == Cardinality(Answers \cup (IF calls[m].outcome = "answer" THEN {m} ELSE {}))

\* The collector takes a result.  The quorum starts the grace once, and nothing is
\* waited for when everybody is in.
Collect(m) ==
    /\ run.phase = "panel" /\ InPanel(m) /\ calls[m].at = "landed"
    /\ calls' = [calls EXCEPT ![m].at = "taken"]
    /\ run' = [run EXCEPT
           !.grace = IF AnswersWith(m) >= run.quorum /\ @ = None THEN Grace ELSE @,
           !.phase = IF \A n \in Panel \ {m} : calls[n].at = "taken" THEN "decide" ELSE @]
    /\ UNCHANGED <<pools, inflight, rows, runs, denied>>

\* It stops when the grace or the deadline has passed or the client has gone.
StopCollecting ==
    /\ run.phase = "panel"
    /\ run.grace = 0 \/ run.panelCtx # "live"
    /\ run' = [run EXCEPT !.phase = "decide"]
    /\ UNCHANGED <<pools, inflight, calls, rows, runs, denied>>

\* What is relayed when there is no response: the last upstream error, or 502.
Failure == IF Taken("fail") # {} THEN "fail" ELSE "error"

\* fusionJudgeRun returns: what is left of the panel is cancelled.
Returned(reply) ==
    [run EXCEPT !.phase = IF reply = "response" THEN "relay" ELSE "idle", !.reply = reply,
                !.panelCtx = Cancel(@)]

\* There may be nobody to ask, or no judge's request to make of the client's, which
\* may hold a number that prepareRequest has let pass and judgeRequestBody does not.
Decide ==
    /\ run.phase = "decide"
    /\ \/ /\ Answers # {}
          /\ run' = [run EXCEPT !.phase = "last"]
          /\ calls' = [calls EXCEPT ![0] = [NoCall EXCEPT !.at = "ready"]]
       \/ Answers = {} /\ run' = Returned(Failure) /\ UNCHANGED calls
       \/ Cardinality(Answers) > 1 /\ run' = Returned("error") /\ UNCHANGED calls
    /\ UNCHANGED <<pools, inflight, rows, runs, denied>>

\* The pass over the one candidate of the last call has ended.
LastEnds ==
    /\ run.phase = "last" /\ calls[0].at = "landed"
    /\ calls' = [calls EXCEPT ![0].at = "taken"]
    /\ run' = Returned(CASE calls[0].outcome = "response" -> "response"
                         [] calls[0].outcome = "fail" -> "fail"
                         [] OTHER -> "error")
    /\ UNCHANGED <<pools, inflight, rows, runs, denied>>

\* Both racers are in: a 200 wins, of two the cheaper; without one the first
\* response is relayed, whatever it says.  The other body is closed.
Responses == {m \in Panel : calls[m].outcome = "response"}
Good == {m \in Responses : calls[m].status = "ok"}

Place(m) == CHOOSE i \in DOMAIN run.order : run.order[i] = m

Better(m, n) ==
    \/ m \in Good /\ n \notin Good
    \/ m \in Good /\ n \in Good /\ Cost[m] < Cost[n]
    \/ (m \in Good <=> n \in Good) /\ (m \in Good => Cost[m] = Cost[n]) /\ Place(m) < Place(n)

Winner == CHOOSE m \in Responses : \A n \in Responses \ {m} : Better(m, n)

\* A variant that drops the loser's response without closing it.
Discard_Unclosed(m) == UNCHANGED inflight

Discard(m) == Leave(At(m))

RaceEnds ==
    /\ run.phase = "race"
    /\ \A m \in Panel : calls[m].at = "landed"
    /\ calls' = [m \in Calls |-> IF m \in Panel THEN [calls[m] EXCEPT !.at = "taken"] ELSE calls[m]]
    /\ IF Responses = {}
       THEN /\ run' = Returned(IF \E m \in Panel : calls[m].outcome = "fail" THEN "fail" ELSE "error")
            /\ UNCHANGED inflight
       ELSE /\ run' = [Returned("response") EXCEPT !.from = Winner]
            /\ IF Responses = {Winner} THEN UNCHANGED inflight
               ELSE Discard(CHOOSE m \in Responses : m # Winner)
    /\ UNCHANGED <<pools, rows, runs, denied>>

\* The relayed body is closed, read to its end or not.
CloseBody ==
    /\ run.phase = "relay"
    /\ Leave(At(run.from))
    /\ run' = [run EXCEPT !.phase = "idle"]
    /\ UNCHANGED <<pools, calls, rows, runs, denied>>

Handle ==
    \/ StopCollecting \/ Decide \/ LastEnds \/ RaceEnds \/ CloseBody
    \/ \E m \in Members : Collect(m)

\* The client goes away.
Abort ==
    /\ run.phase # "idle" /\ run.ctx = "live"
    /\ run' = [run EXCEPT !.ctx = "canceled", !.panelCtx = Cancel(@)]
    /\ UNCHANGED <<pools, inflight, calls, rows, runs, denied>>

Waits == run.kind = "judge" /\ run.panelCtx = "live"

\* A variant that takes the grace for the only limit.
Timers_GraceOnly ==
    [run EXCEPT !.grace = IF Waits /\ @ # None THEN Less(@) ELSE @]

\* The grace and the deadline, which ends the context of the panel.
Timers ==
    IF ~Waits THEN run
    ELSE [run EXCEPT !.grace = IF @ = None THEN None ELSE Less(@),
                     !.deadline = Less(@),
                     !.panelCtx = IF run.deadline = 1 THEN "expired" ELSE @]

Tick ==
    /\ run' = Timers
    /\ pools' = [p \in Providers |-> PassTime(pools[p])]
    /\ denied' = [p \in Providers |-> [k \in DOMAIN denied[p] |->
                     IF denied[p][k] = KeyCooldown THEN KeyCooldown ELSE denied[p][k] + 1]]
    /\ UNCHANGED <<inflight, calls, rows, runs>>

Next ==
    \/ \E kind \in {"race", "judge"}, order \in Orders, n \in MinPanels : Start(kind, order, n)
    \/ \E m \in Calls : Call(m)
    \/ Handle \/ Abort \/ Tick

Spec == Init /\ [][Next]_vars

\* Goroutines run, timers run out, and a call that the panel does not bound by its
\* deadline is bounded by the client's timeout.  No provider need ever answer.
Fairness ==
    /\ WF_vars(Handle) /\ WF_vars(Tick)
    /\ \A m \in Calls :
          /\ WF_vars(Launch(m)) /\ WF_vars(Respond(m))
          /\ WF_vars((~InPanel(m) \/ run.panelCtx # "live") /\ Break(m))
          /\ WF_vars(run.panelCtx # "live" /\ ReadPanelBody(m, "broken"))

FairSpec == Spec /\ Fairness

-----------------------------------------------------------------------------
(* Properties                                                              *)

CallState ==
    [at : {"none", "ready", "sent", "body", "landed", "taken"}, key : Nat \cup {NoKey},
     status : Statuses \cup {"none"},
     outcome : {"none", "keys", "err", "fail", "answer", "response"},
     counted : {"none", "success", "failure", "spared"}]

\* Types, and a key that is in the pool of the call's provider.
TypeOK ==
    /\ \A p \in Providers :
          /\ IsPool(pools[p], KeysAt[p])
          /\ denied[p] \in [1 .. KeysAt[p] -> 0 .. KeyCooldown]
    /\ inflight \in [Providers -> Nat]
    /\ run.phase \in {"idle", "race", "panel", "decide", "last", "relay"}
    /\ run.kind \in {"none", "race", "judge"} /\ run.order \in Seq(Members)
    /\ run.quorum \in 0 .. Len(run.order)
    /\ run.grace \in 0 .. Grace \cup {None} /\ run.deadline \in 0 .. Timeout
    /\ run.ctx \in {"live", "canceled"} /\ run.panelCtx \in {"live", "canceled", "expired"}
    /\ run.reply \in {"none", "response", "fail", "error"} /\ run.from \in Calls
    /\ calls \in [Calls -> CallState]
    /\ \A m \in Calls : calls[m].key # NoKey => calls[m].key \in 1 .. KeysAt[At(m)]
    /\ rows \in [Members -> Nat] /\ runs \in 0 .. MaxRuns

\* A call holds its provider's counter until it has failed, been read, or its body
\* has been closed.
Holds(m) ==
    \/ calls[m].at \in {"sent", "body"}
    \/ /\ calls[m].outcome = "response"
       /\ calls[m].at = "landed" \/ (run.phase = "relay" /\ run.from = m)

\* Whatever way racers, losers, stragglers and judges end, the inflight counter of a
\* provider is the number of calls to it that are under way (fusion.go:70).
FusionInflightExact ==
    \A p \in Providers :
        inflight[p] = Cardinality({m \in Calls : Holds(m) /\ At(m) = p})

\* Answers are judged only when everybody is in, the quorum has waited out its grace,
\* or the deadline or the client has ended the wait (README "Collection").
QuorumRespected ==
    run.kind = "judge" /\ run.phase \in {"decide", "last"} =>
        \/ \A m \in Panel : calls[m].at = "taken"
        \/ run.grace = 0 /\ Cardinality(Answers) >= run.quorum
        \/ run.panelCtx # "live"

\* A 200 that a panel call has read is logged exactly once, also if the collector has
\* left long ago, and nothing else is (README "Metering").
MeteredOnce ==
    run.kind = "judge" =>
        \A m \in Members : rows[m] = IF calls[m].status = "ok" /\ Ended(m) THEN 1 ELSE 0

\* A key that the upstream has denied rests for the whole cooldown, whatever other
\* answers to it still come in, and a call goes without a key only while all rest.
KeysRest ==
    [][\A m \in Calls : calls[m].at = "ready" =>
          LET k == calls'[m].key
          IN  /\ k # NoKey => denied[At(m)][k] = KeyCooldown
              /\ calls'[m].outcome = "keys" => \A j \in DOMAIN denied[At(m)] : denied[At(m)][j] < KeyCooldown
      ]_vars

\* A request ends, and with it every call of its panel, also those of providers that
\* never answer.
NoCallOutlives == run.phase # "idle" ~> run.phase = "idle" /\ \A m \in Calls : Ended(m)
=============================================================================
