------------------------------ MODULE Gateway ------------------------------
(***************************************************************************)
(* What a request passes through before and after it is sent to a          *)
(* provider (internal/server/server.go): the row of its API key and its    *)
(* quotas, the key's token buckets, the daily counter, the quota ledger    *)
(* that sinks exhausted candidates, the response cache, and the charges.   *)
(*                                                                         *)
(* Each access to the database, a bucket, the ledger or the cache is a     *)
(* step; between them other requests, reloads and restarts take theirs.    *)
(* All requests are of one key and one model.  The USD budget is kept and  *)
(* checked as the token quota is.                                          *)
(***************************************************************************)
EXTENDS Sequences, RateLimit, QuotaLedger, ResponseCache, Stream

CONSTANTS
    Requests,       \* requests that can be under way at a time
    Setups,         \* the limits and options to explore
    MaxTokens,      \* the largest answer
    Totals,         \* what whole answers cost
    Observations    \* what providers say is left

\* A limit of 0 is none.  `modelRpm' takes the place of `rpm', `limit' is the
\* metered candidate's tokens per window, `headers' whether it says what is left.
\* `events' is the length of streamed answers; with 0 answers come whole.
\* The bounds of the exploration: requests, midnights, and `upsets': restarts,
\* reloads, changes of the key and writes that the database refuses.
Setup == [quota : Nat, daily : Nat, rpm : Nat, modelRpm : Nat, tpm : Nat, limit : Nat,
          headers : BOOLEAN, cached : BOOLEAN, events : Nat,
          arrivals : Nat, days : Nat, upsets : Nat]

Cands == {"metered", "spare"}   \* only one of them has a row in the ledger

ASSUME GatewayAssumption ==
    /\ IsFiniteSet(Requests) /\ Cands \subseteq CacheKeys
    /\ Setups \subseteq Setup /\ MaxTokens \in Nat \ {0}
    /\ Observations \subseteq Nat
    /\ Totals \subseteq 0 .. MaxTokens /\ \A u \in Usages : Total(u) <= MaxTokens

VARIABLES
    setup,
    row,        \* the key in the database: enabled, spent, used on a day
    day,
    buckets,    \* requests and tokens left this minute
    quota,      \* the ledger's row of the metered candidate
    cache,
    req,        \* each request's progress and what it has read
    arrivals, upsets,
    delivered,  \* for the properties: tokens that clients have been given
    counted,    \* for the properties: requests let through the daily quota today
    uncounted,  \* for the properties: those of them that are missing in the database
    lost,       \* for the properties: requests that will never be charged
    recent      \* for the properties: the ticks since each request passed its RPM
                \* limit, Minute at most, latest first

vars == <<setup, row, day, buckets, quota, cache, req, arrivals, upsets,
          delivered, counted, uncounted, lost, recent>>

Idle == [at |-> "idle", spent |-> 0, today |-> 0, first |-> "metered", by |-> "metered",
         tokens |-> 0, old |-> FALSE, stream |-> NoStream]

\* A stream is not cached.
Cached == setup.cached /\ setup.events = 0

RpmLimit == IF setup.modelRpm > 0 THEN setup.modelRpm ELSE setup.rpm

FullBuckets(s) ==
    [rpm |-> NewBucket(IF s.modelRpm > 0 THEN s.modelRpm ELSE s.rpm), tpm |-> NewBucket(s.tpm)]

Init ==
    /\ setup \in Setups
    /\ row = [enabled |-> TRUE, spent |-> 0, used |-> 0, day |-> 0]
    /\ day = 0
    /\ buckets = FullBuckets(setup)
    /\ quota = NewQuota /\ cache = NewCache
    /\ req = [q \in Requests |-> Idle]
    /\ arrivals = 0 /\ upsets = 0
    /\ delivered = 0 /\ counted = 0 /\ uncounted = 0 /\ lost = 0 /\ recent = <<>>

At(q, step) == req[q].at = step

Go(q, step) == req' = [req EXCEPT ![q].at = step]

Done(q) == req' = [req EXCEPT ![q] = Idle]

stores == <<row, buckets, quota, cache>>
ghosts == <<delivered, counted, uncounted, lost, recent>>
rest == <<setup, day, arrivals, upsets>>

\* One of the rare things that the exploration has a bound for.
Upset == upsets < setup.upsets /\ upsets' = upsets + 1

-----------------------------------------------------------------------------
(* requireKey and prepareRequest                                           *)

\* A row of another day counts nothing.
UsedToday == IF row.day = day THEN row.used ELSE 0

\* GetByKey; a disabled key is turned away.
Arrive(q) ==
    /\ At(q, "idle") /\ arrivals < setup.arrivals
    /\ row.enabled
    /\ arrivals' = arrivals + 1
    /\ req' = [req EXCEPT ![q].at = "admit", ![q].spent = row.spent, ![q].today = UsedToday]
    /\ UNCHANGED <<setup, day, upsets, stores, ghosts>>

\* The quotas, as they were when the key was read.
WithinQuotas(q) ==
    /\ setup.quota > 0 => req[q].spent < setup.quota
    /\ setup.daily > 0 => req[q].today < setup.daily

\* The request limit, of the key or of the key and the model.
Admit(q) ==
    /\ At(q, "admit")
    /\ UNCHANGED <<rest, row, quota, cache, delivered, counted, uncounted, lost>>
    /\ IF WithinQuotas(q) /\ Allows(buckets.rpm, RpmLimit)
       THEN /\ buckets' = [buckets EXCEPT !.rpm = Take(@, RpmLimit)]
            /\ recent' = IF RpmLimit > 0 THEN <<0>> \o recent ELSE recent
            /\ Go(q, "tokens")
       ELSE Done(q) /\ UNCHANGED <<buckets, recent>>

\* The token limit; the request token is gone.
CheckTokens(q) ==
    /\ At(q, "tokens")
    /\ IF setup.tpm > 0 /\ Remaining(buckets.tpm) <= 0 THEN Done(q)
       ELSE Go(q, IF setup.daily > 0 THEN "count" ELSE "route")
    /\ UNCHANGED <<rest, stores, ghosts>>

\* A variant that counts from what the request has read.
IncrDaily_FromSnapshot(q) == [row EXCEPT !.used = req[q].today + 1, !.day = day]

\* IncrDaily begins a new day's count.
IncrDaily(q) == [row EXCEPT !.used = UsedToday + 1, !.day = day]

CountDay(q) ==
    /\ At(q, "count")
    /\ row' = IncrDaily(q)
    /\ counted' = counted + 1
    /\ Go(q, "route")
    /\ UNCHANGED <<rest, buckets, quota, cache, delivered, uncounted, lost, recent>>

\* The database refuses: that is logged, and the request goes on uncounted.
CountFails(q) ==
    /\ At(q, "count")
    /\ Upset
    /\ counted' = counted + 1 /\ uncounted' = uncounted + 1
    /\ Go(q, "route")
    /\ UNCHANGED <<setup, day, arrivals, stores, delivered, lost, recent>>

\* fill_first puts an exhausted candidate last.  A request that no candidate may
\* serve ends here (400, 402, 403), counted as it is.
Route(q) ==
    /\ At(q, "route")
    /\ quota' = IF req[q].old THEN quota ELSE Read(quota, setup.limit)
    /\ \/ req' = [req EXCEPT ![q].at = IF Cached THEN "get" ELSE "send",
                            ![q].first = IF ~req[q].old /\ Exhausted(quota, setup.limit)
                                         THEN "spare" ELSE "metered"]
       \/ Done(q)
    /\ UNCHANGED <<rest, row, buckets, cache, ghosts>>

-----------------------------------------------------------------------------
(* chatCompletions: the cache, the answer and what it costs                *)

\* The key has the first candidate's model in it.
Key(q) == req[q].first

\* RespCache.get: a hit is free.
Get(q) ==
    /\ At(q, "get")
    /\ IF Fresh(cache, Key(q)) THEN Done(q)
       ELSE Go(q, IF Expired(cache, Key(q)) THEN "expire" ELSE "send")
    /\ UNCHANGED <<rest, stores, ghosts>>

Expire(q) ==
    /\ At(q, "expire")
    /\ cache' = Delete(cache, Key(q))
    /\ Go(q, "uncount")
    /\ UNCHANGED <<rest, row, buckets, quota, ghosts>>

UncountExpired(q) ==
    /\ At(q, "uncount")
    /\ cache' = Uncount(cache)
    /\ Go(q, "send")
    /\ UNCHANGED <<rest, row, buckets, quota, ghosts>>

\* An attempt may be made: the first, or one after an answer that was retryable.
Attempting(q) == At(q, "send") \/ At(q, "again")

\* runRoute ends without an answer (502, a relayed failure).
Fail(q) ==
    /\ Attempting(q)
    /\ Done(q)
    /\ UNCHANGED <<rest, stores, ghosts>>

Left == IF setup.headers THEN Observations \cup {Unobserved} ELSE {Unobserved}

\* An answer may say what is left of its provider's quota.
Observe(q, by, left) ==
    quota' = IF by = "metered" /\ left # Unobserved /\ ~req[q].old
             THEN ObserveUpstream(quota, left) ELSE quota

\* A retryable answer says it, too, before another candidate is tried, or the same
\* one on a fallback route.
Refuse(q, left) ==
    /\ At(q, "send")
    /\ Observe(q, "metered", left)
    /\ Go(q, "again")
    /\ UNCHANGED <<rest, row, buckets, cache, ghosts>>

\* What the usage of the answer says is charged; an answer without usage is free.
Charge(q, by, tokens) ==
    /\ delivered' = delivered + tokens
    /\ IF tokens = 0 THEN Done(q)
       ELSE req' = [req EXCEPT ![q].at = "deduct", ![q].by = by, ![q].tokens = tokens]

\* relayFull: some candidate's answer, whole.
Answer(q, by, tokens, left) ==
    /\ Attempting(q) /\ setup.events = 0
    /\ Observe(q, by, left) /\ Charge(q, by, tokens)
    /\ UNCHANGED <<rest, row, buckets, cache, counted, uncounted, lost, recent>>

\* relayStream: an answer in pieces.
AnswerStream(q, by, dialect, left) ==
    /\ Attempting(q) /\ setup.events > 0
    /\ Observe(q, by, left)
    /\ req' = [req EXCEPT ![q].at = "relay", ![q].by = by, ![q].stream = NewStream(dialect)]
    /\ UNCHANGED <<rest, row, buckets, cache, ghosts>>

Relay(q) ==
    LET t == req[q].stream
    IN  /\ At(q, "relay") /\ ~t.closed
        /\ \/ \E e \in EventsOf(t.dialect) :
                 /\ ~t.done /\ t.data = NoEvent /\ t.said.events < setup.events
                 /\ req' = [req EXCEPT ![q].stream = Hears(t, e)]
           \/ ~t.done /\ t.data # NoEvent /\ req' = [req EXCEPT ![q].stream = Separated(t)]
           \/ req' = [req EXCEPT ![q].stream = Over(t)]
        /\ UNCHANGED <<rest, stores, ghosts>>

\* The stream is over, or a write has failed because the client has left.
EndStream(q) ==
    LET t == req[q].stream
    IN  /\ At(q, "relay") /\ (t.closed \/ ~t.done)
        /\ Charge(q, req[q].by, Total(t.tracked))
        /\ UNCHANGED <<rest, stores, counted, uncounted, lost, recent>>

DeductTPM(q) ==
    /\ At(q, "deduct")
    /\ buckets' = [buckets EXCEPT !.tpm = Deduct(@, req[q].tokens)]
    /\ Go(q, "spend")
    /\ UNCHANGED <<rest, row, quota, cache, ghosts>>

\* SpendTokens and SpendUSD add in the database.
SpendTokens(q) ==
    /\ At(q, "spend")
    /\ row' = [row EXCEPT !.spent = @ + req[q].tokens]
    /\ Go(q, "record")
    /\ UNCHANGED <<rest, buckets, quota, cache, ghosts>>

\* The database refuses: that is logged, and the request stays free.
SpendFails(q) ==
    /\ At(q, "spend")
    /\ Upset
    /\ lost' = lost + 1
    /\ Go(q, "record")
    /\ UNCHANGED <<setup, day, arrivals, stores, delivered, counted, uncounted, recent>>

\* Quota().Record: an old router's ledger is nobody's any more.  Only an answer of
\* status 200 is for the cache.
RecordUse(q) ==
    /\ At(q, "record")
    /\ quota' = IF req[q].by = "metered" /\ ~req[q].old
                THEN Record(quota, setup.limit, req[q].tokens) ELSE quota
    /\ (Cached /\ Go(q, "store")) \/ Done(q)
    /\ UNCHANGED <<rest, row, buckets, cache, ghosts>>

\* RespCache.store: what is there stays.
Store(q) ==
    /\ At(q, "store")
    /\ IF Key(q) \in Stored(cache) THEN Done(q) /\ UNCHANGED cache
       ELSE cache' = Put(cache, Key(q)) /\ Go(q, "added")
    /\ UNCHANGED <<rest, row, buckets, quota, ghosts>>

CountStored(q) ==
    /\ At(q, "added")
    /\ cache' = Count(cache)
    /\ IF cache'.n > CacheCap THEN Go(q, "evict") ELSE Done(q)
    /\ UNCHANGED <<rest, row, buckets, quota, ghosts>>

\* Any entry may be the victim.
Evict(q) ==
    /\ At(q, "evict")
    /\ IF Stored(cache) = {} THEN Done(q) /\ UNCHANGED cache
       ELSE \E victim \in Stored(cache) : cache' = Delete(cache, victim) /\ Go(q, "evicted")
    /\ UNCHANGED <<rest, row, buckets, quota, ghosts>>

UncountEvicted(q) ==
    /\ At(q, "evicted")
    /\ cache' = Uncount(cache)
    /\ Done(q)
    /\ UNCHANGED <<rest, row, buckets, quota, ghosts>>

Proceed(q) ==
    \/ Admit(q) \/ CheckTokens(q) \/ CountDay(q) \/ CountFails(q) \/ Route(q)
    \/ Get(q) \/ Expire(q) \/ UncountExpired(q) \/ Fail(q)
    \/ DeductTPM(q) \/ SpendTokens(q) \/ SpendFails(q) \/ RecordUse(q)
    \/ Store(q) \/ CountStored(q) \/ Evict(q) \/ UncountEvicted(q)
    \/ Relay(q) \/ EndStream(q)
    \/ \E left \in Left : Refuse(q, left)
    \/ \E by \in Cands, left \in Left, tokens \in Totals : Answer(q, by, tokens, left)
    \/ \E by \in Cands, left \in Left, dialect \in Dialects : AnswerStream(q, by, dialect, left)

-----------------------------------------------------------------------------
(* Time, administration, reloads and restarts                              *)

\* A sixtieth of the minute, as it were.
Tick ==
    /\ buckets' = [rpm |-> IF RpmLimit = 0 THEN 0 ELSE Refill(buckets.rpm, RpmLimit),
                   tpm |-> IF setup.tpm = 0 THEN 0 ELSE Refill(buckets.tpm, setup.tpm)]
    /\ quota' = Elapsed(quota)
    /\ cache' = Aged(cache)
    /\ recent' = [i \in DOMAIN recent |-> IF recent[i] = Minute THEN Minute ELSE recent[i] + 1]
    /\ UNCHANGED <<rest, row, req, delivered, counted, uncounted, lost>>

Midnight ==
    /\ day < setup.days
    /\ day' = day + 1 /\ counted' = 0 /\ uncounted' = 0
    /\ UNCHANGED <<setup, arrivals, upsets, stores, req, delivered, lost, recent>>

\* probeBalanceOnce; a probe that fails changes nothing.
ProbeBalance(low) ==
    /\ setup.limit > 0
    /\ quota' = SetBalanceLow(quota, low)
    /\ UNCHANGED <<rest, row, buckets, cache, req, ghosts>>

\* adminSetKey drops the key's buckets with every change.
SetKey(enabled) ==
    /\ Upset
    /\ row' = [row EXCEPT !.enabled = enabled]
    /\ buckets' = FullBuckets(setup) /\ recent' = <<>>
    /\ UNCHANGED <<setup, day, arrivals, quota, cache, req, delivered, counted, uncounted, lost>>

\* A reload builds a new router with an empty ledger, and keeps the keys, the
\* limiter and the cache; requests under way stay with the old one.
Reload ==
    /\ Upset
    /\ quota' = NewQuota
    /\ req' = [q \in Requests |-> IF At(q, "idle") THEN req[q] ELSE [req[q] EXCEPT !.old = TRUE]]
    /\ UNCHANGED <<setup, day, arrivals, row, buckets, cache, ghosts>>

\* Only the database survives a restart.
Restart ==
    /\ Upset
    /\ buckets' = FullBuckets(setup) /\ quota' = NewQuota /\ cache' = NewCache
    /\ req' = [q \in Requests |-> Idle]
    /\ lost' = lost + Cardinality({q \in Requests : ~At(q, "idle")})
    /\ recent' = <<>>
    /\ UNCHANGED <<setup, day, arrivals, row, delivered, counted, uncounted>>

Next ==
    \/ \E q \in Requests : Arrive(q) \/ Proceed(q)
    \/ Tick \/ Midnight \/ Reload \/ Restart
    \/ \E yes \in BOOLEAN : ProbeBalance(yes) \/ SetKey(yes)

Spec == Init /\ [][Next]_vars

\* Time passes.
FairSpec == Spec /\ WF_vars(Tick)

-----------------------------------------------------------------------------
(* Properties                                                              *)

Steps == {"idle", "admit", "tokens", "count", "route", "get", "expire", "uncount", "send",
          "again", "relay", "deduct", "spend", "record", "store", "added", "evict", "evicted"}

\* Types; a bucket is never overdrawn nor over its limit (ratelimit.go:103).
TypeOK ==
    /\ setup \in Setups
    /\ row.enabled \in BOOLEAN /\ row.spent \in Nat /\ row.used \in Nat /\ row.day \in 0 .. day
    /\ day \in 0 .. setup.days
    /\ buckets.rpm \in Buckets(RpmLimit) /\ buckets.tpm \in Buckets(setup.tpm)
    /\ IsQuota(quota) /\ IsCache(cache)
    /\ \A q \in Requests :
          /\ req[q].at \in Steps /\ req[q].spent \in Nat /\ req[q].today \in Nat
          /\ req[q].first \in Cands /\ req[q].by \in Cands
          /\ req[q].tokens \in 0 .. MaxTokens /\ req[q].old \in BOOLEAN
          /\ At(q, "relay") => IsStream(req[q].stream)
    /\ arrivals \in 0 .. setup.arrivals /\ upsets \in 0 .. setup.upsets
    /\ delivered \in Nat /\ counted \in Nat /\ uncounted \in Nat /\ lost \in Nat
    /\ recent \in Seq(0 .. Minute)

\* A translated stream is one that a client can read to its end, whatever comes from
\* the upstream and wherever it breaks off (anthropic.go:348, gemini.go:363).
StreamsWellFormed == \A q \in Requests : At(q, "relay") => WellFormed(req[q].stream)

\* The texts and the usage that an upstream sent before it ended or broke off reach the
\* client and the charge, an event still waiting for its blank line included
\* (anthropic.go:370, gemini.go:361, sse.go:103).
StreamsFaithful == \A q \in Requests : At(q, "relay") => Faithful(req[q].stream)

Most(n) == n * Cardinality(Requests)

\* The quotas are checked before and charged after the request, so they can be
\* overrun, but only by the requests that are under way at a time and by those that
\* are never charged or counted, because a restart has cut them off or the database
\* has refused, which prepareRequest and chatCompletions log and carry on from
\* (server.go:510, 567, 1150): the charges of concurrent requests, of two days or of two
\* processes never undo each other (auth.go:230, 243).
OverrunBounded ==
    /\ setup.quota > 0 => delivered < setup.quota + Most(MaxTokens) + lost * MaxTokens
    /\ setup.daily > 0 => counted < setup.daily + Most(1) + uncounted

\* In any minute without a restart or a change of the key, no more than twice its
\* limit of requests pass, whatever was left unused before (ratelimit.go:39).
RateBounded == \A i \in DOMAIN recent : recent[i] < Minute => i <= 2 * RpmLimit

InSteps(steps) == Cardinality({q \in Requests : req[q].at \in steps})

\* The counter of the cache never exceeds what is stored, beyond the operations under
\* way, so that nothing is evicted before the cache is full (cache.go:87-100).
CacheCounted ==
    cache.n + InSteps({"added"}) - InSteps({"uncount", "evicted"}) <= Cardinality(Stored(cache))

\* A candidate whose tokens are used up is not held for exhausted for ever: its window,
\* or what it last said of itself, passes (quota.go:209), provided that its balance is
\* restored.
QuotaComesBack ==
    []<>(~quota.low) => (Exhausted(quota, setup.limit) ~> ~Exhausted(quota, setup.limit))
=============================================================================
