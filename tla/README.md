# TokenRoute in TLA+

TokenRoute is an LLM gateway in Go: a request for a virtual model is admitted
(API key, quotas, rate limits), its route's candidates are filtered and ordered,
and they are tried one after the other until a provider answers. These modules
model the parts of it where concurrent requests, failures and time decide what
happens, check them with TLC on small instances, and prove the most important
facts with TLAPS for every value of the constants.

`PROJECT.json` maps every definition to the source lines it stands for.

## The system

| Part | State | Operations | Talks to |
|---|---|---|---|
| Circuit breaker (`router/circuit.go`) | state, failures, trips, cycles, cooldown, percent window, per-kind counters, under `c.mu` | Allow, OnSuccess, OnFailureKind, OpenFor, Disable, Enable | called by the router only |
| Router (`router/router.go`) | breakers by provider, model locks (`lockMu`), latency, error rate, request windows and inflight (`latMu`), sticky cursors, last-known-good | OrderCandidatesCaps, LockModel, RecordResultKind, OpenCircuitFor, Inc/DecInflight, PinByAffinity, administration | server, health checks, admin |
| Failover (`server/server.go`) | local to the request: candidate list, lastErr, lastFailResp; visited routes | prepareRequest, runRoute, failoverPass, relay | router, providers |
| Fusion, fusion_judge (`server/fusion*.go`) | local: answers of the panel, quorum, grace timer, contexts | a goroutine per candidate, the collector, the judge's call | router, providers |
| Admission (`server.go`, `auth`, `ratelimit`) | keys in SQLite, token buckets in memory | requireKey, checks in prepareRequest, charges after the relay | requests, admin |
| Key pool (`provider/keypool.go`) | scan position, per-key cooldown and request window | Pick, RecordUse, Cool | provider clients |
| Quota ledger, balance (`router/quota.go`, `server/balance.go`) | use per window, last observation and balance flag, by provider and model | Record, ObserveUpstream, SetBalanceLow, Remaining | strategies, server |
| Response cache (`server/cache.go`) | a concurrent map, and a counter beside it | get, store, eviction | chat handler |
| Stream relay (`relayStream`, `anthropic.go`, `gemini.go`, `usage/sse.go`) | per stream: the translator's buffer and flags, the tracker's usage | Read, dispatch, Feed | upstream, client, charges |
| Failure rules, retry policy (`router/failurerules.go`, `retrypolicy.go`) | backoff level per provider | Cooldown, OnSuccess, Retryable | failover |
| Health checks (`server/healthcheck.go`) | ticker per target | probeOnce | router, providers |
| Config store (`config/store.go`) | YAML file, revision, backups | Snapshot, Validate, Commit | admin API, reloader |
| Reload (`cmd/tokenroute/reloader.go`, `main.go`) | the current state pointer, worker contexts | Apply, Validate | everything |
| Whole answers, usage log, metrics, prices, catalog, search, dashboard | | translation, append-only records, periodic downloads | not modelled, see the end |

What is hard here is concurrency without a transaction. Each piece of shared
state has its own mutex, and a request touches several in turn: it asks the
breakers, looks at the locks, sorts by counters, calls, records the result, sets
a lock, postpones the breaker. Anything can happen between two of these, and an
answer arrives long after the question that allowed it. Then there are clients
that leave, deadlines that expire, providers that ask to be left alone for a
while, an administrator, health checks, and configuration reloads that replace
all the state while requests still hold the old one.

What makes each part correct:

* breaker: state and counters agree in every order of calls; cooldowns are
  honoured; a probe is always possible in the end; disabled means disabled;
* router and failover: filters are honoured, each usable candidate is tried
  before giving up, every way an attempt ends is accounted once, every request ends with something to report;
* fallback: the fallbacks are tried, no route twice, at most three hops, a pinned request stays where its
  session is;
* panel: it ends, with a quorum or a reason, and takes its stragglers with it;
* admission: limits hold up to the requests already admitted and those that are
  never charged;
* streams: one end and nothing after it, and nothing that was said is lost;
* pools, ledger, cache: what rests rests, what is exhausted comes back, and a
  counter does not run ahead of what it counts;
* configuration: the file is always a complete configuration, the running state
  is one that was in the file, and secrets survive an edit that does not mention
  them.

## Modules

| Module | What it is |
|---|---|
| `Breaker` | the methods of `circuit.go` as operators from a breaker record to the next; no variables, no recursion |
| `CircuitBreaker` | one breaker, its configuration and a history variable; one action per method, and the clock |
| `MCCircuitBreaker` | four policies for TLC |
| `Dispatch` | requests failing over: breakers, model locks, inflight counters and the local state of every request |
| `Failover` | what a request may expect of the failover: the abstract specification; `Dispatch` refines it |
| `MCDispatch` | two requests, a primary with a breaker, a standby without |
| `RouteFallback` | requests going from route to route, and the affinity pins they share; a pass over one route is a step |
| `MCRouteFallback` | five routes with cyclic fallbacks, a pinned session |
| `KeyPool` | the key pool of `keypool.go` as operators on a record |
| `Fusion` | a request to a fusion or fusion_judge route: one action per step of each call's goroutine and of the handler; composes `KeyPool` |
| `MCFusion` | five candidates of three providers (two keys, one, none), asked in pairs |
| `RateLimit`, `QuotaLedger`, `ResponseCache`, `Stream` | token buckets, the ledger's row, the cache with its counter, a streamed answer: operators on records |
| `Gateway` | requests from the read of their key to the last charge; composes the four |
| `MCGateway` | two requests at a time, under each limit and option |
| `ConfigDocument` | the document and what the store does to it: redaction, checks, restoration of secrets, merge |
| `ConfigFile` | what the admin API promises of the file: the abstract specification |
| `ConfigStore` | the file, backups, saves, SIGHUP, the running process; refines `ConfigFile` |
| `MCConfigStore` | two admins and an editor over one document |
| `BreakerProofs` | what each operator of `Breaker` preserves |
| `CircuitBreakerProofs` | the theorems about `CircuitBreaker` |
| `DispatchProofs` | the theorems about `Dispatch`, the refinement among them |
| `RouteFallbackProofs` | the theorems about `RouteFallback` |
| `FusionProofs` | the theorems about `KeyPool` and `Fusion` |
| `StreamProofs` | what the translators and the relaying loop do to a stream |
| `GatewayProofs` | the theorems about `Gateway` and the four modules it composes |
| `ConfigStoreProofs` | what redaction, restoration and merge preserve; the theorems about `ConfigStore`, the refinement among them |

### Breaker and CircuitBreaker

A breaker is a record with the fields of the Go struct. `openedAt` and
`winStart` are kept as ages; an age stops growing when no comparison in the code
can tell it from a larger one, so the state space is finite without a clock
bound. `lastKind` is left out: nothing reads it. `failurePercent` is an integer
percentage where the code has a fraction. A configuration is resolved by
`NewConfig`, which applies the defaults of `NewCircuitBreaker`; a duration is in
ticks, and 30 ticks stand for the default of 30 s.

Every method holds `c.mu` from its first read to its last write, so each call is
one step. Nothing connects an answer to the call of Allow that preceded it: any
success or failure may be reported in any state.

`hist` records what the breaker does not know and the properties need: what the
latest opening still owes (`owed`), what is left of the latest OpenFor
(`promised`), whether Enable was called since the last success (`enabled`), and
for each age below a minute, how many failures are of that age or younger (`recent`).

### Dispatch

A request is a goroutine that goes through `scan` and `lock` (the filter of
OrderCandidatesCaps, candidate by candidate), `try`, `call`, `cool`, `body`.
A step is one critical section of shared state with the local work around it,
with two coarser ones: Accept records a success together with the lockout of a
404, and Cool sets the lockout and both postponements of one answer.

* `Consult` is `circuitAllow`; it changes the breaker of every tagged candidate
  that has cooled down, as the code does, and `CheckLock` looks at the lock in a
  step of its own.
* `Order` is what the strategies do. The scores they sort by (latency, cost,
  weight, windows, quota, affinity) are not modelled: any permutation of the
  admitted candidates the key's groups grant may come out. A passthrough model
  has no route, no groups and no strategy: its providers keep their order.
* `AnswerLocally` is the budget rejection and the response cache, both of which
  come after the breakers have been asked.
* An attempt ends in `Abort`, `Break`, `Reject` or `Accept`. `Abort` is a
  transport error that does not count: isLocalAbort goes by the text of the error,
  and takes a connection that the upstream has reset or broken for a client that
  has left, so the step may come while the context is still live. A client that
  leaves or a deadline that expires (`Leave`) fails the current and every later
  attempt of that request; since nothing else looks at the context, the step is
  allowed only while an attempt is under way.
* `Cool` is the lockout and Retry-After of a 429 and the cooldown of a failure
  rule; `Close` is the `Close` of `inflightBody`.
* A model without a route is offered to every provider without asking breakers or
  locks (`Passthrough`).

`seen` is a history variable: for each request, which candidates have been
refused, locked, or closed and unlocked in every state since it arrived.

`Failover` is what remains of a request when breakers, locks, counters and contexts
are forgotten: who may still be called, who is being called, and whether something
has failed. Nobody is called twice, an answer comes from the one being called, and
the failover gives up only with nobody left and a cause. `Dispatch` implements it with
`job <- JobOf(req[q])` for each request.

### RouteFallback

`runRoute` calls the candidates of a route in one of three ways (failoverPass,
fusionRun, fusionJudgeRun), and goes on to a fallback route when they all fail. Such
a pass is one step here, `Serve` or `Fail`: any candidate it may call (`Called`)
answers, or it leaves a response, an error or both. `FailureHasCause` of `Dispatch`
is what allows `Fail` to require one of the two, and `FailsOver` that a pass ends in
one of these two ways; a pass over no candidates leaves neither. What breakers,
locks, tags and the strategy make of a route is any order of any subset of its
candidates (`Orders`), taken when the request comes to the route.

* `OnRoute` is what the code does on entering a route that has candidates: its
  strategy, its affinity key, TTL and skip_retry, and the pinned candidate first.
  `Fallback` to a route without candidates changes `cur` and the candidate list
  and leaves all the rest to the next pass, as lines 917-920 do.
* `pins` holds a provider, a model and the ticks left. An expired pin is removed
  by the clock, where the code removes it when it is next looked up: no
  lookup can tell. A candidate has the model of the configuration and the one
  MapModel makes of it; a pass reports the second, fusion the first, and
  `PinFirst` compares with the first, as the code does.
* `walk` and `served` are history variables: the routes a request has come
  through, and the providers that have served each hash.

### KeyPool and Fusion

A key pool is the position of the scan, the ticks each key still rests, and the
requests in the window of each key that has been used. `Pick` is the least used
key that does not rest, the first that the scan meets among equals; `Picked` is
what the scan leaves behind. Pick is one critical section; `RecordUse` and `Cool`
come with the headers of the answer, and between the two any other call may pick
the same key.

A call goes `ready`, `sent`, `body`, `landed`, `taken`. `Launch` is Pick together
with IncInflight, `Headers` the status and what it does to the key, `Break` a
transport error or the end of the call's context, `ReadPanelBody` and `Respond`
what panelCall and failoverPass or fusionRun make of the answer. `Decide` has a
way out when several have answered: prepareRequest ignores what it cannot rewrite,
judgeRequestBody returns an error for a request that it cannot parse again
(`fusionjudge.go:96-100`). The handler is
`Collect`, `StopCollecting`, `Decide`, `LastEnds`, `RaceEnds` and `CloseBody`.
`run` has its timers (`grace`, None before the quorum, and `deadline`) and the two
contexts: the request's, and the panel's, which also ends with the deadline and
when fusionJudgeRun returns. Call 0 is the judge, or the repeated call of the
only candidate that answered. What RecordResult is told is kept as `counted`
(`Blamed`): the race counts every error as a failure, aborted calls too, the panel and
the last call spare what isLocalAbort recognises; the breakers and locks that it changes are `Dispatch`'s. `rows` are the usage rows of panel calls,
and `denied` is a history variable: the ticks since each key's last 401 or 429.

### Gateway, RateLimit, QuotaLedger, ResponseCache, Stream

A request goes through `admit`, `tokens`, `count`, `route`, the cache (`get`,
`expire`, `uncount`), the attempts (`send`, `again`) or `relay`, the charges (`deduct`, `spend`,
`record`) and the cache again (`store`, `added`, `evict`, `evicted`). Every access
to the database, a bucket, the ledger, the map or the counter is a step; `req`
holds what the request has read (`spent`, `today`) and uses later.

* `RateLimit`: a bucket is counted in Minute-ths of a token, so that a tick adds
  the limit; an Invalidate leaves a full bucket, as does a bucket not yet made.
* `QuotaLedger`: one row, for the candidate `metered`; `spare` has none. Windows
  roll when somebody reads or records, observations age, the balance flag stays
  until the next probe that succeeds.
* `ResponseCache`: each operator is one atomic operation on the map or the
  counter; `get` and `store` are sequences of them in `Gateway`. The key has the
  first candidate in it, so the cache has two keys. Only a whole answer of status
  200 is stored, so `RecordUse` may go past the cache.
* `Refuse` is an attempt with a retryable answer: its headers are observed as those
  of the last one are. One such attempt precedes the answer at most; a second
  observation overwrites the first.
* `CountFails` and `SpendFails` are the database's refusals, which are logged while
  the request goes on (`server.go:567-569`, `1150-1157`).
* `Stream`: an event is a line of data and the blank line after it (`Hears`,
  `Separated`); `Over` is the end or the breaking off of the upstream, anywhere
  between two lines. `Dispatch` is the dispatch of the two translators; an OpenAI
  stream is relayed as it comes. `tracked` is what the usage tracker has.
* `Reload` empties the ledger and marks the requests under way `old`: their
  observations and records go to the ledger of the router they hold. `Restart`
  keeps only the row in the database. `SetKey` drops the key's buckets.
* `delivered`, `counted`, `uncounted`, `lost` and `recent` are history variables:
  tokens given to clients, requests let through the daily quota today, those of them
  that are missing in the database, requests that will never be charged (cut off by a
  restart, or their charge refused), and the age of every request that has passed its
  RPM limit. `upsets` bounds restarts, reloads, key changes and refusals together.

The USD budget is read, checked and charged as the token quota is, in the same
places, and is not kept a second time.

### ConfigDocument, ConfigFile, ConfigStore

A document has the two kinds of place where secrets are: `named`, found again by
the name of its item, and `pool`, found only by position. `hot` stands for all
that is applied at once, `listen` for the public address, and `boot` for the admin
address and the database, which need a restart like it; `admin_key`, which a save keeps
as well and SIGHUP applies with nothing to open, is left out.
An admin's save leaves both as they run (`Overlay`). SIGHUP makes the whole document
the active configuration, and then binds the public address only
(`main.go:490-504`). Which
values decode and which of those can be built are constants. A submission is one
edit (`Edits`) of what the client was shown (`Redact`).

Commit is `Put` (everything up to taking the decision to write, under `Store.mu`)
and then one action per file operation: `WriteBackup`, `WriteTemp`, `SyncTemp`,
`Rename`, `RemoveOld` and `RenameAgain` (the fallback when a rename fails),
`Apply`, `RotateBackups`. An Apply that fails goes back to `WriteTemp` with `undo`
set. Every file operation may fail (`Fault`). SIGHUP is `HupLoad`, `HupApply`,
`HupRebind`, without the lock; `OutsideEdit` an editor; `Crash` stops the process
and `PowerLoss` the machine, where the contents of a file that was not synced may
be torn, and any backup, since writeBackup syncs none (`store.go:1691`).

`ConfigFile` is the abstract specification: a file, what each admin has seen, and
whose save is under way. A save begins only if its author has seen what is in the
file, and until it ends the store writes nothing but documents in which every
literal secret is where it was. `ConfigStore` implements it with
`disk <- file.doc`, `seen <- ` the base of each admin, `saving <- mu`,
`byHand <- edits`.

## Runs

| Run | States | Question |
|---|---|---|
| `breaker` | 23k | Do state, counters, budgets and cooldowns agree in every order of calls, and does an open breaker always get its probe? |
| `dispatch` | 356k | Are inflight counters exact, filters honoured, no usable candidate forgotten, failures explained; does the failover keep what `Failover` promises, does each step bring a request nearer to its end, and does every request end? |
| `fallback` | 79k | Does a request pass no route twice, within the hop limit, go where its session was served and stay there, and end with something to report? |
| `breaker_disabled` | finding | `DisabledUntilEnabled` fails |
| `breaker_retry_after` | finding | `RetryAfterHonoured` fails |
| `dispatch_probe` | finding | `ProbeInFlight` fails |
| `dispatch_denied` | finding | `DenialOpens` fails |
| `fusion` | 663k | Are the counters of racers, panels, stragglers and judges exact, is a panel judged only with a quorum or a reason, is every 200 metered once, do denied keys rest, and does no call outlive its request for ever? |
| `gateway` | 933k | By how much can quotas and rate limits be overrun, does the cache's counter run ahead, does an exhausted candidate come back, does a stream have one end and lose nothing? |
| `config` | 728k | Is the file complete and its predecessor backed up wherever a save stops, does the process run it, do secrets stay in place, are saves serialised (`ConfigFile`), do they end? |
| `fallback_empty` | finding | `EmptyRouteSkipped` fails |
| `fallback_order` | finding | `FallbacksTried` fails |

Bounds. `breaker`: policies with a warning band (threshold 4), with escalation in
reach (auto-disable 7), in percent mode, and with per-kind budgets; OpenFor for 0, 1
and 3 ticks, shorter and longer than the cooldown; a minute of 3 ticks; at most 8
trips (so the fourth to seventh cycle, with cooldowns doubled up to eightfold, are
reached), 4 requests in a window (twice the minimum), 4 failures of a kind (three
more than the budget). `dispatch`: two requests suffice for one to act between any
two steps of the other; two candidates for one to fail before the other; a Retry-After
of one tick or none, with a cooldown and lock of 1: what two requests can do to each
other depends on whether a candidate is still held back, not on for how long, and the
lengths are `CooldownHonoured`'s. New requests and health checks stop
after `MaxTrips` trips; requests under way go on. `fallback` has one
request at a time and any number of them after each other: a request reads the pins
at one point per route, and what others could have left there by then is what
earlier requests leave, since any pin may also expire at any step. Its routes form
cycles, with and without the requested route, and a walk longer than the hop limit,
so that every end of a walk is reached; two candidates are enough for a pin to
change the order.

`fusion`: one request at a time, since requests share only key pools and counters,
which the calls of one request share as well. A panel or race has two candidates
and the last call, of one provider (two keys) or (one key) or of two providers, so
that two calls compete for a key, a key is denied under a running call, and a
judge falls on a resting pool. min_panel is unset, 1, and more than there are
candidates; the grace is shorter than the deadline. `gateway`: each of eight
setups explores one limit or option (token quota, and daily quota over a midnight,
each with a restart or a refusal of the database; RPM with TPM, and a key change; an RPM limit of the model; the ledger
with observations and a reload; the ledger with the cache, with and without a
restart; streams). Two requests overlap everywhere, up to four follow each other;
limits are 1 to 4, answers cost 0 or 2 tokens, a minute has two ticks, streams have
up to four events, which is room for a start, a text, a stop and an end. `config`:
two saves by two admins, so that one can come between the other's read and write
or follow its failure, and two values of each kind of field, so that a SIGHUP can
apply what a save has replaced; one outside edit, of the restart fields; two failing file operations, enough for an
apply to fail and its rollback too; one backup is kept, so that rotation must
choose.

Fairness. `breaker` assumes the clock runs and the breaker keeps being asked,
which OrderCandidatesCaps does for every request of a route. `dispatch`
assumes each request takes its next step: goroutines are scheduled, and an
attempt ends because the provider clients have timeouts. `fallback` assumes the
same, a pass being a bounded number of attempts. `fusion` assumes that the
goroutines and the handler are scheduled, that timers run out, and that a call is
broken off once its context has ended; racers and the last call are bounded by the
timeout of the provider's HTTP client. No provider need ever answer. `gateway`
assumes that time passes, and nothing of requests. `config` assumes that a handler
which has the lock goes on: it waits for nothing but the disk. Nothing is assumed of
clients, administrators, health checks, or of the clock elsewhere.

CHECK_DEADLOCK is off for `config` only: there the process may be down with a file
that it cannot start from, and nobody left to edit it.

## Findings

1. **A disabled provider comes back by itself.** `OnSuccess` closes the breaker
   in any state. A request sent before the provider was disabled, a health check
   or the reset button re-enables it, against "stays down until Enable"
   (`circuit.go:213`) and "Does not clear the auto-disabled state"
   (`router.go:954`).
2. **Retry-After is forgotten.** `open()` clears `customCooldown`; a second
   failure reported while the breaker is open replaces the promised wait by the
   configured cooldown (`circuit.go:357`).
3. **The probe slot leaks.** Filtering takes the half-open slot of every
   cooled-down candidate. If another candidate answers first, the model is
   locked, or the client leaves, nobody reports back, and "half-open: probe
   already in flight" (`circuit.go:207`) refuses the provider to all later
   requests, until a health check, a straggler or an administrator intervenes.
4. **401 and 403 close the breaker.** They are not retryable, so failoverPass
   records a success, against "401/403 open the circuit immediately"
   (README 61-62). Only a health check, or a retry policy that lists them,
   classifies them.
5. **An empty fallback route is not skipped.** `runRoute` goes round its loop with
   the empty list ("skip routes with no usable candidates", `server.go:918`):
   a hop is used up, and if no route follows, the zero candidate is returned
   and `setDecisionHeader` calls a method of its nil provider. The client loses
   the error of the earlier routes, which is still there to report
   (`CauseToReport`).
6. **Fallbacks are dropped.** The next route is looked for in the list of the route
   that failed last, not of the one asked for. With `fallback_routes: [a, b]`, b is
   never tried after a unless a lists it too, against "other virtual models tried, in
   order, when EVERY candidate here fails retryably" (`config.example.yaml:169-171`,
   `server.go:824-827`). In the run, a route with two fallbacks fails, the first of
   them fails as well, and the request is given up two hops before the limit.

Not findings of a run, but met while modelling and worth knowing:

* Breakers and routes. `auto_disable_after: 0` is documented as
  "never" and means 3; trips count every opening, so one burst of concurrent
  failures can disable a provider; with the default budget the escalated cooldown
  is unreachable (a theorem below); Enable leaves per-kind counters standing. On
  routes with a mapped model an affinity pin never hits, because the mapped model
  is recorded and the unmapped one compared; fusion and fusion_judge call other
  candidates than the pinned one although skip_retry_on_failure is set
  (`PinnedStays` is about the rest); the candidates of a fallback route are not
  filtered by the key's groups. A connection that the upstream resets is taken for
  a client's abort and counts against nobody (`failure.go:91-97`). The backoff level of a failure rule
  grows without bound, its duration does not.
* Race and panel. A client that leaves counts against both racers, against
  "client aborts never count as provider failures" (`README.md:62`): fusionRun records
  every error as a failure, where failoverPass and panelCall look at its text
  (`Blamed`). The race sends
  the unmapped model, and locks for 30 s on every 429. Returning from
  fusionJudgeRun cancels the stragglers, so calls that were sent are not all metered
  (`fusionjudge.go:148-150`), and a straggler cut off in its body is a success with
  a row of zero tokens; the deadline counts as a timeout of the provider. Panel
  tokens are not charged to the key.
* Key pool. A transport error neither cools nor counts a key, so a key whose calls
  hang stays the least used; a pool with all keys resting counts as a failure of
  the provider.
* Cache. Two requests that expire or evict the same entry both count it out, and
  the capacity of 1000 (`cache.go:24`) can be exceeded; `CacheCounted` is the
  direction that holds. The answer of a fallback candidate is stored under the first
  candidate's key, and the key ignores tools and max_tokens.
* Ledger. An observation is believed for 60 s even after its own reset; a failed
  balance probe leaves the flag; observations are recorded under the mapped model
  while strategies look up the unmapped one.
* Admission. The request's RPM token is gone when the TPM check rejects it, and the
  daily count includes requests that end in 400, 402 or 403. A charge or a count that
  the database refuses is logged and lost: `OverrunBounded` adds it to the overrun.
* Streams. `stream_idle_timeout_ms` is documented ("cuts SSE streams that go
  silent") and loaded, and relayStream has no timer. A translated stream that breaks
  off half-way ends with usage and `[DONE]` like a complete one. A client that
  leaves before the last chunk of a translated stream pays nothing.
* Configuration. An outside edit during a save is overwritten. SIGHUP takes no lock:
  config.Load reads document 1 (`main.go:475`, `HupLoad`), an admin's Commit writes and
  applies document 2, then Apply makes document 1 the active configuration
  (`main.go:482`, `HupApply`), and the process runs what is no longer in the file
  until the next save or SIGHUP. `RunsTheFile` is about everything else (`behind` and
  `overtaken` mark the exception). After SIGHUP the active configuration names an
  admin address and a database that the process has not opened, and later saves are
  compared with these: `ListensWhereItSays` is about the public address only. Backups
  are not synced, so after a power loss a complete file may have a torn predecessor
  in its backup; `PreviousIsBackedUp` is about process stops. The fallback for a
  failed rename removes the old file first. Deleting an earlier item of a positional
  list restores the wrong literal (design document, section 8). Comment-only edits
  are dropped. Backups accumulate while applies fail.

## Proofs

`BreakerProofs` states, for every configuration and every breaker record, what
each operator of `circuit.go` preserves (`BreakerInv`): the fields have their
types; a breaker that is open or probing has auto-disable budget left
(`BudgetLeft`); every failed probe cycle is a trip, and so is the opening before
the first (`CyclesAreTrips`); in consecutive mode the failure counter is on the
side of both thresholds that the state says (`InBand`). `CyclesAreTrips` is no
run's property: `EscalationNeedsBudget` needs it, because the number of cycles is
bounded only through the number of trips. Because these lemmas are about records
and not about a specification, both models below use them.

`CircuitBreakerProofs` adds what the history variable needs to `BreakerInv`:
`KindBudgets`; `OwedNow`, that in the open state the part of the cooldown still owed
is the part the age does not cover; and, in percent mode, that the window never
holds more failures than were counted since it began. The history keeps running
totals by age, so that no sum over a function is needed. Type correctness,
`TripBudget`, `WarningBand`, `KindBudgets`, `EscalationNeedsBudget`,
`CooldownHonoured` and `RatioFromThisMinute` follow, for any kinds, any configuration
and any durations, without the bounds of the runs.

`DispatchProofs` proves every safety property the run `dispatch` checks, for any
finite set of requests, any providers and candidates, any route, and any policies.
The invariant is `Core /\ SeenOK`:

* `Core`: `BreakerInv` for every breaker; locks are naturals; what one request
  knows of itself (`RequestOK`: a candidate where it needs one, an answer only
  while it is applied, a cause once its list is empty); and `InflightExact`.
  Each step starts, ends or keeps at most one attempt (`StartsCounted`,
  `EndsCounted`, `StaysCounted`), so a counter and the set it counts change
  together; DecInflight's guard at zero is never what saves it.
* `SeenOK`: the witness says of the shared state what its name promises
  (`SeenMeans`), and the request's lists hold nothing refused or locked all along
  and miss nothing healthy all along (`ComesTo`). The properties alone are not
  inductive: they speak of `call` and of all phases, the argument runs through
  the candidate whose breaker has answered and whose lock is still to be read.
  Since what a request has seen can only shrink (`Observed`), other requests need
  no case of their own.

`DispatchFailsOver` is the refinement: the initial states map to the initial state of
`Failover`, and each action has a lemma that says which of its steps it is, or that the
caller sees nothing. It needs one more invariant, `Orderly`: from the moment the calls
begin nobody is on a list twice, so that taking the head off the list takes its
candidate off (`TailInjective`), and nothing has failed before. A passthrough list
repeats nobody because `Providers()` lists each configured provider once.
`DispatchStepsRunOut` proves that `StepsLeft` goes down with every step of a request
under way and with nobody else's. That is the safety half of `EveryRequestEnds`: what it
leaves to TLC is that a request which is not idle can take a step.

`RouteFallbackProofs` proves type correctness and the four safety properties of the run
`fallback`, for
any graph of fallback routes, any strategies and any pins. A step moves one
request, and what the requests share, the pins, only ever names providers that
have served (`PinsOK`), so the invariant of a request speaks of that request
alone: it always has a candidate to call or a cause (`Explained`, which is where
an empty route could have lost it); `cur`, `visited` and `hops` are the walk
(`Walked`); and its hit holds it to one candidate (`Held`).

`FusionProofs` proves the five safety properties of the run `fusion` for any
candidates, providers, numbers of keys, lists and durations, and of the pick from a
pool of any size that it is a key which does not rest (`PickFacts`). The invariant
is `Typed`, `Keyed`, `Progress`, `Waited`, `FusionInflightExact` and
`MeteredOnce`. `Keyed` says that a key's rest and the age of its last denial always
make up a cooldown, which gives `KeysRest`, and that only calls under way have
keys. `Progress` says how far the request and its calls can be from each other: the
judge runs only in phase `last`, a racer has left nothing behind when its race is
over; without it a call could be counted twice or never. `Waited` adds to
`QuorumRespected` that the grace only ever runs with a quorum.

`GatewayProofs` proves the six safety properties of the run `gateway` for any number
of requests at a time, any limits and any answers, streams of any length included.
None but `TypeOK` is inductive:

* `Quotas`: what is spent and what the requests bound to pass the quota may yet
  cost stay below the quota plus what one request may cost, times the number of
  requests. A request that reads the row when the quota is used up never joins.
* `Charged`: what has been delivered is spent, owed by a request between its
  answer and its charge, or lost in a restart or a refused charge. What a set of requests owes is a sum;
  the invariant says that a function from sets of requests to their sums exists
  (`IsSum`), because the recursion that would define it is out of the provers'
  reach, and each step gives the new function from the old one.
* `Daily`: the same for the daily count, which is charged at once; the count in
  the row and the refused counts make up the requests of today.
* `Rates`: for each request that has passed, those that have passed since and what
  is left in the bucket never exceed a full bucket and what has been added since.
* `CacheCounted` is inductive once every step says how the map, the counter and the
  operations under way move together (`CacheMove`).
* `StreamsWellFormed` and `StreamsFaithful` are two readings of `Good`, which holds of
  a stream between two lines: what has been sent has its one role chunk, its usage and
  its `[DONE]` last if at all (`Shape`), and the texts and the usage sent, with what the
  pending event still has to say, are those the upstream has said. Within one dispatch
  chunks wait in `out` and the tracker lags behind the translator; `Sound` says of that
  what `Good` says between lines. `StreamProofs` has a lemma for each branch of the two
  translators and for the loop that relays them; a stream has no bound there.

`ConfigStoreProofs` proves type correctness and the six safety properties of the run `config`, for any
documents, secrets and numbers of admins. The invariant is `Typed` (which has that
what is in the file's place has been synced), `Locked` (who commits has the lock and
a candidate that keeps the places of secrets), `Saved` (what the save under way has
on disk at each stage), `Running` (what the process runs before and after Apply) and
`ListensWhereItSays`. `StoreImplementsFile` is the refinement: the initial state is
one of `ConfigFile`, and every step is one of its steps or a stutter.
The module begins with what this needs of the document: a candidate that passes the
checks is a document and has literals only where the current one has them.

Assumed are the types of the constants, that requests, candidates and cache keys are
finite, that tags select candidates of the route, that a passthrough list has no
provider twice, that no answer costs more than `MaxTokens`, and that the sentinel, the
markers and the documents are different things; TLC evaluates the assumptions on every
run. `TypeOK` of `CircuitBreaker`, `Dispatch`, `RouteFallback` and `ConfigStore` is
proved and no longer run.

## Only model-checked

Every safety property and both refinements are proved. Liveness (`OpenIsLeft`,
`EveryRequestEnds`, `EveryRequestAnswered`, `NoCallOutlives`, `QuotaComesBack`,
`SavesEnd`) is out of the provers' reach, as is ENABLED. The findings are runs: a
counterexample needs no proof.

## What remains

The modules that were planned are written and their safety is proved. What could be
added: measures like `StepsLeft` for a fusion request and for a save; an abstract contract
of a breaker (admits, refuses, off) refined by `CircuitBreaker`; the sticky cursor
and the backoff levels of failure rules in `Dispatch`; the breakers and locks of
`Dispatch` under the calls of `Fusion`; the embeddings handler, which runs one pass
of the modelled engine; the creation and deletion of API keys.

## Not modelled

* Requests and whole answers of the dialects, usage records, metrics, price and
  catalog downloads, search, token estimation, the dashboard: stateless or
  append-only, and nothing in the modelled parts depends on how they work.
* Pricing arithmetic is floating point. YAML decoding, defaults and schema are
  replaced by the values they can yield (`Hot`, `Loadable`, `Buildable`).
* Latency, cost and weights are replaced by an arbitrary order; capability and tag
  selectors by the candidates they match.
* The idle timeout of streams: there is no code.
* That a rename is atomic and durable, that SQLite's updates are atomic, and that
  maps and counters of `sync` behave as documented are assumptions about libraries.
