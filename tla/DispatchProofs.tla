--------------------------- MODULE DispatchProofs ---------------------------
(***************************************************************************)
(* The safety properties of Dispatch for every set of requests, providers  *)
(* and candidates, every circuit: configuration, every route and every     *)
(* profile.  IInv is inductive; it strengthens the properties by what one  *)
(* request knows of itself (RequestOK), by the invariant of every breaker  *)
(* (BreakerProofs) and by what the witness `seen' means (SeenOK).          *)
(***************************************************************************)
EXTENDS Dispatch, BreakerProofs, FiniteSetTheorems

CircuitsOK == /\ circuits \in [Guarded -> BreakerState]
              /\ \A p \in Guarded : BreakerInv(Policy[p], circuits[p])

LocksOK == modelLock \in [Targets -> Nat]

\* A request in local state r knows where it is sent and why it failed.
RequestOK(r) ==
    /\ r \in RequestState
    /\ r.phase \in {"lock", "call", "cool", "body"} => r.at \in Cands
    /\ r.phase # "cool" => r.answer.status = "none"
    /\ (r.phase = "try" /\ r.todo = <<>>) => r.fail \/ r.err # "none"

RequestsOK == req \in [Requests -> RequestState] /\ \A q \in Requests : RequestOK(req[q])

CountersOK == inflight \in [Providers -> Nat] /\ InflightExact

\* The state a request is served in.
Core == CircuitsOK /\ LocksOK /\ RequestsOK /\ CountersOK

-----------------------------------------------------------------------------
\* Shared state.

LEMMA CandidateFacts ==
    ASSUME NEW c \in Cands
    PROVE  ProviderOf(c) \in Providers /\ Candidates[c] \in Targets
  BY CandidatesAssumption DEF Targets

\* A breaker call that preserves its breaker's invariant preserves all of them.
LEMMA WithCircuitOK ==
    ASSUME CircuitsOK, NEW p, NEW b, p \in Guarded => BreakerInv(Policy[p], b),
           circuits' = WithCircuit(p, b)
    PROVE  CircuitsOK'
  <1>1. CASE p \in Guarded
    <2>1. b \in BreakerState /\ circuits' = [circuits EXCEPT ![p] = b]
      BY <1>1 DEF BreakerInv, WithCircuit
    <2> QED
      BY <1>1, <2>1 DEF CircuitsOK
  <1>2. CASE p \notin Guarded
    BY <1>2 DEF WithCircuit, CircuitsOK
  <1> QED
    BY <1>1, <1>2

LEMMA AskCircuitOK ==
    ASSUME CircuitsOK, NEW p, circuits' = AskCircuit(p)
    PROVE  CircuitsOK'
  <1>1. p \in Guarded => BreakerInv(Policy[p], Allow(Policy[p], circuits[p]))
    BY PolicyAssumption, AllowInv DEF CircuitsOK
  <1> QED
    BY <1>1, WithCircuitOK DEF AskCircuit

LEMMA RecordSuccessOK ==
    ASSUME CircuitsOK, NEW p, circuits' = RecordSuccess(p)
    PROVE  CircuitsOK'
  <1>1. p \in Guarded => BreakerInv(Policy[p], OnSuccess(Policy[p], circuits[p]))
    BY PolicyAssumption, OnSuccessInv DEF CircuitsOK
  <1> QED
    BY <1>1, WithCircuitOK DEF RecordSuccess

LEMMA RecordFailureOK ==
    ASSUME CircuitsOK, NEW p, NEW kind \in Kinds, circuits' = RecordFailure(p, kind, TRUE)
    PROVE  CircuitsOK'
  <1>1. p \in Guarded =>
            BreakerInv(Policy[p], OnFailureKind(Policy[p], circuits[p], kind, TRUE))
    BY PolicyAssumption, OnFailureStep DEF CircuitsOK
  <1> QED
    BY <1>1, WithCircuitOK DEF RecordFailure

\* An abort reaches no breaker.
LEMMA AbortRecordsNothing ==
    ASSUME CircuitsOK, NEW p, NEW kind, circuits' = RecordFailure(p, kind, FALSE)
    PROVE  circuits' = circuits
  BY DEF RecordFailure, WithCircuit, OnFailureKind, CircuitsOK

-----------------------------------------------------------------------------
\* Inflight counters: what a request of local state r, becoming n, does to
\* the number of requests at each provider.

LEMMA HoldersFinite ==
    ASSUME NEW p
    PROVE  IsFiniteSet(Holders(p)) /\ Cardinality(Holders(p)) \in Nat
  <1>1. Holders(p) \subseteq Requests
    BY DEF Holders
  <1> QED
    BY <1>1, RequestsAssumption, FS_Subset, FS_CardinalityType

LEMMA StaysCounted ==
    ASSUME CountersOK, RequestsOK, NEW q \in Requests, NEW n, Becomes(q, n),
           Holds(n) <=> Holds(req[q]), Holds(n) => n.at = req[q].at,
           UNCHANGED inflight
    PROVE  CountersOK'
  <1>1. \A p : Holders(p)' = Holders(p)
    BY DEF Holders, Becomes, RequestsOK
  <1> QED
    BY <1>1 DEF CountersOK, InflightExact

LEMMA StartsCounted ==
    ASSUME CountersOK, RequestsOK, NEW q \in Requests, NEW n, Becomes(q, n),
           ~Holds(req[q]), Holds(n), n.at \in Cands,
           inflight' = IncInflight(ProviderOf(n.at))
    PROVE  CountersOK'
  <1> DEFINE p0 == ProviderOf(n.at)
  <1>1. p0 \in Providers /\ inflight' = [inflight EXCEPT ![p0] = @ + 1]
    BY CandidateFacts DEF IncInflight
  <1>2. Holders(p0)' = Holders(p0) \cup {q} /\ q \notin Holders(p0)
    BY DEF Holders, Becomes, RequestsOK
  <1>3. \A p : p # p0 => Holders(p)' = Holders(p)
    BY DEF Holders, Becomes, RequestsOK
  <1>4. Cardinality(Holders(p0)') = Cardinality(Holders(p0)) + 1
    BY <1>2, HoldersFinite, FS_AddElement
  <1> HIDE DEF p0
  <1> QED
    BY <1>1, <1>3, <1>4 DEF CountersOK, InflightExact

LEMMA EndsCounted ==
    ASSUME CountersOK, RequestsOK, NEW q \in Requests, NEW n, Becomes(q, n),
           Holds(req[q]), ~Holds(n), req[q].at \in Cands,
           inflight' = DecInflight(ProviderOf(req[q].at))
    PROVE  CountersOK'
  <1>0. PICK p0 : p0 = ProviderOf(req[q].at)
    OBVIOUS
  <1>1. p0 \in Providers /\ inflight' = [inflight EXCEPT ![p0] = IF @ > 0 THEN @ - 1 ELSE 0]
    BY <1>0, CandidateFacts DEF DecInflight
  <1>2. Holders(p0)' = Holders(p0) \ {q} /\ q \in Holders(p0)
    <2>1. req'[q] = n /\ \A o \in Requests : o # q => req'[o] = req[o]
      BY DEF Becomes, RequestsOK
    <2>2. q \in Holders(p0)
      BY <1>0 DEF Holders
    <2> QED
      BY <2>1, <2>2 DEF Holders
  <1>3. \A p : p # p0 => Holders(p)' = Holders(p)
    BY <1>0 DEF Holders, Becomes, RequestsOK
  <1>4. /\ Cardinality(Holders(p0)') = Cardinality(Holders(p0)) - 1
        /\ Cardinality(Holders(p0)) \in Nat /\ Cardinality(Holders(p0)') \in Nat
    <2>1. IsFiniteSet(Holders(p0) \ {q})
      BY HoldersFinite, FS_Subset
    <2> QED
      BY <1>2, <2>1, HoldersFinite, FS_RemoveElement, FS_CardinalityType
  <1>5. inflight'[p0] = Cardinality(Holders(p0)') /\ inflight' \in [Providers -> Nat]
    BY <1>1, <1>4 DEF CountersOK, InflightExact
  <1>6. ASSUME NEW p \in Providers, p # p0
        PROVE  inflight'[p] = Cardinality(Holders(p)')
    BY <1>1, <1>3, <1>6 DEF CountersOK, InflightExact
  <1> QED
    BY <1>5, <1>6 DEF CountersOK, InflightExact

-----------------------------------------------------------------------------
\* Local state.

LEMMA MovesOK ==
    ASSUME RequestsOK, NEW q \in Requests, NEW n, Becomes(q, n), RequestOK(n)
    PROVE  RequestsOK'
  <1>1. n \in RequestState
    BY DEF RequestOK
  <1> QED
    BY <1>1 DEF RequestsOK, Becomes

\* A request that holds no upstream before or after the step, with no breaker
\* call outstanding but the one that left the breakers in order.
LEMMA LocalStep ==
    ASSUME Core, NEW q \in Requests, NEW n, Becomes(q, n), RequestOK(n),
           ~Holds(req[q]), ~Holds(n), CircuitsOK', UNCHANGED <<modelLock, inflight>>
    PROVE  Core'
  <1>1. RequestsOK'
    BY MovesOK DEF Core
  <1>2. CountersOK'
    BY StaysCounted DEF Core
  <1> QED
    BY <1>1, <1>2 DEF Core, LocksOK

LEMMA SameCircuits == CircuitsOK /\ UNCHANGED circuits => CircuitsOK'
  BY DEF CircuitsOK

LEMMA IdleOK == RequestOK(Idle) /\ ~Holds(Idle) /\ Idle \in RequestState
  BY DEF RequestOK, Idle, RequestState, Profile, NoProfile, NoAnswer, Statuses, Holds

LEMMA ArriveCore ==
    ASSUME Core, NEW q \in Requests, NEW profile \in Profiles, Arrive(q, profile)
    PROVE  Core'
  <1> DEFINE n == IF profile.routed
                  THEN [Idle EXCEPT !.phase = "scan", !.profile = profile, !.rest = Route]
                  ELSE [Idle EXCEPT !.phase = "scan", !.profile = profile,
                                    !.todo = Passthrough]
  <1>1. profile \in Profile /\ Route \in Seq(Cands) /\ Passthrough \in Seq(Cands)
    BY CandidatesAssumption
  <1>2. n \in RequestState /\ n.phase = "scan" /\ n.answer.status = "none"
    BY <1>1, IdleOK DEF Idle, RequestState, NoAnswer
  <1>3. Becomes(q, n) /\ req[q].phase = "idle"
    BY DEF Arrive
  <1> HIDE DEF n
  <1>4. RequestOK(n) /\ ~Holds(n) /\ ~Holds(req[q])
    BY <1>2, <1>3 DEF RequestOK, Holds
  <1>5. CircuitsOK'
    BY SameCircuits DEF Core, Arrive
  <1> QED
    BY <1>3, <1>4, <1>5, LocalStep DEF Arrive

LEMMA RequestTyped ==
    ASSUME Core, NEW q \in Requests
    PROVE  RequestOK(req[q]) /\ req[q] \in RequestState
  BY DEF Core, RequestsOK, RequestOK

LEMMA ConsultCore ==
    ASSUME Core, NEW q \in Requests, Consult(q)
    PROVE  Core'
  <1> DEFINE r == req[q]
             c == Head(r.rest)
             p == ProviderOf(c)
             skip == [r EXCEPT !.rest = Tail(@)]
             admitted == [skip EXCEPT !.phase = "lock", !.at = c]
  <1>1. r \in RequestState /\ r.phase = "scan" /\ r.rest # <<>> /\ r.answer.status = "none"
    BY RequestTyped DEF Consult, RequestOK
  <1>2. c \in Cands /\ Tail(r.rest) \in Seq(Cands)
    BY <1>1 DEF RequestState
  <1>3. skip \in RequestState /\ skip.phase = "scan" /\ skip.answer.status = "none"
    BY <1>1, <1>2 DEF RequestState
  <1>4. admitted \in RequestState /\ admitted.phase = "lock" /\ admitted.at = c
        /\ admitted.answer.status = "none"
    BY <1>1, <1>2 DEF RequestState
  <1>5. ~Holds(r) /\ ~Holds(skip) /\ ~Holds(admitted)
    BY <1>1, <1>3, <1>4 DEF Holds
  <1>6. RequestOK(skip) /\ RequestOK(admitted)
    BY <1>2, <1>3, <1>4 DEF RequestOK
  <1>7. Becomes(q, skip) \/ Becomes(q, admitted)
    BY DEF Consult
  <1>8. CircuitsOK'
    BY AskCircuitOK, SameCircuits DEF Consult, Core
  <1>9. UNCHANGED <<modelLock, inflight>>
    BY DEF Consult
  <1> HIDE DEF r, skip, admitted
  <1> QED
    BY <1>5, <1>6, <1>7, <1>8, <1>9, LocalStep DEF r

LEMMA CheckLockCore ==
    ASSUME Core, NEW q \in Requests, CheckLock(q)
    PROVE  Core'
  <1> DEFINE r == req[q]
             todo == IF modelLock[Candidates[r.at]] = 0 THEN Append(r.todo, r.at) ELSE r.todo
             n == [r EXCEPT !.phase = "scan", !.at = 0, !.todo = todo]
  <1>1. r \in RequestState /\ r.phase = "lock" /\ r.at \in Cands /\ r.answer.status = "none"
    BY RequestTyped DEF CheckLock, RequestOK
  <1>2. todo \in Seq(Cands)
    BY <1>1 DEF RequestState
  <1>3. Becomes(q, n)
    BY <1>1 DEF CheckLock, Becomes, RequestState
  <1> HIDE DEF todo
  <1>4. n \in RequestState /\ n.phase = "scan" /\ n.answer.status = "none"
    BY <1>1, <1>2 DEF RequestState
  <1> HIDE DEF n
  <1>5. RequestOK(n) /\ ~Holds(n) /\ ~Holds(r)
    BY <1>1, <1>4 DEF RequestOK, Holds
  <1>6. CircuitsOK' /\ UNCHANGED <<modelLock, inflight>>
    BY SameCircuits DEF Core, CheckLock
  <1> QED
    BY <1>3, <1>5, <1>6, LocalStep

\* Every order of a set of candidates is a sequence of them, of all of them.
LEMMA OrdersOf ==
    ASSUME NEW S \in SUBSET Cands, NEW order \in SetToSeqs(S)
    PROVE  order \in Seq(Cands) /\ Range(order) \subseteq S
  <1>1. IsFiniteSet(S) /\ Cardinality(S) \in Nat
    BY CandidatesAssumption, FS_Subset, FS_CardinalityType
  <1>2. order \in [1 .. Cardinality(S) -> S]
    BY DEF SetToSeqs
  <1> QED
    BY <1>1, <1>2 DEF Range

LEMMA OrderCore ==
    ASSUME Core, NEW q \in Requests, Order(q)
    PROVE  Core'
  <1> DEFINE r == req[q]
  <1>1. r \in RequestState /\ r.phase = "scan" /\ r.answer.status = "none"
    BY RequestTyped DEF Order, RequestOK
  <1>2. PICK order : /\ order \in Seq(Cands)
                     /\ Becomes(q, IF order = <<>> THEN Idle
                                   ELSE [r EXCEPT !.phase = "try", !.todo = order])
    <2>1. r.todo \in Seq(Cands)
      BY <1>1 DEF RequestState
    <2>2. Range(r.todo) \cap r.profile.granted \in SUBSET Cands
      BY <2>1 DEF Range
    <2> QED
      BY <2>1, <2>2, OrdersOf DEF Order
  <1> DEFINE t == [r EXCEPT !.phase = "try", !.todo = order]
             n == IF order = <<>> THEN Idle ELSE t
  <1>3. t \in RequestState /\ t.phase = "try" /\ t.answer.status = "none" /\ t.todo = order
    BY <1>1, <1>2 DEF RequestState
  <1> HIDE DEF t
  <1>4. RequestOK(n) /\ ~Holds(n)
    BY <1>3, IdleOK DEF RequestOK, Holds
  <1>5. Becomes(q, n) /\ ~Holds(r)
    BY <1>1, <1>2 DEF Holds, t
  <1> HIDE DEF n
  <1>6. CircuitsOK' /\ UNCHANGED <<modelLock, inflight>>
    BY SameCircuits DEF Core, Order
  <1> QED
    BY <1>4, <1>5, <1>6, LocalStep

\* Requests that end without an attempt outstanding: answered by the budget or
\* the cache, or out of candidates.
LEMMA EndsCore ==
    ASSUME Core, NEW q \in Requests, AnswerLocally(q) \/ GiveUp(q)
    PROVE  Core'
  <1>1. Becomes(q, Idle) /\ UNCHANGED <<circuits, modelLock, inflight>>
    BY DEF AnswerLocally, GiveUp
  <1>2. ~Holds(req[q])
    BY DEF AnswerLocally, GiveUp, Holds
  <1>3. CircuitsOK'
    BY <1>1, SameCircuits DEF Core
  <1> QED
    BY <1>1, <1>2, <1>3, IdleOK, LocalStep

LEMMA SkipSmallCore ==
    ASSUME Core, NEW q \in Requests, SkipSmall(q)
    PROVE  Core'
  <1> DEFINE r == req[q]
             n == [r EXCEPT !.todo = Tail(r.todo), !.err = "context"]
  <1>1. r \in RequestState /\ r.phase = "try" /\ r.answer.status = "none" /\ r.todo # <<>>
    BY RequestTyped DEF SkipSmall, Trying, RequestOK
  <1>2. Tail(r.todo) \in Seq(Cands)
    BY <1>1 DEF RequestState
  <1>3. Becomes(q, n)
    BY <1>1 DEF SkipSmall, Becomes, RequestState
  <1>4. n \in RequestState /\ n.phase = "try" /\ n.answer.status = "none" /\ n.err = "context"
    BY <1>1, <1>2 DEF RequestState
  <1> HIDE DEF n
  <1>5. RequestOK(n) /\ ~Holds(n) /\ ~Holds(r)
    BY <1>1, <1>4 DEF RequestOK, Holds
  <1>6. CircuitsOK' /\ UNCHANGED <<modelLock, inflight>>
    BY SameCircuits DEF Core, SkipSmall
  <1> QED
    BY <1>3, <1>5, <1>6, LocalStep

LEMMA SendCore ==
    ASSUME Core, NEW q \in Requests, Send(q)
    PROVE  Core'
  <1> DEFINE r == req[q]
             c == Head(r.todo)
             n == [r EXCEPT !.phase = "call", !.todo = Tail(r.todo), !.at = c]
  <1>1. r \in RequestState /\ r.phase = "try" /\ r.answer.status = "none" /\ r.todo # <<>>
    BY RequestTyped DEF Send, Trying, RequestOK
  <1>2. c \in Cands /\ Tail(r.todo) \in Seq(Cands)
    BY <1>1 DEF RequestState
  <1>3. Becomes(q, n)
    BY <1>1 DEF Send, Becomes, RequestState
  <1>4. /\ n \in RequestState /\ n.phase = "call" /\ n.answer.status = "none" /\ n.at = c
    BY <1>1, <1>2 DEF RequestState
  <1>5. inflight' = IncInflight(ProviderOf(c))
    BY DEF Send
  <1> HIDE DEF n, c
  <1>6. RequestOK(n) /\ Holds(n) /\ ~Holds(r)
    BY <1>1, <1>2, <1>4 DEF RequestOK, Holds
  <1>7. CountersOK'
    BY <1>2, <1>3, <1>4, <1>5, <1>6, StartsCounted DEF Core
  <1>8. RequestsOK'
    BY <1>3, <1>6, MovesOK DEF Core
  <1> QED
    BY <1>7, <1>8, SameCircuits DEF Core, LocksOK, Send

LEMMA LeaveCore ==
    ASSUME Core, NEW q \in Requests, Leave(q)
    PROVE  Core'
  <1> DEFINE r == req[q]
  <1>1. r \in RequestState /\ r.phase = "call" /\ r.answer.status = "none" /\ r.at \in Cands
    BY RequestTyped DEF Leave, RequestOK
  <1>2. PICK end \in {"canceled", "expired"} : Becomes(q, [r EXCEPT !.ctx = end])
    BY DEF Leave
  <1> DEFINE n == [r EXCEPT !.ctx = end]
  <1>3. n \in RequestState /\ n.phase = "call" /\ n.answer.status = "none" /\ n.at = r.at
    BY <1>1, <1>2 DEF RequestState
  <1>4. Becomes(q, n)
    BY <1>2
  <1> HIDE DEF n
  <1>5. RequestOK(n) /\ Holds(n) /\ Holds(r)
    BY <1>1, <1>3 DEF RequestOK, Holds
  <1>6. CountersOK'
    BY <1>3, <1>4, <1>5, StaysCounted DEF Core, Leave
  <1>7. RequestsOK'
    BY <1>4, <1>5, MovesOK DEF Core
  <1> QED
    BY <1>6, <1>7, SameCircuits DEF Core, LocksOK, Leave

-----------------------------------------------------------------------------
\* The answer of an attempt, and what it leaves behind.

LEMMA AfterErrorOK ==
    ASSUME Core, NEW q \in Requests, req[q].phase = "call"
    PROVE  /\ RequestOK(AfterError(q)) /\ ~Holds(AfterError(q))
           /\ Holds(req[q]) /\ req[q].at \in Cands
  <1> DEFINE r == req[q]
             n == AfterError(q)
  <1>1. r \in RequestState /\ r.answer.status = "none" /\ r.at \in Cands
    BY RequestTyped DEF RequestOK
  <1>2. /\ n \in RequestState /\ n.phase = "try" /\ n.answer.status = "none"
        /\ n.err = "transport"
    BY <1>1 DEF AfterError, RequestState
  <1> HIDE DEF n
  <1> QED
    BY <1>1, <1>2 DEF RequestOK, Holds, n

\* An attempt that fails, with the failure recorded or not.
LEMMA FailedAttempt ==
    ASSUME Core, NEW q \in Requests, req[q].phase = "call", NEW n, RequestOK(n), ~Holds(n),
           Becomes(q, n), inflight' = DecInflight(ProviderOf(req[q].at)),
           CircuitsOK', UNCHANGED modelLock
    PROVE  Core'
  <1>1. Holds(req[q]) /\ req[q].at \in Cands
    BY AfterErrorOK
  <1>2. CountersOK'
    BY <1>1, EndsCounted DEF Core
  <1>3. RequestsOK'
    BY MovesOK DEF Core
  <1> QED
    BY <1>2, <1>3 DEF Core, LocksOK

LEMMA AbortCore ==
    ASSUME Core, NEW q \in Requests, Abort(q)
    PROVE  Core'
  <1>1. CircuitsOK'
    BY AbortRecordsNothing, SameCircuits DEF Abort, Core
  <1> QED
    BY <1>1, AfterErrorOK, FailedAttempt DEF Abort

LEMMA BreakCore ==
    ASSUME Core, NEW q \in Requests, NEW kind \in TransportKinds, Break(q, kind)
    PROVE  Core'
  <1>1. kind \in Kinds
    BY AnswersAssumption
  <1>2. CircuitsOK'
    BY <1>1, RecordFailureOK DEF Break, Core
  <1> QED
    BY <1>2, AfterErrorOK, FailedAttempt DEF Break

LEMMA RejectCore ==
    ASSUME Core, NEW q \in Requests, NEW rejection \in Rejections, Reject(q, rejection)
    PROVE  Core'
  <1> DEFINE r == req[q]
             answer == [status |-> "rejected", limited |-> rejection.limited,
                        kind |-> rejection.kind]
             n == [r EXCEPT !.phase = "cool", !.answer = answer]
  <1>1. rejection.kind \in Kinds /\ rejection.limited \in BOOLEAN
    BY AnswersAssumption
  <1>2. r \in RequestState /\ r.at \in Cands /\ r.phase = "call"
    BY RequestTyped DEF Reject, RequestOK
  <1>3. Becomes(q, n)
    BY DEF Reject
  <1>4. /\ n \in RequestState /\ n.phase = "cool" /\ n.answer.status = "rejected"
        /\ n.at = r.at
    BY <1>1, <1>2 DEF RequestState, Statuses
  <1> HIDE DEF n
  <1>5. RequestOK(n) /\ ~Holds(n)
    BY <1>2, <1>4 DEF RequestOK, Holds
  <1>6. CircuitsOK'
    BY <1>1, RecordFailureOK DEF Reject, Core
  <1> QED
    BY <1>2, <1>3, <1>5, <1>6, FailedAttempt DEF Reject

LEMMA RelayingOK ==
    ASSUME NEW c \in Cands
    PROVE  /\ RequestOK(Relaying(c)) /\ Holds(Relaying(c))
           /\ Relaying(c).at = c /\ Relaying(c).phase = "body"
  <1> DEFINE n == Relaying(c)
  <1>1. /\ n \in RequestState /\ n.phase = "body" /\ n.at = c
        /\ n.answer.status = "none"
    BY IdleOK DEF Relaying, Idle, RequestState, NoAnswer
  <1> HIDE DEF n
  <1> QED
    BY <1>1 DEF RequestOK, Holds, n

\* An attempt whose response is to be relayed.
LEMMA KeptAttempt ==
    ASSUME Core, NEW q \in Requests, Holds(req[q]), NEW n, RequestOK(n),
           Holds(n) => n.at = req[q].at, Holds(n), Becomes(q, n),
           UNCHANGED inflight, CircuitsOK', LocksOK'
    PROVE  Core'
  <1>1. CountersOK'
    BY StaysCounted DEF Core
  <1>2. RequestsOK'
    BY MovesOK DEF Core
  <1> QED
    BY <1>1, <1>2 DEF Core

LEMMA AcceptCore ==
    ASSUME Core, NEW q \in Requests, NEW status \in {"ok", "not_found", "denied"},
           Accept(q, status)
    PROVE  Core'
  <1> DEFINE r == req[q]
             answer == [r.answer EXCEPT !.status = status]
             kept == [r EXCEPT !.phase = "cool", !.answer = answer]
             n == IF status = "ok" THEN Relaying(r.at) ELSE kept
  <1>1. r \in RequestState /\ r.at \in Cands /\ r.phase = "call" /\ Holds(r)
    BY RequestTyped DEF Accept, RequestOK, Holds
  <1>2. answer \in [status : Statuses, limited : BOOLEAN, kind : Kinds \cup {"unknown"}]
        /\ answer.status = status
    BY <1>1 DEF RequestState, Statuses
  <1>3. Becomes(q, n)
    BY <1>1 DEF Accept, Becomes, RequestState
  <1> HIDE DEF answer
  <1>4. /\ kept \in RequestState /\ kept.phase = "cool" /\ kept.at = r.at
        /\ kept.answer.status = status
    BY <1>1, <1>2 DEF RequestState
  <1> HIDE DEF kept
  <1>5. RequestOK(kept) /\ Holds(kept)
    BY <1>1, <1>4 DEF RequestOK, Holds
  <1>6. RequestOK(n) /\ Holds(n) /\ n.at = r.at
    BY <1>1, <1>4, <1>5, RelayingOK
  <1>7. CircuitsOK'
    BY RecordSuccessOK DEF Accept, Core
  <1>8. LocksOK'
    BY <1>1, CandidateFacts, DurationsAssumption DEF Accept, Core, LocksOK, LockFor
  <1> HIDE DEF n
  <1> QED
    BY <1>1, <1>3, <1>6, <1>7, <1>8, KeptAttempt DEF Accept

LEMMA CoolCircuits ==
    ASSUME Core, NEW q \in Requests, NEW retryAfter \in Hints, NEW reset \in Hints,
           NEW rule \in RuleCooldowns, Cool(q, retryAfter, reset, rule)
    PROVE  CircuitsOK'
  <1> DEFINE p == ProviderOf(req[q].at)
             answer == req[q].answer
             hinted == IF answer.limited /\ answer.kind # "quota_exhausted"
                       THEN OpenFor(Policy[p], circuits[p], retryAfter) ELSE circuits[p]
             b == OpenFor(Policy[p], hinted, rule)
  <1>1. retryAfter \in Nat /\ rule \in Nat
    BY DurationsAssumption
  <1>2. ASSUME p \in Guarded PROVE BreakerInv(Policy[p], b)
    <2>1. Policy[p] \in Config /\ BreakerInv(Policy[p], circuits[p])
      BY <1>2, PolicyAssumption DEF Core, CircuitsOK
    <2>2. BreakerInv(Policy[p], OpenFor(Policy[p], circuits[p], retryAfter))
      BY <1>1, <2>1, OpenForStep
    <2>3. BreakerInv(Policy[p], hinted)
      BY <2>1, <2>2
    <2> HIDE DEF hinted
    <2> QED
      BY <1>1, <2>1, <2>3, OpenForStep
  <1>3. circuits' = WithCircuit(p, b)
    BY DEF Cool
  <1> HIDE DEF b
  <1> QED
    BY <1>2, <1>3, WithCircuitOK DEF Core

LEMMA CoolLocks ==
    ASSUME Core, NEW q \in Requests, NEW retryAfter \in Hints, NEW reset \in Hints,
           NEW rule \in RuleCooldowns, Cool(q, retryAfter, reset, rule)
    PROVE  LocksOK'
  <1> DEFINE answer == req[q].answer
             lock == CASE reset > 0 -> reset
                       [] reset = 0 /\ retryAfter > 0 -> retryAfter
                       [] OTHER -> IF answer.kind = "quota_exhausted" THEN LongLock
                                   ELSE ShortLock
  <1>1. lock \in Nat
    BY DurationsAssumption
  <1>2. modelLock' = modelLock \/ modelLock' = LockFor(req[q].at, lock)
    BY DEF Cool
  <1>3. req[q].at \in Cands
    BY RequestTyped DEF Cool, RequestOK
  <1> HIDE DEF lock
  <1> QED
    BY <1>1, <1>2, <1>3, CandidateFacts DEF Core, LocksOK, LockFor

LEMMA CoolCore ==
    ASSUME Core, NEW q \in Requests, NEW retryAfter \in Hints, NEW reset \in Hints,
           NEW rule \in RuleCooldowns, Cool(q, retryAfter, reset, rule)
    PROVE  Core'
  <1> DEFINE r == req[q]
             next == [r EXCEPT !.phase = "try", !.at = 0, !.answer = NoAnswer,
                               !.err = "none", !.fail = TRUE]
             n == IF r.answer.status = "rejected" THEN next ELSE Relaying(r.at)
  <1>1. r \in RequestState /\ r.at \in Cands /\ r.phase = "cool"
    BY RequestTyped DEF Cool, RequestOK
  <1>2. Becomes(q, n) /\ UNCHANGED inflight
    BY DEF Cool
  <1>3. NoAnswer \in [status : Statuses, limited : BOOLEAN, kind : Kinds \cup {"unknown"}]
        /\ NoAnswer.status = "none"
    BY DEF NoAnswer, Statuses
  <1>4. /\ next \in RequestState /\ next.phase = "try" /\ next.fail
        /\ next.answer.status = "none"
    BY <1>1, <1>3 DEF RequestState
  <1> HIDE DEF next
  <1>5. RequestOK(next) /\ ~Holds(next)
    BY <1>4 DEF RequestOK, Holds
  <1>6. /\ RequestOK(n)
        /\ Holds(n) <=> Holds(r)
        /\ Holds(n) => n.at = r.at
    BY <1>1, <1>5, RelayingOK DEF Holds
  <1> HIDE DEF n
  <1>7. CountersOK'
    BY <1>2, <1>6, StaysCounted DEF Core
  <1>8. RequestsOK'
    BY <1>2, <1>6, MovesOK DEF Core
  <1> QED
    BY <1>7, <1>8, CoolCircuits, CoolLocks DEF Core

LEMMA CloseCore ==
    ASSUME Core, NEW q \in Requests, Close(q)
    PROVE  Core'
  <1>1. Becomes(q, Idle) /\ Holds(req[q]) /\ req[q].at \in Cands
    BY RequestTyped DEF Close, Holds, RequestOK
  <1>2. CountersOK'
    BY <1>1, IdleOK, EndsCounted DEF Core, Close
  <1>3. RequestsOK'
    BY <1>1, IdleOK, MovesOK DEF Core
  <1> QED
    BY <1>2, <1>3, SameCircuits DEF Core, LocksOK, Close

-----------------------------------------------------------------------------
\* Administrator, health checks and clock leave the requests alone.

LEMMA ElsewhereCore ==
    ASSUME Core, UNCHANGED <<req, inflight>>, CircuitsOK', LocksOK'
    PROVE  Core'
  BY DEF Core, RequestsOK, CountersOK, InflightExact, Holders

LEMMA AdminCore ==
    ASSUME Core, NEW p, AdminDisable(p) \/ AdminEnable(p)
    PROVE  Core'
  <1>1. p \in Guarded /\ BreakerInv(Policy[p], circuits[p]) /\ Policy[p] \in Config
    BY PolicyAssumption DEF AdminDisable, AdminEnable, Core, CircuitsOK
  <1>2. BreakerInv(Policy[p], Disable(circuits[p]))
    BY <1>1, DisableInv
  <1>3. BreakerInv(Policy[p], Enable(circuits[p]))
    BY <1>1, EnableInv
  <1>4. CircuitsOK'
    BY <1>2, <1>3, WithCircuitOK DEF Core, AdminDisable, AdminEnable
  <1> QED
    BY <1>4, ElsewhereCore DEF AdminDisable, AdminEnable, Core, LocksOK

LEMMA HealthCore ==
    ASSUME Core, NEW p, HealthOK(p) \/ \E kind \in Kinds : HealthFailed(p, kind)
    PROVE  Core'
  <1>1. CircuitsOK'
    BY RecordSuccessOK, RecordFailureOK DEF Core, HealthOK, HealthFailed
  <1> QED
    BY <1>1, ElsewhereCore DEF HealthOK, HealthFailed, Core, LocksOK

LEMMA TickCore ==
    ASSUME Core, Tick
    PROVE  Core'
  <1>1. CircuitsOK'
    <2>1. ASSUME NEW p \in Guarded
          PROVE  BreakerInv(Policy[p], Elapse(Policy[p], circuits[p]))
      BY PolicyAssumption, ElapseStep DEF Core, CircuitsOK
    <2> QED
      BY <2>1 DEF Tick, CircuitsOK, BreakerInv
  <1>2. LocksOK'
    <2>1. ASSUME NEW t \in Targets PROVE Larger(modelLock[t] - 1, 0) \in Nat
      BY DEF Core, LocksOK, Larger
    <2> QED
      BY <2>1 DEF Tick, LocksOK
  <1> QED
    BY <1>1, <1>2, ElsewhereCore DEF Tick

-----------------------------------------------------------------------------
LEMMA InitCore == Init => Core
  <1> SUFFICES ASSUME Init PROVE Core
    OBVIOUS
  <1>1. CircuitsOK
    <2>1. ASSUME NEW p \in Guarded PROVE BreakerInv(Policy[p], NewBreaker)
      BY PolicyAssumption, NewBreakerInv
    <2> QED
      BY <2>1 DEF Init, CircuitsOK, BreakerInv
  <1>2. LocksOK
    BY DEF Init, LocksOK
  <1>3. RequestsOK
    BY IdleOK DEF Init, RequestsOK
  <1>4. CountersOK
    <2>1. \A p : Holders(p) = {}
      BY IdleOK DEF Init, Holders
    <2> QED
      BY <2>1, FS_EmptySet DEF Init, CountersOK, InflightExact
  <1> QED
    BY <1>1, <1>2, <1>3, <1>4 DEF Core

\* The steps of one request, its arrival apart.
LEMMA RequestCore ==
    ASSUME Core, NEW q \in Requests, AnswerLocally(q) \/ Leave(q) \/ Proceed(q)
    PROVE  Core'
  <1>1. CASE AnswerLocally(q) \/ GiveUp(q)
    BY <1>1, EndsCore
  <1>2. CASE Leave(q)
    BY <1>2, LeaveCore
  <1>3. CASE Consult(q)
    BY <1>3, ConsultCore
  <1>4. CASE CheckLock(q)
    BY <1>4, CheckLockCore
  <1>5. CASE Order(q)
    BY <1>5, OrderCore
  <1>6. CASE SkipSmall(q)
    BY <1>6, SkipSmallCore
  <1>7. CASE Send(q)
    BY <1>7, SendCore
  <1>8. CASE Abort(q)
    BY <1>8, AbortCore
  <1>9. CASE \E kind \in TransportKinds : Break(q, kind)
    BY <1>9, BreakCore
  <1>10. CASE \E rejection \in Rejections : Reject(q, rejection)
    BY <1>10, RejectCore
  <1>11. CASE \E status \in {"ok", "not_found", "denied"} : Accept(q, status)
    BY <1>11, AcceptCore
  <1>12. CASE \E retryAfter \in Hints, reset \in Hints, rule \in RuleCooldowns :
                Cool(q, retryAfter, reset, rule)
    BY <1>12, CoolCore
  <1>13. CASE Close(q)
    BY <1>13, CloseCore
  <1> QED
    BY <1>1, <1>2, <1>3, <1>4, <1>5, <1>6, <1>7, <1>8, <1>9, <1>10, <1>11, <1>12, <1>13
    DEF Proceed

LEMMA NextCore == Core /\ [Next]_vars => Core'
  <1> SUFFICES ASSUME Core, [Next]_vars PROVE Core'
    OBVIOUS
  <1>1. CASE \E q \in Requests, profile \in Profiles : Arrive(q, profile)
    BY <1>1, ArriveCore
  <1>2. CASE \E q \in Requests : AnswerLocally(q) \/ Leave(q) \/ Proceed(q)
    BY <1>2, RequestCore
  <1>3. CASE Environment
    BY <1>3, AdminCore, HealthCore, TickCore DEF Environment
  <1>4. CASE UNCHANGED vars
    BY <1>4, SameCircuits, ElsewhereCore DEF vars, Core, LocksOK
  <1> QED
    BY <1>1, <1>2, <1>3, <1>4 DEF Next

LEMMA CoreInvariance == Spec => []Core
  BY InitCore, NextCore, PTL DEF Spec

-----------------------------------------------------------------------------
\* The state always has the declared types, for any number of requests,
\* providers and candidates: no breaker, lock or counter runs off its range.
THEOREM DispatchTypeCorrect == Spec => []TypeOK
  <1>1. Core => TypeOK
    BY DEF Core, CircuitsOK, LocksOK, RequestsOK, CountersOK, TypeOK
  <1> QED
    BY <1>1, CoreInvariance, PTL

\* However requests interleave, time out, are aborted or answered, the load
\* signal of a provider is the number of attempts and unread bodies it has.
THEOREM InflightExactHolds == Spec => []InflightExact
  <1>1. Core => InflightExact
    BY DEF Core, CountersOK
  <1> QED
    BY <1>1, CoreInvariance, PTL

\* relayAllFailed never dereferences a nil lastErr: whatever mix of skips,
\* errors and answers ended the failover, a cause is recorded.
THEOREM FailureHasCauseHolds == Spec => []FailureHasCause
  <1>1. Core => FailureHasCause
    BY DEF Core, RequestsOK, RequestOK, FailureHasCause
  <1> QED
    BY <1>1, CoreInvariance, PTL

-----------------------------------------------------------------------------
(***************************************************************************)
(* Failover as one request lives through it: what the witness says of the  *)
(* shared state (SeenMeans), and how the request's lists relate to it      *)
(* (ComesTo).                                                              *)
(***************************************************************************)
RefusedNow(c) ==
    ProviderOf(c) \in Guarded /\ ~Admits(Policy[ProviderOf(c)], circuits[ProviderOf(c)])

LockedNow(c) == modelLock[Candidates[c]] > 0

SteadyNow(c) ==
    /\ ~LockedNow(c)
    /\ ProviderOf(c) \in Guarded => circuits[ProviderOf(c)].state \in {"closed", "degraded"}

SeenMeans ==
    \A q \in Requests : /\ \A c \in seen[q].refused : RefusedNow(c)
                        /\ \A c \in seen[q].locked : LockedNow(c)
                        /\ \A c \in seen[q].healthy : SteadyNow(c)

\* The candidate whose breaker has answered and whose lock has not been read.
Asked(r) == IF r.phase = "lock" THEN {r.at} ELSE {}

\* For a routed request nothing refused or locked all along has been admitted,
\* and nothing healthy all along has been dropped.
ComesTo(r, s) ==
    /\ s.healthy \subseteq Eligible(r.profile)
    /\ r.profile.routed =>
        /\ Range(r.todo) \cap (s.refused \cup s.locked) = {}
        /\ r.phase = "lock" => r.at \notin s.refused
        /\ r.phase = "call" => r.at \notin s.refused \cup s.locked
        /\ r.answer.status \in {"none", "rejected"} =>
              s.healthy \subseteq Range(r.rest) \cup Range(r.todo) \cup Asked(r)

SeenOK == SeenMeans /\ \A q \in Requests : ComesTo(req[q], seen[q])

Within(s, t) ==
    s.refused \subseteq t.refused /\ s.locked \subseteq t.locked /\ s.healthy \subseteq t.healthy

LEMMA RangeAppend ==
    ASSUME NEW S, NEW s \in Seq(S), NEW e
    PROVE  Range(Append(s, e)) = Range(s) \cup {e}
  <1> DEFINE t == Append(s, e)
  <1>1. /\ Len(s) \in Nat /\ DOMAIN s = 1 .. Len(s) /\ DOMAIN t = 1 .. Len(s) + 1
        /\ t[Len(s) + 1] = e /\ \A i \in 1 .. Len(s) : t[i] = s[i]
    OBVIOUS
  <1> HIDE DEF t
  <1>2. Range(t) \subseteq Range(s) \cup {e}
    <2> SUFFICES ASSUME NEW i \in 1 .. Len(s) + 1 PROVE t[i] \in Range(s) \cup {e}
      BY <1>1 DEF Range
    <2>1. i \in 1 .. Len(s) \/ i = Len(s) + 1
      BY <1>1
    <2> QED
      BY <1>1, <2>1 DEF Range
  <1>3. Range(s) \cup {e} \subseteq Range(t)
    <2>1. Len(s) + 1 \in DOMAIN t /\ \A i \in 1 .. Len(s) : i \in DOMAIN t
      BY <1>1
    <2> QED
      BY <1>1, <2>1 DEF Range
  <1> QED
    BY <1>2, <1>3 DEF t

LEMMA RangeHeadTail ==
    ASSUME NEW S, NEW s \in Seq(S), s # <<>>
    PROVE  Range(s) = {Head(s)} \cup Range(Tail(s))
  <1>1. Range(s) \subseteq {Head(s)} \cup Range(Tail(s))
    <2> SUFFICES ASSUME NEW i \in 1 .. Len(s), i # 1 PROVE s[i] \in Range(Tail(s))
      BY DEF Range
    <2> DEFINE t == Tail(s)
    <2>1. i - 1 \in DOMAIN t /\ t[i - 1] = s[i]
      OBVIOUS
    <2> HIDE DEF t
    <2>2. t[i - 1] \in Range(t)
      BY <2>1 DEF Range
    <2> QED
      BY <2>1, <2>2 DEF t
  <1>2. {Head(s)} \cup Range(Tail(s)) \subseteq Range(s)
    <2>1. Head(s) = s[1] /\ 1 \in DOMAIN s
      OBVIOUS
    <2>2. \A i \in 1 .. Len(Tail(s)) : Tail(s)[i] = s[i + 1] /\ i + 1 \in DOMAIN s
      OBVIOUS
    <2> QED
      BY <2>1, <2>2 DEF Range
  <1> QED
    BY <1>1, <1>2

LEMMA RangeEmpty == Range(<<>>) = {}
  BY DEF Range

\* Every order of a finite set names all of it.
LEMMA OrdersNameAll ==
    ASSUME NEW S \in SUBSET Cands, NEW order \in SetToSeqs(S)
    PROVE  Range(order) = S
  <1> DEFINE D == 1 .. Cardinality(S)
  <1>1. IsFiniteSet(S) /\ Cardinality(S) \in Nat
    BY CandidatesAssumption, FS_Subset, FS_CardinalityType
  <1>2. order \in [D -> S] /\ \A i, j \in D : i # j => order[i] # order[j]
    BY DEF SetToSeqs
  <1>3. Cardinality(D) = Cardinality(S)
    BY <1>1, FS_Interval
  <1> HIDE DEF D
  <1>4. order \in Injection(D, S)
    BY <1>2 DEF Injection, IsInjective
  <1>5. order \in Surjection(D, S)
    BY <1>1, <1>3, <1>4, FS_Injection
  <1> QED
    BY <1>2, <1>5 DEF Surjection, Range

\* What a step may do to the witness of request q.
LEMMA Observed ==
    ASSUME Observe, NEW q \in Requests
    PROVE  /\ \A c \in seen'[q].refused : RefusedNow(c)'
           /\ \A c \in seen'[q].locked : LockedNow(c)'
           /\ \A c \in seen'[q].healthy : SteadyNow(c)'
           /\ req'[q].phase \in {"idle", "body"} => seen'[q] = NothingSeen
           /\ req[q].phase # "idle" => Within(seen'[q], seen[q])
           /\ req'[q].phase = "call" => req'[q].at \notin seen'[q].healthy
           /\ req[q].phase = "idle" => seen'[q].healthy \subseteq Eligible(req'[q].profile)
  <1>1. CASE req'[q].phase \in {"idle", "body"}
    <2>1. seen'[q] = NothingSeen
      BY <1>1 DEF Observe
    <2> QED
      BY <1>1, <2>1 DEF NothingSeen, Within
  <1>2. CASE req'[q].phase \notin {"idle", "body"}
    <2> DEFINE Before == IF req[q].phase # "idle" THEN seen[q]
                         ELSE [refused |-> Cands, locked |-> Cands,
                               healthy |-> Eligible(req'[q].profile)]
               Pending == {req'[q].at} \cup Range(req'[q].rest) \cup Range(req'[q].todo)
               Sent == IF req'[q].phase = "call" THEN {req'[q].at} ELSE {}
    <2>1. seen'[q] = [refused |-> {c \in Before.refused \cap Pending : RefusedNow(c)'},
                      locked  |-> {c \in Before.locked \cap Pending : LockedNow(c)'},
                      healthy |-> {c \in Before.healthy \ Sent : SteadyNow(c)'}]
      BY <1>2 DEF Observe, RefusedNow, LockedNow, SteadyNow
    <2>2. /\ \A c \in seen'[q].refused : RefusedNow(c)'
          /\ \A c \in seen'[q].locked : LockedNow(c)'
          /\ \A c \in seen'[q].healthy : SteadyNow(c)'
      BY <2>1
    <2>3. Within(seen'[q], Before) /\ seen'[q].healthy \cap Sent = {}
      BY <2>1 DEF Within
    <2> QED
      BY <1>2, <2>2, <2>3 DEF Within
  <1> QED
    BY <1>1, <1>2

LEMMA SeenLess ==
    ASSUME NEW r, NEW s, NEW t, ComesTo(r, t), Within(s, t)
    PROVE  ComesTo(r, s)
  BY DEF ComesTo, Within

\* A step that leaves the local state of a request alone.
LEMMA SeenElsewhere ==
    ASSUME SeenOK, Observe, NEW q \in Requests, req'[q] = req[q]
    PROVE  ComesTo(req[q], seen[q])'
  <1>1. CASE req[q].phase = "idle"
    <2>1. seen'[q] = NothingSeen
      BY <1>1, Observed
    <2> QED
      BY <2>1 DEF SeenOK, ComesTo, NothingSeen
  <1>2. CASE req[q].phase # "idle"
    BY <1>2, Observed, SeenLess DEF SeenOK
  <1> QED
    BY <1>1, <1>2

\* A step in which only request q moves.
LEMMA SeenMoves ==
    ASSUME SeenOK, Core, Observe, NEW q \in Requests, NEW n, Becomes(q, n),
           ComesTo(n, seen'[q])
    PROVE  SeenOK'
  <1>1. req'[q] = n /\ \A o \in Requests : o # q => req'[o] = req[o]
    BY DEF Becomes, Core, RequestsOK
  <1>2. SeenMeans'
    BY Observed DEF SeenMeans
  <1>3. ASSUME NEW o \in Requests PROVE ComesTo(req[o], seen[o])'
    BY <1>1, SeenElsewhere
  <1> QED
    BY <1>2, <1>3 DEF SeenOK

\* In particular when it moves to a state that suits what it had seen.
LEMMA SeenFollows ==
    ASSUME SeenOK, Core, Observe, NEW q \in Requests, NEW n, Becomes(q, n),
           req[q].phase # "idle", ComesTo(n, seen[q])
    PROVE  SeenOK'
  BY Observed, SeenLess, SeenMoves

\* The ends of a failover: nothing is owed any more.
LEMMA SeenEnds ==
    ASSUME SeenOK, Core, Observe, NEW q \in Requests, NEW n, Becomes(q, n),
           n.phase \in {"idle", "body"}, n.profile = NoProfile
    PROVE  SeenOK'
  <1>1. req'[q] = n
    BY DEF Becomes, Core, RequestsOK
  <1>2. seen'[q] = NothingSeen
    BY <1>1, Observed
  <1>3. ComesTo(n, seen'[q])
    BY <1>2 DEF ComesTo, NothingSeen, NoProfile
  <1> QED
    BY <1>3, SeenMoves

LEMMA ArriveSeen ==
    ASSUME SeenOK, Core, NEW q \in Requests, NEW profile \in Profiles, Arrive(q, profile)
    PROVE  SeenOK'
  <1> DEFINE n == IF profile.routed
                  THEN [Idle EXCEPT !.phase = "scan", !.profile = profile, !.rest = Route]
                  ELSE [Idle EXCEPT !.phase = "scan", !.profile = profile,
                                    !.todo = Passthrough]
             s == seen'[q]
  <1>1. profile \in Profile /\ (profile.routed => profile.tagged \subseteq Range(Route))
    BY CandidatesAssumption
  <1>2. /\ n.profile = profile /\ n.phase = "scan" /\ n.at = 0
        /\ profile.routed => n.todo = <<>> /\ n.rest = Route
    BY DEF Idle
  <1>3. Becomes(q, n) /\ req[q].phase = "idle" /\ Observe
    BY DEF Arrive
  <1>4. req'[q] = n
    BY <1>3 DEF Becomes, Core, RequestsOK
  <1> HIDE DEF n
  <1>5. s.healthy \subseteq Eligible(profile)
    BY <1>2, <1>3, <1>4, Observed
  <1>6. Eligible(profile) \subseteq profile.tagged
    BY DEF Eligible
  <1> HIDE DEF s
  <1>7. ComesTo(n, s)
    BY <1>1, <1>2, <1>5, <1>6, RangeEmpty DEF ComesTo
  <1> QED
    BY <1>3, <1>7, SeenMoves DEF s

LEMMA ConsultSeen ==
    ASSUME SeenOK, Core, NEW q \in Requests, Consult(q)
    PROVE  SeenOK'
  <1> DEFINE r == req[q]
             s == seen[q]
             c == Head(r.rest)
             p == ProviderOf(c)
             skip == [r EXCEPT !.rest = Tail(@)]
             admitted == [skip EXCEPT !.phase = "lock", !.at = c]
  <1>1. r \in RequestState /\ r.phase = "scan" /\ r.rest \in Seq(Cands) /\ r.rest # <<>>
    BY RequestTyped DEF Consult, RequestState
  <1>2. /\ skip.rest = Tail(r.rest) /\ skip.todo = r.todo /\ skip.profile = r.profile
        /\ skip.phase = "scan" /\ skip.answer = r.answer
    BY <1>1 DEF RequestState
  <1>3. /\ admitted.rest = Tail(r.rest) /\ admitted.todo = r.todo
        /\ admitted.profile = r.profile /\ admitted.phase = "lock" /\ admitted.at = c
        /\ admitted.answer = r.answer
    BY <1>1 DEF RequestState
  <1>4. Range(r.rest) = {c} \cup Range(Tail(r.rest))
    BY <1>1, RangeHeadTail
  <1>5. ComesTo(r, s) /\ Observe /\ Asked(r) = {}
    BY <1>1 DEF SeenOK, Consult, Asked
  <1>6. c \in s.refused => ~CircuitAllows(p)
    BY DEF SeenOK, SeenMeans, RefusedNow, CircuitAllows
  <1>7. c \in s.healthy => CircuitAllows(p) /\ c \in r.profile.tagged
    BY <1>5 DEF SeenOK, SeenMeans, SteadyNow, CircuitAllows, Admits, ComesTo, Eligible
  <1>8. \/ Becomes(q, skip) /\ c \notin s.healthy
        \/ Becomes(q, admitted) /\ c \notin s.refused
    BY <1>6, <1>7 DEF Consult
  <1> HIDE DEF c, skip, admitted
  <1>9. CASE Becomes(q, skip) /\ c \notin s.healthy
    <2>1. ComesTo(skip, s)
      BY <1>2, <1>4, <1>5, <1>9 DEF ComesTo, Asked
    <2> QED
      BY <1>1, <1>5, <1>9, <2>1, SeenFollows
  <1>10. CASE Becomes(q, admitted) /\ c \notin s.refused
    <2>1. ComesTo(admitted, s)
      BY <1>3, <1>4, <1>5, <1>10 DEF ComesTo, Asked
    <2> QED
      BY <1>1, <1>5, <1>10, <2>1, SeenFollows
  <1> QED
    BY <1>8, <1>9, <1>10

LEMMA CheckLockSeen ==
    ASSUME SeenOK, Core, NEW q \in Requests, CheckLock(q)
    PROVE  SeenOK'
  <1> DEFINE r == req[q]
             s == seen[q]
             todo == IF modelLock[Candidates[r.at]] = 0 THEN Append(r.todo, r.at) ELSE r.todo
             n == [r EXCEPT !.phase = "scan", !.at = 0, !.todo = todo]
  <1>1. /\ r \in RequestState /\ r.phase = "lock" /\ r.at \in Cands
        /\ r.todo \in Seq(Cands)
    BY RequestTyped DEF CheckLock, RequestOK, RequestState
  <1>2. Becomes(q, n) /\ Observe
    BY <1>1 DEF CheckLock, Becomes, RequestState
  <1>3. /\ n.phase = "scan" /\ n.todo = todo /\ n.rest = r.rest /\ n.profile = r.profile
        /\ n.answer = r.answer
    BY <1>1 DEF RequestState
  <1>4. ComesTo(r, s) /\ Asked(r) = {r.at}
    BY <1>1 DEF SeenOK, Asked
  <1>5. \/ modelLock[Candidates[r.at]] = 0 /\ r.at \notin s.locked
           /\ Range(todo) = Range(r.todo) \cup {r.at}
        \/ r.at \notin s.healthy /\ todo = r.todo
    <2>1. modelLock[Candidates[r.at]] \in Nat
      BY <1>1, CandidateFacts DEF Core, LocksOK
    <2>2. r.at \in s.locked => modelLock[Candidates[r.at]] > 0
      BY DEF SeenOK, SeenMeans, LockedNow
    <2>3. r.at \in s.healthy => ~(modelLock[Candidates[r.at]] > 0)
      BY DEF SeenOK, SeenMeans, SteadyNow, LockedNow
    <2> QED
      BY <1>1, <2>1, <2>2, <2>3, RangeAppend
  <1> HIDE DEF todo, n
  <1>6. ComesTo(n, s)
    BY <1>1, <1>3, <1>4, <1>5 DEF ComesTo, Asked
  <1> QED
    BY <1>1, <1>2, <1>6, SeenFollows

LEMMA OrderSeen ==
    ASSUME SeenOK, Core, NEW q \in Requests, Order(q)
    PROVE  SeenOK'
  <1> DEFINE r == req[q]
             s == seen[q]
  <1>1. r \in RequestState /\ r.phase = "scan" /\ r.todo \in Seq(Cands) /\ r.rest = <<>>
    BY RequestTyped DEF Order, RequestState
  <1>2. ComesTo(r, s) /\ Asked(r) = {} /\ Observe
    BY <1>1 DEF SeenOK, Asked, Order
  <1>3. PICK order : /\ r.profile.routed =>
                          Range(order) = Range(r.todo) \cap r.profile.granted
                     /\ Becomes(q, IF order = <<>> THEN Idle
                                   ELSE [r EXCEPT !.phase = "try", !.todo = order])
    <2>1. Range(r.todo) \cap r.profile.granted \in SUBSET Cands
      BY <1>1 DEF Range
    <2> QED
      BY <2>1, OrdersNameAll DEF Order
  <1>4. CASE order = <<>>
    <2>1. Becomes(q, Idle) /\ Idle.phase = "idle" /\ Idle.profile = NoProfile
      BY <1>3, <1>4 DEF Idle
    <2> QED
      BY <1>2, <2>1, SeenEnds
  <1>5. CASE order # <<>>
    <2> DEFINE n == [r EXCEPT !.phase = "try", !.todo = order]
    <2>1. /\ n.phase = "try" /\ n.todo = order /\ n.rest = <<>> /\ n.profile = r.profile
          /\ n.answer = r.answer
      BY <1>1 DEF RequestState
    <2>2. Becomes(q, n)
      BY <1>3, <1>5
    <2> HIDE DEF n
    <2>3. ComesTo(n, s)
      BY <1>1, <1>2, <1>3, <2>1, RangeEmpty DEF ComesTo, Asked, Eligible
    <2> QED
      BY <1>1, <1>2, <2>2, <2>3, SeenFollows
  <1> QED
    BY <1>4, <1>5

LEMMA SkipSmallSeen ==
    ASSUME SeenOK, Core, NEW q \in Requests, SkipSmall(q)
    PROVE  SeenOK'
  <1> DEFINE r == req[q]
             s == seen[q]
             n == [r EXCEPT !.todo = Tail(r.todo), !.err = "context"]
  <1>1. /\ r \in RequestState /\ r.phase = "try" /\ r.todo \in Seq(Cands) /\ r.todo # <<>>
        /\ Head(r.todo) \notin r.profile.fits
    BY RequestTyped DEF SkipSmall, Trying, RequestState
  <1>2. Becomes(q, n) /\ Observe
    BY <1>1 DEF SkipSmall, Becomes, RequestState
  <1>3. /\ n.phase = "try" /\ n.todo = Tail(r.todo) /\ n.rest = r.rest
        /\ n.profile = r.profile /\ n.answer = r.answer
    BY <1>1 DEF RequestState
  <1>4. ComesTo(r, s) /\ Asked(r) = {}
    BY <1>1 DEF SeenOK, Asked
  <1>5. Range(r.todo) = {Head(r.todo)} \cup Range(Tail(r.todo))
    BY <1>1, RangeHeadTail
  <1> HIDE DEF n
  <1>6. ComesTo(n, s)
    BY <1>1, <1>3, <1>4, <1>5 DEF ComesTo, Asked, Eligible
  <1> QED
    BY <1>1, <1>2, <1>6, SeenFollows

\* The one step that takes a candidate off the list the witness still lists.
LEMMA SendSeen ==
    ASSUME SeenOK, Core, NEW q \in Requests, Send(q)
    PROVE  SeenOK'
  <1> DEFINE r == req[q]
             s == seen[q]
             c == Head(r.todo)
             n == [r EXCEPT !.phase = "call", !.todo = Tail(r.todo), !.at = c]
  <1>1. /\ r \in RequestState /\ r.phase = "try" /\ r.todo \in Seq(Cands) /\ r.todo # <<>>
    BY RequestTyped DEF Send, Trying, RequestState
  <1>2. Becomes(q, n) /\ Observe
    BY <1>1 DEF Send, Becomes, RequestState
  <1>3. /\ n.phase = "call" /\ n.todo = Tail(r.todo) /\ n.rest = r.rest /\ n.at = c
        /\ n.profile = r.profile /\ n.answer = r.answer
    BY <1>1 DEF RequestState
  <1>4. ComesTo(r, s) /\ Asked(r) = {}
    BY <1>1 DEF SeenOK, Asked
  <1>5. Range(r.todo) = {c} \cup Range(Tail(r.todo))
    BY <1>1, RangeHeadTail
  <1>6. req'[q] = n
    BY <1>2 DEF Becomes, Core, RequestsOK
  <1> HIDE DEF n, c
  <1>7. Within(seen'[q], s) /\ c \notin seen'[q].healthy
    BY <1>1, <1>2, <1>3, <1>6, Observed
  <1>8. ComesTo(n, seen'[q])
    BY <1>3, <1>4, <1>5, <1>7 DEF ComesTo, Asked, Within
  <1> QED
    BY <1>2, <1>8, SeenMoves

LEMMA LeaveSeen ==
    ASSUME SeenOK, Core, NEW q \in Requests, Leave(q)
    PROVE  SeenOK'
  <1> DEFINE r == req[q]
  <1>1. r \in RequestState /\ r.phase = "call" /\ ComesTo(r, seen[q]) /\ Observe
    BY RequestTyped DEF Leave, SeenOK
  <1>2. PICK end : Becomes(q, [r EXCEPT !.ctx = end])
    BY DEF Leave
  <1> DEFINE n == [r EXCEPT !.ctx = end]
  <1>3. /\ n.phase = r.phase /\ n.todo = r.todo /\ n.rest = r.rest /\ n.at = r.at
        /\ n.profile = r.profile /\ n.answer = r.answer
    BY <1>1 DEF RequestState
  <1>4. Becomes(q, n)
    BY <1>2
  <1> HIDE DEF n
  <1>5. ComesTo(n, seen[q])
    BY <1>1, <1>3 DEF ComesTo, Asked
  <1> QED
    BY <1>1, <1>4, <1>5, SeenFollows

\* An attempt that fails goes back to the list it left; the candidate it was
\* at has been off the healthy ones since it was sent.
LEMMA FailedSeen ==
    ASSUME SeenOK, Core, NEW q \in Requests, req[q].phase = "call", Observe,
           NEW n, Becomes(q, n), n.phase \in {"try", "cool"},
           n.todo = req[q].todo, n.rest = req[q].rest, n.profile = req[q].profile
    PROVE  SeenOK'
  <1>1. req[q].answer.status = "none"
    BY RequestTyped DEF RequestOK
  <1>2. ComesTo(req[q], seen[q]) /\ Asked(req[q]) = {}
    BY DEF SeenOK, Asked
  <1>3. ComesTo(n, seen[q])
    BY <1>1, <1>2 DEF ComesTo, Asked
  <1> QED
    BY <1>3, SeenFollows

LEMMA ErrorSeen ==
    ASSUME SeenOK, Core, NEW q \in Requests,
           Abort(q) \/ \E kind \in TransportKinds : Break(q, kind)
    PROVE  SeenOK'
  <1> DEFINE n == AfterError(q)
  <1>1. req[q] \in RequestState /\ req[q].phase = "call" /\ Observe /\ Becomes(q, n)
    BY RequestTyped DEF Abort, Break
  <1>2. /\ n.phase = "try" /\ n.todo = req[q].todo /\ n.rest = req[q].rest
        /\ n.profile = req[q].profile
    BY <1>1 DEF AfterError, RequestState
  <1> HIDE DEF n
  <1> QED
    BY <1>1, <1>2, FailedSeen

LEMMA RejectSeen ==
    ASSUME SeenOK, Core, NEW q \in Requests, NEW rejection \in Rejections, Reject(q, rejection)
    PROVE  SeenOK'
  <1> DEFINE answer == [status |-> "rejected", limited |-> rejection.limited,
                        kind |-> rejection.kind]
             n == [req[q] EXCEPT !.phase = "cool", !.answer = answer]
  <1>1. req[q] \in RequestState /\ req[q].phase = "call" /\ Observe /\ Becomes(q, n)
    BY RequestTyped DEF Reject
  <1>2. /\ n.phase = "cool" /\ n.todo = req[q].todo /\ n.rest = req[q].rest
        /\ n.profile = req[q].profile
    BY <1>1 DEF RequestState
  <1> HIDE DEF n
  <1> QED
    BY <1>1, <1>2, FailedSeen

LEMMA RelayingSeen == \A c : Relaying(c).phase = "body" /\ Relaying(c).profile = NoProfile
  BY DEF Relaying, Idle

LEMMA AcceptSeen ==
    ASSUME SeenOK, Core, NEW q \in Requests, NEW status \in {"ok", "not_found", "denied"},
           Accept(q, status)
    PROVE  SeenOK'
  <1>1. CASE status = "ok"
    <2>1. Becomes(q, Relaying(req[q].at)) /\ Observe
      BY <1>1 DEF Accept
    <2> QED
      BY <2>1, RelayingSeen, SeenEnds
  <1>2. CASE status # "ok"
    <2> DEFINE n == [req[q] EXCEPT !.phase = "cool", !.answer.status = status]
    <2>1. req[q] \in RequestState /\ req[q].phase = "call" /\ Observe /\ Becomes(q, n)
      BY <1>2, RequestTyped DEF Accept
    <2>2. /\ n.phase = "cool" /\ n.todo = req[q].todo /\ n.rest = req[q].rest
          /\ n.profile = req[q].profile
      BY <2>1 DEF RequestState
    <2> HIDE DEF n
    <2> QED
      BY <2>1, <2>2, FailedSeen
  <1> QED
    BY <1>1, <1>2

LEMMA CoolSeen ==
    ASSUME SeenOK, Core, NEW q \in Requests, NEW retryAfter \in Hints, NEW reset \in Hints,
           NEW rule \in RuleCooldowns, Cool(q, retryAfter, reset, rule)
    PROVE  SeenOK'
  <1> DEFINE r == req[q]
  <1>1. r \in RequestState /\ r.phase = "cool" /\ Observe
    BY RequestTyped DEF Cool
  <1>2. CASE r.answer.status = "rejected"
    <2> DEFINE n == [r EXCEPT !.phase = "try", !.at = 0, !.answer = NoAnswer,
                              !.err = "none", !.fail = TRUE]
    <2>1. Becomes(q, n)
      BY <1>2 DEF Cool
    <2>2. /\ n.phase = "try" /\ n.todo = r.todo /\ n.rest = r.rest /\ n.profile = r.profile
      BY <1>1 DEF RequestState
    <2>3. ComesTo(r, seen[q]) /\ Asked(r) = {}
      BY <1>1 DEF SeenOK, Asked
    <2> HIDE DEF n
    <2>4. ComesTo(n, seen[q])
      BY <1>2, <2>2, <2>3 DEF ComesTo, Asked
    <2> QED
      BY <1>1, <2>1, <2>4, SeenFollows
  <1>3. CASE r.answer.status # "rejected"
    <2>1. Becomes(q, Relaying(r.at))
      BY <1>3 DEF Cool
    <2> QED
      BY <1>1, <2>1, RelayingSeen, SeenEnds
  <1> QED
    BY <1>2, <1>3

LEMMA IdleSeen ==
    ASSUME SeenOK, Core, NEW q \in Requests, AnswerLocally(q) \/ GiveUp(q) \/ Close(q)
    PROVE  SeenOK'
  <1>1. Becomes(q, Idle) /\ Observe /\ Idle.phase = "idle" /\ Idle.profile = NoProfile
    BY DEF AnswerLocally, GiveUp, Close, Idle
  <1> QED
    BY <1>1, SeenEnds

LEMMA EnvironmentSeen ==
    ASSUME SeenOK, Core, Environment
    PROVE  SeenOK'
  <1>1. Observe /\ UNCHANGED req
    BY DEF Environment, AdminDisable, AdminEnable, HealthOK, HealthFailed, Tick
  <1>2. SeenMeans'
    BY <1>1, Observed DEF SeenMeans
  <1>3. ASSUME NEW q \in Requests PROVE ComesTo(req[q], seen[q])'
    BY <1>1, SeenElsewhere
  <1> QED
    BY <1>2, <1>3 DEF SeenOK

LEMMA InitSeen == Init => SeenOK
  BY RangeEmpty DEF Init, SeenOK, SeenMeans, ComesTo, NothingSeen, Idle, NoProfile

LEMMA NextSeen == SeenOK /\ Core /\ [Next]_vars => SeenOK'
  <1> SUFFICES ASSUME SeenOK, Core, [Next]_vars PROVE SeenOK'
    OBVIOUS
  <1>1. CASE \E q \in Requests, profile \in Profiles : Arrive(q, profile)
    BY <1>1, ArriveSeen
  <1>2. ASSUME NEW q \in Requests, AnswerLocally(q) \/ Leave(q) \/ Proceed(q)
        PROVE  SeenOK'
    <2>1. CASE AnswerLocally(q) \/ GiveUp(q) \/ Close(q)
      BY <2>1, IdleSeen
    <2>2. CASE Leave(q)
      BY <2>2, LeaveSeen
    <2>3. CASE Consult(q)
      BY <2>3, ConsultSeen
    <2>4. CASE CheckLock(q)
      BY <2>4, CheckLockSeen
    <2>5. CASE Order(q)
      BY <2>5, OrderSeen
    <2>6. CASE SkipSmall(q)
      BY <2>6, SkipSmallSeen
    <2>7. CASE Send(q)
      BY <2>7, SendSeen
    <2>8. CASE Abort(q) \/ \E kind \in TransportKinds : Break(q, kind)
      BY <2>8, ErrorSeen
    <2>9. CASE \E rejection \in Rejections : Reject(q, rejection)
      BY <2>9, RejectSeen
    <2>10. CASE \E status \in {"ok", "not_found", "denied"} : Accept(q, status)
      BY <2>10, AcceptSeen
    <2>11. CASE \E retryAfter \in Hints, reset \in Hints, rule \in RuleCooldowns :
                  Cool(q, retryAfter, reset, rule)
      BY <2>11, CoolSeen
    <2> QED
      BY <1>2, <2>1, <2>2, <2>3, <2>4, <2>5, <2>6, <2>7, <2>8, <2>9, <2>10, <2>11
      DEF Proceed
  <1>3. CASE Environment
    BY <1>3, EnvironmentSeen
  <1>4. CASE UNCHANGED vars
    BY <1>4 DEF vars, SeenOK, SeenMeans, RefusedNow, LockedNow, SteadyNow
  <1> QED
    BY <1>1, <1>2, <1>3, <1>4 DEF Next

\* The inductive invariant.
IInv == Core /\ SeenOK

LEMMA Invariance == Spec => []IInv
  <1>1. Init => IInv
    BY InitCore, InitSeen DEF IInv
  <1>2. IInv /\ [Next]_vars => IInv'
    BY NextCore, NextSeen DEF IInv
  <1> QED
    BY <1>1, <1>2, PTL DEF Spec

\* A routed request is never sent to a provider that refused, or at a model that
\* was locked, for as long as the request has existed.
THEOREM NotSentBlindlyHolds == Spec => []NotSentBlindly
  <1>1. IInv => NotSentBlindly
    BY DEF IInv, SeenOK, ComesTo, NotSentBlindly
  <1> QED
    BY <1>1, Invariance, PTL

\* However calls of other requests, administrators and the clock interleave,
\* failover never drops an eligible candidate that was closed and unlocked all
\* along, until there is a response.
THEOREM NobodyForgottenHolds == Spec => []NobodyForgotten
  <1>1. IInv => NobodyForgotten
    BY DEF IInv, SeenOK, ComesTo, Asked, NobodyForgotten
  <1> QED
    BY <1>1, Invariance, PTL

-----------------------------------------------------------------------------
\* The failover implements Failover.  What a request is served by is on its list
\* once: the list is settled in an order that repeats nobody, and until then no
\* failure has been noted.

Orderly(r) ==
    /\ r.phase \in {"scan", "lock"} => ~r.fail /\ r.err = "none"
    /\ (r.phase \in {"scan", "lock"} /\ ~r.profile.routed) =>
            r.phase = "scan" /\ r.rest = <<>> /\ IsInjective(r.todo)
    /\ r.phase \in {"try", "call", "cool"} => IsInjective(r.todo)

AllOrderly == \A q \in Requests : Orderly(req[q])

LEMMA OrdersInjective ==
    ASSUME NEW S \in SUBSET Cands, NEW order \in SetToSeqs(S)
    PROVE  IsInjective(order)
  <1> DEFINE D == 1 .. Cardinality(S)
  <1>1. order \in [D -> S] /\ \A i, j \in D : i # j => order[i] # order[j]
    BY DEF SetToSeqs
  <1> HIDE DEF D
  <1> QED
    BY <1>1 DEF IsInjective

\* Who is taken off such a list is off it.
LEMMA TailInjective ==
    ASSUME NEW S, NEW s \in Seq(S), s # <<>>, IsInjective(s)
    PROVE  IsInjective(Tail(s)) /\ Range(Tail(s)) = Range(s) \ {Head(s)}
  <1> DEFINE t == Tail(s)
  <1>1. /\ Head(s) = s[1] /\ 1 \in DOMAIN s
        /\ \A i \in DOMAIN t : i + 1 \in DOMAIN s /\ t[i] = s[i + 1] /\ i + 1 # 1
        /\ \A i, j \in DOMAIN t : i + 1 = j + 1 => i = j
    OBVIOUS
  <1>2. \A i, j \in DOMAIN s : s[i] = s[j] => i = j
    BY DEF IsInjective
  <1> HIDE DEF t
  <1>3. IsInjective(t)
    BY <1>1, <1>2 DEF IsInjective
  <1>4. Head(s) \notin Range(t)
    BY <1>1, <1>2 DEF Range
  <1>5. Range(s) = {Head(s)} \cup Range(t)
    BY RangeHeadTail DEF t
  <1> QED
    BY <1>3, <1>4, <1>5 DEF t

LEMMA OrderlyElsewhere ==
    ASSUME AllOrderly, RequestsOK, NEW q \in Requests, NEW n, Becomes(q, n), Orderly(n)
    PROVE  AllOrderly'
  BY DEF AllOrderly, RequestsOK, Becomes, Orderly

LEMMA AwayOrderly == Orderly(Idle) /\ \A c : Orderly(Relaying(c))
  BY DEF Orderly, Idle, Relaying

-----------------------------------------------------------------------------
\* What the caller sees of a request.

Jobs == [q \in Requests |-> JobOf(req[q])]

\* Who a request may still call, and a request in each stage, as its caller sees them.
StillMay(r) == JobOf(r).may
Choosing(r) == Abstract!Job("choosing", StillMay(r), 0, FALSE)
InTrial(r)  == Abstract!Job("trying", Range(r.todo), 0, r.fail \/ r.err # "none")
Calling(r)  == Abstract!Job("calling", Range(r.todo), r.at, r.fail \/ r.err # "none")
Served(r)   == Abstract!Job("served", {}, r.at, FALSE)

LEMMA JobOfIdle == JobOf(Idle) = Abstract!Idle
  BY DEF JobOf, Idle, Abstract!Idle, Abstract!Job

LEMMA JobOfChoosing ==
    ASSUME NEW r, r.phase \in {"scan", "lock"}
    PROVE  /\ JobOf(r) = Choosing(r) /\ JobOf(r).stage = "choosing"
           /\ JobOf(r).may = StillMay(r)
  BY DEF JobOf, StillMay, Choosing, Abstract!Job

LEMMA StillMayBeAsked ==
    ASSUME NEW r
    PROVE  /\ r.phase = "scan" => StillMay(r) = Range(r.rest) \cup Range(r.todo)
           /\ r.phase = "lock" => StillMay(r) = Range(r.rest) \cup Range(r.todo) \cup {r.at}
  BY DEF JobOf, StillMay

LEMMA JobOfTrying ==
    ASSUME NEW r, r.phase = "try"
    PROVE  /\ JobOf(r) = InTrial(r) /\ JobOf(r).stage = "trying"
           /\ JobOf(r).may = Range(r.todo)
           /\ JobOf(r).cause <=> (r.fail \/ r.err # "none")
  <1>1. JobOf(r) = InTrial(r)
    BY DEF JobOf, InTrial, Abstract!Job
  <1>2. JobOf(r).stage = "trying" /\ JobOf(r).may = Range(r.todo)
    BY <1>1 DEF InTrial, Abstract!Job
  <1>3. JobOf(r).cause = (r.fail \/ r.err # "none")
    BY <1>1 DEF InTrial, Abstract!Job
  <1>4. JobOf(r).cause <=> (r.fail \/ r.err # "none")
    BY <1>3, Zenon
  <1> QED
    BY <1>1, <1>2, <1>4

LEMMA JobOfCalling ==
    ASSUME NEW r, r.phase = "call" \/ (r.phase = "cool" /\ r.answer.status = "rejected")
    PROVE  /\ JobOf(r) = Calling(r) /\ JobOf(r).stage = "calling"
           /\ JobOf(r).may = Range(r.todo) /\ JobOf(r).with = r.at
  <1>1. JobOf(r) = Calling(r)
    BY DEF JobOf, Calling, Abstract!Job
  <1> QED
    BY <1>1 DEF Calling, Abstract!Job

LEMMA JobOfServed ==
    ASSUME NEW r, r.phase = "body" \/ (r.phase = "cool" /\ r.answer.status # "rejected")
    PROVE  /\ JobOf(r) = Served(r) /\ JobOf(r).stage = "served"
           /\ JobOf(r).may = {} /\ JobOf(r).with = r.at
  <1>1. JobOf(r) = Served(r)
    <2>1. r.phase = "body" => JobOf(r) = Served(r)
      BY DEF JobOf, Served, Abstract!Job
    <2>2. (r.phase = "cool" /\ r.answer.status # "rejected") => JobOf(r) = Served(r)
      BY DEF JobOf, Served, Abstract!Job
    <2> QED
      BY <2>1, <2>2
  <1> QED
    BY <1>1 DEF Served, Abstract!Job

LEMMA JobMoves ==
    ASSUME RequestsOK, NEW q \in Requests, NEW n, Becomes(q, n)
    PROVE  Abstract!Moves(q, JobOf(n)) /\ Jobs[q] = JobOf(req[q])
  BY DEF RequestsOK, Becomes, Abstract!Moves, Jobs

\* The step the caller sees, if it sees one.
Visible == Abstract!Next \/ UNCHANGED Jobs

LEMMA CallerSees ==
    ASSUME NEW q \in Requests, NEW stage, JobOf(req[q]).stage = stage,
           \/ stage = "idle" /\ Abstract!Start(q)
           \/ stage = "choosing" /\ (Abstract!Narrow(q) \/ Abstract!Decline(q))
           \/ stage = "trying"
              /\ (Abstract!PassOver(q) \/ Abstract!Call(q) \/ Abstract!GiveUp(q))
           \/ stage = "calling" /\ (Abstract!Fails(q) \/ Abstract!Answers(q))
           \/ stage = "served" /\ Abstract!End(q)
    PROVE  Visible
  <1>1. Jobs[q].stage = stage
    BY DEF Jobs
  <1> QED
    BY <1>1 DEF Visible, Abstract!Next, Jobs

LEMMA NothingSeenOf ==
    ASSUME RequestsOK, NEW q \in Requests, NEW n, Becomes(q, n), JobOf(n) = JobOf(req[q])
    PROVE  Visible
  BY DEF RequestsOK, Becomes, Jobs, Visible

-----------------------------------------------------------------------------
\* One lemma per action: what it is to the caller, and that the request stays
\* orderly.

LEMMA ArriveMaps ==
    ASSUME Core, AllOrderly, NEW q \in Requests, NEW profile \in Profiles, Arrive(q, profile)
    PROVE  Visible /\ AllOrderly'
  <1> DEFINE n == IF profile.routed
                  THEN [Idle EXCEPT !.phase = "scan", !.profile = profile, !.rest = Route]
                  ELSE [Idle EXCEPT !.phase = "scan", !.profile = profile,
                                    !.todo = Passthrough]
             list == Range(n.rest) \cup Range(n.todo)
  <1>1. /\ Route \in Seq(Cands) /\ Passthrough \in Seq(Cands) /\ IsInjective(Passthrough)
        /\ profile \in Profile
    BY CandidatesAssumption
  <1>2. Becomes(q, n) /\ req[q].phase = "idle" /\ RequestsOK
    BY DEF Arrive, Core
  <1>3. /\ n.phase = "scan" /\ ~n.fail /\ n.err = "none" /\ n.profile = profile
        /\ n.rest \in Seq(Cands) /\ n.todo \in Seq(Cands)
        /\ ~n.profile.routed => n.rest = <<>> /\ n.todo = Passthrough
    BY <1>1 DEF Idle, Profile
  <1> HIDE DEF n
  <1>4. Orderly(n)
    BY <1>1, <1>3 DEF Orderly
  <1>5. list \in SUBSET Cands
    BY <1>3 DEF Range
  <1>6. StillMay(n) = list
    BY <1>3, StillMayBeAsked
  <1>7. Abstract!Moves(q, JobOf(n)) /\ Jobs[q] = JobOf(req[q])
    BY <1>2, JobMoves
  <1>8. JobOf(req[q]).stage = "idle"
    BY <1>2 DEF JobOf
  <1> HIDE DEF list
  <1>9. Abstract!Start(q)
    <2>1. JobOf(n) = Choosing(n)
      BY <1>3, JobOfChoosing
    <2> QED
      BY <1>5, <1>6, <1>7, <2>1 DEF Abstract!Start, Jobs, Choosing
  <1> QED
    BY <1>2, <1>4, <1>8, <1>9, CallerSees, OrderlyElsewhere

\* Candidates are asked, and the list narrows.
LEMMA Narrows ==
    ASSUME Core, NEW q \in Requests, NEW n, Becomes(q, n),
           req[q].phase \in {"scan", "lock"}, n.phase \in {"scan", "lock"},
           StillMay(n) \subseteq StillMay(req[q]), StillMay(n) \subseteq Cands
    PROVE  Visible
  <1>1. JobOf(n) = Choosing(n) /\ JobOf(req[q]).stage = "choosing"
        /\ JobOf(req[q]).may = StillMay(req[q])
    BY JobOfChoosing
  <1>2. Abstract!Moves(q, JobOf(n)) /\ Jobs[q] = JobOf(req[q])
    BY JobMoves DEF Core
  <1>3. Abstract!Narrow(q)
    BY <1>1, <1>2 DEF Abstract!Narrow, Jobs, Choosing
  <1> QED
    BY <1>1, <1>3, CallerSees

LEMMA ConsultMaps ==
    ASSUME Core, AllOrderly, NEW q \in Requests, Consult(q)
    PROVE  Visible /\ AllOrderly'
  <1> DEFINE r == req[q]
             c == Head(r.rest)
             skip == [r EXCEPT !.rest = Tail(@)]
             admitted == [skip EXCEPT !.phase = "lock", !.at = c]
  <1>1. /\ r \in RequestState /\ r.phase = "scan" /\ r.rest # <<>> /\ r.rest \in Seq(Cands)
        /\ r.todo \in Seq(Cands)
    BY RequestTyped DEF Consult, RequestState
  <1>2. Orderly(r) /\ (Becomes(q, skip) \/ Becomes(q, admitted))
    BY DEF AllOrderly, Consult
  <1>3. /\ skip.phase = "scan" /\ skip.rest = Tail(r.rest) /\ skip.todo = r.todo
        /\ skip.profile = r.profile /\ skip.fail = r.fail /\ skip.err = r.err
        /\ admitted.phase = "lock" /\ admitted.rest = Tail(r.rest) /\ admitted.at = c
        /\ admitted.todo = r.todo /\ admitted.profile = r.profile
        /\ admitted.fail = r.fail /\ admitted.err = r.err
    BY <1>1 DEF RequestState
  <1>4. r.profile.routed
    BY <1>1, <1>2 DEF Orderly
  <1>5. Range(r.rest) = {c} \cup Range(Tail(r.rest))
    BY <1>1, RangeHeadTail
  <1>6. Range(r.rest) \subseteq Cands /\ Range(r.todo) \subseteq Cands
    BY <1>1 DEF Range
  <1> HIDE DEF skip, admitted, c
  <1>7. StillMay(r) = Range(r.rest) \cup Range(r.todo)
    BY <1>1, StillMayBeAsked
  <1>8. /\ StillMay(skip) = Range(Tail(r.rest)) \cup Range(r.todo)
        /\ StillMay(admitted) = Range(Tail(r.rest)) \cup Range(r.todo) \cup {c}
    BY <1>3, StillMayBeAsked
  <1>9. Orderly(skip) /\ Orderly(admitted)
    BY <1>1, <1>2, <1>3, <1>4 DEF Orderly
  <1> HIDE DEF r
  <1>10. CASE Becomes(q, skip)
    <2>1. StillMay(skip) \subseteq StillMay(r) /\ StillMay(skip) \subseteq Cands
      BY <1>5, <1>6, <1>7, <1>8
    <2> QED
      BY <1>1, <1>3, <1>9, <1>10, <2>1, Narrows, OrderlyElsewhere DEF r, Core
  <1>11. CASE Becomes(q, admitted)
    <2>1. StillMay(admitted) \subseteq StillMay(r) /\ StillMay(admitted) \subseteq Cands
      BY <1>5, <1>6, <1>7, <1>8
    <2> QED
      BY <1>1, <1>3, <1>9, <1>11, <2>1, Narrows, OrderlyElsewhere DEF r, Core
  <1> QED
    BY <1>2, <1>10, <1>11

LEMMA CheckLockMaps ==
    ASSUME Core, AllOrderly, NEW q \in Requests, CheckLock(q)
    PROVE  Visible /\ AllOrderly'
  <1> DEFINE r == req[q]
             todo == IF modelLock[Candidates[r.at]] = 0 THEN Append(r.todo, r.at) ELSE r.todo
             n == [r EXCEPT !.phase = "scan", !.at = 0, !.todo = todo]
  <1>1. /\ r \in RequestState /\ r.phase = "lock" /\ r.at \in Cands
        /\ r.todo \in Seq(Cands) /\ r.rest \in Seq(Cands)
    BY RequestTyped DEF CheckLock, RequestOK, RequestState
  <1>2. Becomes(q, n) /\ Orderly(r)
    BY <1>1 DEF CheckLock, Becomes, RequestState, AllOrderly
  <1>3. /\ n.phase = "scan" /\ n.rest = r.rest /\ n.todo = todo /\ n.profile = r.profile
        /\ n.fail = r.fail /\ n.err = r.err
    BY <1>1 DEF RequestState
  <1>4. Range(todo) \subseteq Range(r.todo) \cup {r.at}
    BY <1>1, RangeAppend
  <1>5. Range(r.rest) \subseteq Cands /\ Range(r.todo) \subseteq Cands
    BY <1>1 DEF Range
  <1> HIDE DEF todo, n
  <1>6. /\ StillMay(r) = Range(r.rest) \cup Range(r.todo) \cup {r.at}
        /\ StillMay(n) = Range(r.rest) \cup Range(todo)
    BY <1>1, <1>3, StillMayBeAsked
  <1>7. Orderly(n)
    BY <1>1, <1>2, <1>3 DEF Orderly
  <1>8. StillMay(n) \subseteq StillMay(r) /\ StillMay(n) \subseteq Cands
    BY <1>1, <1>4, <1>5, <1>6
  <1> QED
    BY <1>1, <1>2, <1>3, <1>7, <1>8, Narrows, OrderlyElsewhere DEF Core

\* The order is settled on what is left of the list, which the calls follow.
LEMMA OrderMaps ==
    ASSUME Core, AllOrderly, NEW q \in Requests, Order(q)
    PROVE  Visible /\ AllOrderly'
  <1> DEFINE r == req[q]
  <1>1. /\ r \in RequestState /\ r.phase = "scan" /\ r.todo \in Seq(Cands) /\ r.rest = <<>>
        /\ Orderly(r) /\ RequestsOK
    BY RequestTyped DEF Order, RequestState, AllOrderly, Core
  <1>2. PICK order : /\ order \in Seq(Cands) /\ IsInjective(order)
                     /\ Range(order) \subseteq Range(r.todo)
                     /\ Becomes(q, IF order = <<>> THEN Idle
                                   ELSE [r EXCEPT !.phase = "try", !.todo = order])
    <2>1. PICK order \in IF r.profile.routed
                         THEN SetToSeqs(Range(r.todo) \cap r.profile.granted)
                         ELSE {r.todo} :
             Becomes(q, IF order = <<>> THEN Idle
                        ELSE [r EXCEPT !.phase = "try", !.todo = order])
      BY DEF Order
    <2>2. CASE r.profile.routed
      <3>1. Range(r.todo) \cap r.profile.granted \in SUBSET Cands
        BY <1>1 DEF Range
      <3>2. order \in Seq(Cands) /\ IsInjective(order)
            /\ Range(order) = Range(r.todo) \cap r.profile.granted
        BY <2>1, <2>2, <3>1, OrdersOf, OrdersInjective, OrdersNameAll
      <3> QED
        BY <2>1, <3>2
    <2>3. CASE ~r.profile.routed
      <3>1. order = r.todo /\ IsInjective(r.todo)
        BY <1>1, <2>1, <2>3 DEF Orderly
      <3> QED
        BY <1>1, <2>1, <3>1
    <2> QED
      BY <2>2, <2>3
  <1>3. Jobs[q] = JobOf(r) /\ JobOf(r).stage = "choosing" /\ JobOf(r).may = Range(r.todo)
    <2>1. StillMay(r) = Range(r.todo)
      BY <1>1, StillMayBeAsked, RangeEmpty
    <2> QED
      BY <1>1, <1>2, <2>1, JobMoves, JobOfChoosing
  <1>4. CASE order = <<>>
    <2>1. Becomes(q, Idle)
      BY <1>2, <1>4
    <2>2. Abstract!Decline(q)
      BY <1>1, <1>3, <2>1, JobMoves, JobOfIdle DEF Abstract!Decline, Jobs
    <2> QED
      BY <1>1, <1>3, <2>1, <2>2, CallerSees, OrderlyElsewhere, AwayOrderly
  <1>5. CASE order # <<>>
    <2> DEFINE n == [r EXCEPT !.phase = "try", !.todo = order]
    <2>1. Becomes(q, n) /\ n.phase = "try" /\ n.todo = order /\ n.fail = r.fail /\ n.err = r.err
      BY <1>1, <1>2, <1>5 DEF RequestState
    <2> HIDE DEF n
    <2>2. ~(n.fail \/ n.err # "none") /\ Orderly(n)
      BY <1>1, <1>2, <2>1 DEF Orderly
    <2>3. Abstract!Moves(q, Abstract!Job("trying", Range(order), 0, FALSE))
      <3>1. JobOf(n) = InTrial(n) /\ Abstract!Moves(q, JobOf(n))
        BY <1>1, <2>1, JobOfTrying, JobMoves
      <3> QED
        BY <2>1, <2>2, <3>1 DEF InTrial
    <2>4. Range(order) # {} /\ Range(order) \in SUBSET Cands
      <3>1. 1 \in DOMAIN order /\ Range(order) \subseteq Cands
        BY <1>2, <1>5 DEF Range
      <3> QED
        BY <3>1 DEF Range
    <2>5. Abstract!Narrow(q)
      BY <1>2, <1>3, <2>3, <2>4 DEF Abstract!Narrow, Jobs
    <2> QED
      BY <1>1, <1>3, <2>1, <2>2, <2>5, CallerSees, OrderlyElsewhere
  <1> QED
    BY <1>4, <1>5

\* A request that ends: declined, given up on, or with its answer relayed.
LEMMA EndMaps ==
    ASSUME Core, AllOrderly, NEW q \in Requests, AnswerLocally(q) \/ GiveUp(q) \/ Close(q)
    PROVE  Visible /\ AllOrderly'
  <1> DEFINE r == req[q]
  <1>1. /\ Becomes(q, Idle) /\ RequestsOK
        /\ Abstract!Moves(q, Abstract!Idle) /\ Jobs[q] = JobOf(r)
    BY JobMoves, JobOfIdle DEF AnswerLocally, GiveUp, Close, Core
  <1>2. ASSUME AnswerLocally(q) PROVE Visible
    <2>1. JobOf(r).stage = "choosing"
      BY <1>2, JobOfChoosing DEF AnswerLocally
    <2>2. Abstract!Decline(q)
      BY <1>1 DEF Abstract!Decline, Jobs
    <2> QED
      BY <2>1, <2>2, CallerSees
  <1>3. ASSUME GiveUp(q) PROVE Visible
    <2>1. r.phase = "try" /\ r.todo = <<>> /\ (r.fail \/ r.err # "none")
      BY <1>3, RequestTyped DEF GiveUp, RequestOK
    <2>2. JobOf(r).stage = "trying" /\ JobOf(r).may = {} /\ JobOf(r).cause
      BY <2>1, JobOfTrying, RangeEmpty
    <2>3. Abstract!GiveUp(q)
      BY <1>1, <2>2 DEF Abstract!GiveUp, Jobs
    <2> QED
      BY <2>2, <2>3, CallerSees
  <1>4. ASSUME Close(q) PROVE Visible
    <2>1. r.phase = "body"
      BY <1>4 DEF Close
    <2>2. JobOf(r).stage = "served"
      BY <2>1, JobOfServed
    <2>3. Abstract!End(q)
      BY <1>1 DEF Abstract!End, Jobs
    <2> QED
      BY <2>2, <2>3, CallerSees
  <1> QED
    BY <1>1, <1>2, <1>3, <1>4, OrderlyElsewhere, AwayOrderly

\* The head of the list is passed over, or called.
LEMMA HeadOff ==
    ASSUME Core, AllOrderly, NEW q \in Requests, Trying(q)
    PROVE  LET r == req[q]
               c == Head(r.todo)
           IN  /\ r \in RequestState /\ r.phase = "try" /\ RequestsOK
               /\ c \in Cands /\ c \in Range(r.todo) /\ IsInjective(Tail(r.todo))
               /\ Range(Tail(r.todo)) = Range(r.todo) \ {c}
  <1> DEFINE r == req[q]
  <1>1. /\ r \in RequestState /\ r.phase = "try" /\ r.todo \in Seq(Cands) /\ r.todo # <<>>
        /\ RequestsOK
    BY RequestTyped DEF Trying, RequestState, Core
  <1>2. IsInjective(r.todo)
    BY <1>1 DEF AllOrderly, Orderly
  <1>3. Head(r.todo) \in Cands
    BY <1>1
  <1>4. Range(r.todo) = {Head(r.todo)} \cup Range(Tail(r.todo))
    BY <1>1, RangeHeadTail
  <1>5. IsInjective(Tail(r.todo)) /\ Range(Tail(r.todo)) = Range(r.todo) \ {Head(r.todo)}
    BY <1>1, <1>2, TailInjective
  <1> HIDE DEF r
  <1> QED
    BY <1>1, <1>3, <1>4, <1>5 DEF r

LEMMA SkipSmallMaps ==
    ASSUME Core, AllOrderly, NEW q \in Requests, SkipSmall(q)
    PROVE  Visible /\ AllOrderly'
  <1> DEFINE r == req[q]
             c == Head(r.todo)
             n == [r EXCEPT !.todo = Tail(r.todo), !.err = "context"]
  <1>1. /\ r \in RequestState /\ r.phase = "try" /\ RequestsOK
        /\ c \in Cands /\ c \in Range(r.todo) /\ IsInjective(Tail(r.todo))
        /\ Range(Tail(r.todo)) = Range(r.todo) \ {c}
    BY HeadOff DEF SkipSmall
  <1>2. Becomes(q, n)
    BY <1>1 DEF SkipSmall, Becomes, RequestState
  <1>3. n.phase = "try" /\ n.todo = Tail(r.todo) /\ n.err = "context"
    BY <1>1 DEF RequestState
  <1> HIDE DEF n, c
  <1>4. Orderly(n)
    BY <1>1, <1>3 DEF Orderly
  <1>5. /\ Abstract!Moves(q, InTrial(n)) /\ Jobs[q] = JobOf(r)
        /\ JobOf(r).stage = "trying" /\ JobOf(r).may = Range(r.todo)
    BY <1>1, <1>2, <1>3, JobMoves, JobOfTrying
  <1>6. InTrial(n) = Abstract!Job("trying", Range(r.todo) \ {c}, 0, TRUE)
    <2>1. (n.fail \/ n.err # "none") <=> TRUE
      BY <1>3
    <2>2. Range(n.todo) = Range(r.todo) \ {c}
      BY <1>1, <1>3
    <2> QED
      BY <2>1, <2>2 DEF InTrial
  <1>7. Abstract!PassOver(q)
    BY <1>1, <1>5, <1>6 DEF Abstract!PassOver, Jobs
  <1> QED
    BY <1>1, <1>2, <1>4, <1>5, <1>7, CallerSees, OrderlyElsewhere

LEMMA SendMaps ==
    ASSUME Core, AllOrderly, NEW q \in Requests, Send(q)
    PROVE  Visible /\ AllOrderly'
  <1> DEFINE r == req[q]
             c == Head(r.todo)
             n == [r EXCEPT !.phase = "call", !.todo = Tail(r.todo), !.at = c]
  <1>1. /\ r \in RequestState /\ r.phase = "try" /\ RequestsOK
        /\ c \in Cands /\ c \in Range(r.todo) /\ IsInjective(Tail(r.todo))
        /\ Range(Tail(r.todo)) = Range(r.todo) \ {c}
    BY HeadOff DEF Send
  <1>2. Becomes(q, n)
    BY <1>1 DEF Send, Becomes, RequestState
  <1>3. /\ n.phase = "call" /\ n.todo = Tail(r.todo) /\ n.at = c
        /\ n.fail = r.fail /\ n.err = r.err
    BY <1>1 DEF RequestState
  <1> HIDE DEF n, c
  <1>4. Orderly(n)
    BY <1>1, <1>3 DEF Orderly
  <1>5. /\ Abstract!Moves(q, Calling(n)) /\ Jobs[q] = InTrial(r) /\ JobOf(r) = InTrial(r)
        /\ JobOf(r).stage = "trying" /\ JobOf(r).may = Range(r.todo)
    <2>1. JobOf(n) = Calling(n)
      BY <1>3, JobOfCalling
    <2>2. JobOf(r) = InTrial(r) /\ JobOf(r).stage = "trying" /\ JobOf(r).may = Range(r.todo)
      BY <1>1, JobOfTrying
    <2>3. Abstract!Moves(q, JobOf(n)) /\ Jobs[q] = JobOf(r)
      BY <1>1, <1>2, JobMoves
    <2> QED
      BY <2>1, <2>2, <2>3
  <1>6. Calling(n) = Abstract!Job("calling", Range(r.todo) \ {c}, c, JobOf(r).cause)
    <2>1. JobOf(r).cause = (r.fail \/ r.err # "none")
      BY <1>5 DEF InTrial, Abstract!Job
    <2>2. Range(n.todo) = Range(r.todo) \ {c}
      BY <1>1, <1>3
    <2> QED
      BY <1>3, <2>1, <2>2 DEF Calling
  <1>7. Abstract!Call(q)
    BY <1>1, <1>5, <1>6 DEF Abstract!Call, Jobs
  <1> QED
    BY <1>1, <1>2, <1>4, <1>5, <1>7, CallerSees, OrderlyElsewhere

\* A request that waits goes on waiting: its client leaves, or a rejection is
\* recorded but not yet acted on.
LEMMA WaitMaps ==
    ASSUME Core, AllOrderly, NEW q \in Requests,
           Leave(q) \/ \E rejection \in Rejections : Reject(q, rejection)
    PROVE  Visible /\ AllOrderly'
  <1> DEFINE r == req[q]
  <1>1. r \in RequestState /\ r.phase = "call" /\ Orderly(r) /\ RequestsOK
    BY RequestTyped DEF Leave, Reject, AllOrderly, Core
  <1>2. PICK n : /\ Becomes(q, n)
                 /\ n.phase = "call" \/ (n.phase = "cool" /\ n.answer.status = "rejected")
                 /\ n.todo = r.todo /\ n.at = r.at /\ n.fail = r.fail /\ n.err = r.err
    <2>1. ASSUME NEW end, Becomes(q, [r EXCEPT !.ctx = end])
          PROVE  \E n : /\ Becomes(q, n)
                        /\ n.phase = "call" \/ (n.phase = "cool" /\ n.answer.status = "rejected")
                        /\ n.todo = r.todo /\ n.at = r.at /\ n.fail = r.fail /\ n.err = r.err
      <3> DEFINE n == [r EXCEPT !.ctx = end]
      <3>1. Becomes(q, n)
        BY <2>1
      <3>2. /\ n.phase = "call" /\ n.todo = r.todo /\ n.at = r.at
            /\ n.fail = r.fail /\ n.err = r.err
        BY <1>1 DEF RequestState
      <3> HIDE DEF n
      <3> QED
        BY <3>1, <3>2
    <2>2. ASSUME NEW rejection, Reject(q, rejection)
          PROVE  \E n : /\ Becomes(q, n)
                        /\ n.phase = "call" \/ (n.phase = "cool" /\ n.answer.status = "rejected")
                        /\ n.todo = r.todo /\ n.at = r.at /\ n.fail = r.fail /\ n.err = r.err
      <3> DEFINE answer == [status |-> "rejected", limited |-> rejection.limited,
                            kind |-> rejection.kind]
                 n == [r EXCEPT !.phase = "cool", !.answer = answer]
      <3>1. Becomes(q, n) /\ answer.status = "rejected"
        BY <2>2 DEF Reject
      <3> HIDE DEF answer
      <3>2. /\ n.phase = "cool" /\ n.answer = answer /\ n.todo = r.todo /\ n.at = r.at
            /\ n.fail = r.fail /\ n.err = r.err
        BY <1>1 DEF RequestState
      <3> HIDE DEF n
      <3> QED
        BY <3>1, <3>2
    <2> QED
      BY <2>1, <2>2 DEF Leave
  <1>3. JobOf(n) = Calling(n) /\ JobOf(r) = Calling(r)
    BY <1>1, <1>2, JobOfCalling
  <1>4. JobOf(n) = JobOf(r)
    BY <1>2, <1>3 DEF Calling
  <1>5. Orderly(n)
    BY <1>1, <1>2 DEF Orderly
  <1> QED
    BY <1>1, <1>2, <1>4, <1>5, NothingSeenOf, OrderlyElsewhere

\* The call has failed, and that is known before the next.
LEMMA FailureMaps ==
    ASSUME Core, AllOrderly, NEW q \in Requests, NEW n, Becomes(q, n),
           req[q].phase = "call" \/ (req[q].phase = "cool" /\ req[q].answer.status = "rejected"),
           n.phase = "try", n.todo = req[q].todo, n.fail \/ n.err # "none"
    PROVE  Visible /\ AllOrderly'
  <1>1. IsInjective(req[q].todo) /\ RequestsOK
    BY DEF AllOrderly, Orderly, Core
  <1>2. Orderly(n)
    BY <1>1 DEF Orderly
  <1>3. JobOf(n) = InTrial(n)
    BY JobOfTrying
  <1>4. JobOf(req[q]).stage = "calling" /\ JobOf(req[q]).may = Range(n.todo)
    BY JobOfCalling
  <1>5. Abstract!Moves(q, JobOf(n)) /\ Jobs[q] = JobOf(req[q])
    BY <1>1, JobMoves
  <1>6. InTrial(n) = Abstract!Job("trying", Range(n.todo), 0, TRUE)
    <2>1. (n.fail \/ n.err # "none") <=> TRUE
      OBVIOUS
    <2> QED
      BY <2>1 DEF InTrial
  <1>7. Abstract!Fails(q)
    BY <1>3, <1>4, <1>5, <1>6 DEF Abstract!Fails, Jobs
  <1> QED
    BY <1>1, <1>2, <1>4, <1>7, CallerSees, OrderlyElsewhere

LEMMA ErrorMaps ==
    ASSUME Core, AllOrderly, NEW q \in Requests,
           Abort(q) \/ \E kind \in TransportKinds : Break(q, kind)
    PROVE  Visible /\ AllOrderly'
  <1> DEFINE n == AfterError(q)
  <1>1. req[q] \in RequestState /\ req[q].phase = "call" /\ Becomes(q, n)
    BY RequestTyped DEF Abort, Break
  <1>2. n.phase = "try" /\ n.todo = req[q].todo /\ n.err = "transport"
    BY <1>1 DEF AfterError, RequestState
  <1> HIDE DEF n
  <1> QED
    BY <1>1, <1>2, FailureMaps

\* The answer of the one being called is relayed.
LEMMA AnswerMaps ==
    ASSUME Core, AllOrderly, NEW q \in Requests, NEW n, Becomes(q, n), Orderly(n),
           req[q].phase = "call", n.at = req[q].at,
           n.phase = "body" \/ (n.phase = "cool" /\ n.answer.status # "rejected")
    PROVE  Visible /\ AllOrderly'
  <1>1. RequestsOK
    BY DEF Core
  <1>2. JobOf(n) = Served(n)
    BY JobOfServed
  <1>3. JobOf(req[q]).stage = "calling" /\ JobOf(req[q]).with = n.at
    BY JobOfCalling
  <1>4. Abstract!Moves(q, JobOf(n)) /\ Jobs[q] = JobOf(req[q])
    BY <1>1, JobMoves
  <1>5. Abstract!Answers(q)
    BY <1>2, <1>3, <1>4 DEF Abstract!Answers, Jobs, Served
  <1> QED
    BY <1>1, <1>3, <1>5, CallerSees, OrderlyElsewhere

LEMMA AcceptMaps ==
    ASSUME Core, AllOrderly, NEW q \in Requests, NEW status \in {"ok", "not_found", "denied"},
           Accept(q, status)
    PROVE  Visible /\ AllOrderly'
  <1>1. CASE status = "ok"
    <2>1. Becomes(q, Relaying(req[q].at)) /\ req[q].phase = "call"
      BY <1>1 DEF Accept
    <2>2. Relaying(req[q].at).phase = "body" /\ Relaying(req[q].at).at = req[q].at
      BY DEF Relaying, Idle
    <2> QED
      BY <2>1, <2>2, AwayOrderly, AnswerMaps
  <1>2. CASE status # "ok"
    <2> DEFINE n == [req[q] EXCEPT !.phase = "cool", !.answer.status = status]
    <2>1. req[q] \in RequestState /\ req[q].phase = "call" /\ Becomes(q, n) /\ Orderly(req[q])
      BY <1>2, RequestTyped DEF Accept, AllOrderly
    <2>2. /\ n.phase = "cool" /\ n.todo = req[q].todo /\ n.at = req[q].at
          /\ n.answer.status = status
      BY <2>1 DEF RequestState
    <2> HIDE DEF n
    <2>3. Orderly(n) /\ n.answer.status # "rejected"
      BY <2>1, <2>2 DEF Orderly
    <2> QED
      BY <2>1, <2>2, <2>3, AnswerMaps
  <1> QED
    BY <1>1, <1>2

LEMMA CoolMaps ==
    ASSUME Core, AllOrderly, NEW q \in Requests, NEW retryAfter \in Hints, NEW reset \in Hints,
           NEW rule \in RuleCooldowns, Cool(q, retryAfter, reset, rule)
    PROVE  Visible /\ AllOrderly'
  <1> DEFINE r == req[q]
  <1>1. r \in RequestState /\ r.phase = "cool" /\ RequestsOK
    BY RequestTyped DEF Cool, Core
  <1>2. CASE r.answer.status = "rejected"
    <2> DEFINE n == [r EXCEPT !.phase = "try", !.at = 0, !.answer = NoAnswer,
                              !.err = "none", !.fail = TRUE]
    <2>1. Becomes(q, n)
      BY <1>2 DEF Cool
    <2>2. n.phase = "try" /\ n.todo = r.todo /\ n.fail
      BY <1>1 DEF RequestState
    <2> HIDE DEF n
    <2> QED
      BY <1>1, <1>2, <2>1, <2>2, FailureMaps
  <1>3. CASE r.answer.status # "rejected"
    <2> DEFINE n == Relaying(r.at)
    <2>1. Becomes(q, n)
      BY <1>3 DEF Cool
    <2>2. n.phase = "body" /\ n.at = r.at
      BY DEF Relaying, Idle
    <2>3. Orderly(n)
      BY AwayOrderly
    <2> HIDE DEF n
    <2>4. JobOf(n) = Served(n) /\ JobOf(r) = Served(r)
      BY <1>1, <1>3, <2>2, JobOfServed
    <2>5. JobOf(n) = JobOf(r)
      BY <2>2, <2>4 DEF Served
    <2> QED
      BY <1>1, <2>1, <2>3, <2>5, NothingSeenOf, OrderlyElsewhere
  <1> QED
    BY <1>2, <1>3

-----------------------------------------------------------------------------
LEMMA InitMaps == Init => Abstract!Init /\ AllOrderly
  <1> SUFFICES ASSUME Init PROVE Abstract!Init /\ AllOrderly
    OBVIOUS
  <1>1. \A q \in Requests : req[q] = Idle
    BY DEF Init
  <1> QED
    BY <1>1, JobOfIdle, AwayOrderly DEF Abstract!Init, AllOrderly

LEMMA NextMaps ==
    ASSUME Core, AllOrderly, [Next]_vars
    PROVE  Visible /\ AllOrderly'
  <1>1. CASE \E q \in Requests, profile \in Profiles : Arrive(q, profile)
    BY <1>1, ArriveMaps
  <1>2. ASSUME NEW q \in Requests, AnswerLocally(q) \/ Leave(q) \/ Proceed(q)
        PROVE  Visible /\ AllOrderly'
    <2>1. CASE AnswerLocally(q) \/ GiveUp(q) \/ Close(q)
      BY <2>1, EndMaps
    <2>2. CASE Leave(q) \/ \E rejection \in Rejections : Reject(q, rejection)
      BY <2>2, WaitMaps
    <2>3. CASE Consult(q)
      BY <2>3, ConsultMaps
    <2>4. CASE CheckLock(q)
      BY <2>4, CheckLockMaps
    <2>5. CASE Order(q)
      BY <2>5, OrderMaps
    <2>6. CASE SkipSmall(q)
      BY <2>6, SkipSmallMaps
    <2>7. CASE Send(q)
      BY <2>7, SendMaps
    <2>8. CASE Abort(q) \/ \E kind \in TransportKinds : Break(q, kind)
      BY <2>8, ErrorMaps
    <2>9. CASE \E status \in {"ok", "not_found", "denied"} : Accept(q, status)
      BY <2>9, AcceptMaps
    <2>10. CASE \E retryAfter \in Hints, reset \in Hints, rule \in RuleCooldowns :
                  Cool(q, retryAfter, reset, rule)
      BY <2>10, CoolMaps
    <2> QED
      BY <1>2, <2>1, <2>2, <2>3, <2>4, <2>5, <2>6, <2>7, <2>8, <2>9, <2>10 DEF Proceed
  <1>3. CASE Environment \/ UNCHANGED vars
    <2>1. UNCHANGED req
      BY <1>3 DEF Environment, AdminDisable, AdminEnable, HealthOK, HealthFailed, Tick, vars
    <2> QED
      BY <2>1 DEF Visible, Jobs, AllOrderly
  <1> QED
    BY <1>1, <1>2, <1>3 DEF Next

\* Whatever the breakers, locks, strategies, providers and clients do, the failover
\* is what Failover says of it: nobody is called twice, and a request ends with the
\* answer of the one it is calling, or with nobody left and a cause.
THEOREM DispatchFailsOver == Spec => FailsOver
  <1>1. Init => Abstract!Init /\ AllOrderly
    BY InitMaps
  <1>2. Core /\ AllOrderly /\ [Next]_vars => AllOrderly'
    BY NextMaps
  <1>3. Core /\ AllOrderly /\ [Next]_vars => [Abstract!Next]_Jobs
    BY NextMaps DEF Visible
  <1>4. Spec => []AllOrderly
    BY <1>1, <1>2, CoreInvariance, PTL DEF Spec
  <1> QED
    BY <1>1, <1>3, <1>4, CoreInvariance, PTL DEF Spec, FailsOver, Abstract!Spec, Jobs

-----------------------------------------------------------------------------
\* Requests end.

\* An order of candidates on a list is no longer than the list.
LEMMA OrdersShort ==
    ASSUME NEW s \in Seq(Cands), NEW S \in SUBSET Range(s), NEW order \in SetToSeqs(S)
    PROVE  Len(order) <= Len(s)
  <1> DEFINE D == 1 .. Len(s)
  <1>1. s \in [D -> Range(s)] /\ \A c \in Range(s) : \E i \in D : s[i] = c
    BY DEF Range
  <1>2. Len(s) \in Nat /\ IsFiniteSet(D) /\ Cardinality(D) = Len(s)
    <2>1. PICK k \in Nat : k = Len(s)
      OBVIOUS
    <2>2. IsFiniteSet(1 .. k) /\ Cardinality(1 .. k) = k
      BY FS_Interval
    <2> QED
      BY <2>1, <2>2
  <1>3. Range(s) \subseteq Cands
    BY DEF Range
  <1> HIDE DEF D
  <1>4. s \in Surjection(D, Range(s))
    BY <1>1 DEF Surjection
  <1>5. IsFiniteSet(Range(s)) /\ Cardinality(Range(s)) <= Len(s)
    BY <1>2, <1>4, FS_Surjection
  <1>6. Cardinality(S) <= Cardinality(Range(s)) /\ Cardinality(S) \in Nat
        /\ Cardinality(Range(s)) \in Nat
    BY <1>5, FS_Subset, FS_CardinalityType
  <1>7. order \in [1 .. Cardinality(S) -> S]
    BY DEF SetToSeqs
  <1>8. Len(order) = Cardinality(S)
    <2>1. order \in Seq(S)
      BY <1>6, <1>7
    <2> QED
      BY <1>6, <1>7, <2>1
  <1> QED
    BY <1>2, <1>5, <1>6, <1>8

LEMMA StepsLeftIs ==
    ASSUME NEW r
    PROVE  /\ r.phase = "scan" => StepsLeft(r) = 6 * Len(r.rest) + 4 * Len(r.todo) + 3
           /\ r.phase = "lock" => StepsLeft(r) = 6 * Len(r.rest) + 4 * Len(r.todo) + 8
           /\ r.phase = "try"  => StepsLeft(r) = 4 * Len(r.todo) + 2
           /\ r.phase = "cool" => StepsLeft(r) = 4 * Len(r.todo) + 3
           /\ r.phase = "call" => StepsLeft(r) = 4 * Len(r.todo) + (IF r.ctx = "live" THEN 5 ELSE 4)
  BY DEF StepsLeft

LEMMA AwaySteps ==
    ASSUME NEW r \in RequestState
    PROVE  /\ r.phase # "idle" => StepsLeft(Idle) < StepsLeft(r)
           /\ r.phase \in {"call", "cool"} => \A c : StepsLeft(Relaying(c)) < StepsLeft(r)
           /\ Len(r.rest) \in Nat /\ Len(r.todo) \in Nat
  <1>1. Len(r.rest) \in Nat /\ Len(r.todo) \in Nat
    BY DEF RequestState
  <1>2. StepsLeft(Idle) = 0 /\ \A c : StepsLeft(Relaying(c)) = 1
    BY DEF StepsLeft, Idle, Relaying
  <1>3. /\ r.phase # "idle" => StepsLeft(r) > 0
        /\ r.phase \in {"call", "cool"} => StepsLeft(r) > 1
    BY <1>1 DEF StepsLeft, RequestState
  <1> QED
    BY <1>1, <1>2, <1>3

\* A step of request q that brings it nearer to its end.
Nears(q) == \E n : Becomes(q, n) /\ StepsLeft(n) < StepsLeft(req[q])

LEMMA PrepareNears ==
    ASSUME Core, NEW q \in Requests, Consult(q) \/ CheckLock(q) \/ Order(q)
    PROVE  Nears(q)
  <1> DEFINE r == req[q]
  <1>1. /\ r \in RequestState /\ r.rest \in Seq(Cands) /\ r.todo \in Seq(Cands)
        /\ Len(r.rest) \in Nat /\ Len(r.todo) \in Nat
    BY RequestTyped, AwaySteps DEF RequestState
  <1>2. CASE Consult(q)
    <2> DEFINE c == Head(r.rest)
               skip == [r EXCEPT !.rest = Tail(@)]
               admitted == [skip EXCEPT !.phase = "lock", !.at = c]
    <2>1. r.phase = "scan" /\ r.rest # <<>> /\ (Becomes(q, skip) \/ Becomes(q, admitted))
      BY <1>2 DEF Consult
    <2>2. Len(Tail(r.rest)) = Len(r.rest) - 1
      BY <1>1, <2>1
    <2>3. /\ skip.phase = "scan" /\ skip.rest = Tail(r.rest) /\ skip.todo = r.todo
          /\ admitted.phase = "lock" /\ admitted.rest = Tail(r.rest) /\ admitted.todo = r.todo
      BY <1>1, <2>1 DEF RequestState
    <2> HIDE DEF c, skip, admitted
    <2>4. StepsLeft(skip) < StepsLeft(r) /\ StepsLeft(admitted) < StepsLeft(r)
      <3>1. PICK a \in Nat, b \in Nat : a = Len(r.rest) /\ b = Len(r.todo)
        BY <1>1
      <3>2. Len(skip.rest) = a - 1 /\ Len(admitted.rest) = a - 1
            /\ Len(skip.todo) = b /\ Len(admitted.todo) = b
        BY <2>2, <2>3, <3>1
      <3>3. /\ StepsLeft(r) = 6 * a + 4 * b + 3
            /\ StepsLeft(skip) = 6 * (a - 1) + 4 * b + 3
            /\ StepsLeft(admitted) = 6 * (a - 1) + 4 * b + 8
        BY <2>1, <2>3, <3>1, <3>2, StepsLeftIs
      <3> QED
        BY <3>3
    <2> QED
      BY <2>1, <2>4 DEF Nears
  <1>3. CASE CheckLock(q)
    <2> DEFINE todo == IF modelLock[Candidates[r.at]] = 0 THEN Append(r.todo, r.at) ELSE r.todo
               n == [r EXCEPT !.phase = "scan", !.at = 0, !.todo = todo]
    <2>1. r.phase = "lock" /\ r.at \in Cands /\ Becomes(q, n)
      BY <1>1, <1>3, RequestTyped DEF CheckLock, Becomes, RequestState, RequestOK
    <2>2. Len(todo) \in Nat /\ Len(todo) <= Len(r.todo) + 1
      BY <1>1, <2>1
    <2>3. n.phase = "scan" /\ n.rest = r.rest /\ n.todo = todo
      BY <1>1 DEF RequestState
    <2> HIDE DEF todo, n
    <2>4. StepsLeft(n) < StepsLeft(r)
      <3>1. PICK a \in Nat, b \in Nat, d \in Nat :
                a = Len(r.rest) /\ b = Len(r.todo) /\ d = Len(todo)
        BY <1>1, <2>2
      <3>2. StepsLeft(r) = 6 * a + 4 * b + 8 /\ StepsLeft(n) = 6 * a + 4 * d + 3 /\ d <= b + 1
        BY <2>1, <2>2, <2>3, <3>1, StepsLeftIs
      <3> QED
        BY <3>2
    <2> QED
      BY <2>1, <2>4 DEF Nears
  <1>4. CASE Order(q)
    <2>1. r.phase = "scan"
      BY <1>4 DEF Order
    <2>2. PICK order \in IF r.profile.routed
                         THEN SetToSeqs(Range(r.todo) \cap r.profile.granted)
                         ELSE {r.todo} :
             Becomes(q, IF order = <<>> THEN Idle
                        ELSE [r EXCEPT !.phase = "try", !.todo = order])
      BY <1>4 DEF Order
    <2>3. Len(order) <= Len(r.todo) /\ Len(order) \in Nat
      <3>1. CASE r.profile.routed
        <4>1. /\ Range(r.todo) \cap r.profile.granted \in SUBSET Range(r.todo)
              /\ Range(r.todo) \cap r.profile.granted \in SUBSET Cands
          BY <1>1 DEF Range
        <4>2. order \in Seq(Cands) /\ Len(order) <= Len(r.todo)
          BY <1>1, <2>2, <3>1, <4>1, OrdersShort, OrdersOf
        <4> QED
          BY <4>2
      <3>2. CASE ~r.profile.routed
        BY <1>1, <2>2, <3>2
      <3> QED
        BY <3>1, <3>2
    <2> DEFINE n == [r EXCEPT !.phase = "try", !.todo = order]
    <2>4. n.phase = "try" /\ n.todo = order
      BY <1>1 DEF RequestState
    <2>5. Becomes(q, Idle) \/ Becomes(q, n)
      BY <2>2
    <2> HIDE DEF n
    <2>6. StepsLeft(n) < StepsLeft(r)
      <3>1. PICK a \in Nat, b \in Nat, d \in Nat :
                a = Len(r.rest) /\ b = Len(r.todo) /\ d = Len(order)
        BY <1>1, <2>3
      <3>2. StepsLeft(r) = 6 * a + 4 * b + 3 /\ StepsLeft(n) = 4 * d + 2 /\ d <= b
        BY <2>1, <2>3, <2>4, <3>1, StepsLeftIs
      <3> QED
        BY <3>2
    <2> QED
      BY <1>1, <2>1, <2>5, <2>6, AwaySteps DEF Nears
  <1> QED
    BY <1>2, <1>3, <1>4

LEMMA TryNears ==
    ASSUME Core, NEW q \in Requests, SkipSmall(q) \/ Send(q)
    PROVE  Nears(q)
  <1> DEFINE r == req[q]
  <1>1. /\ r \in RequestState /\ r.phase = "try" /\ r.todo \in Seq(Cands) /\ r.todo # <<>>
        /\ Len(r.todo) \in Nat
    BY RequestTyped, AwaySteps DEF SkipSmall, Send, Trying, RequestState
  <1>2. Len(Tail(r.todo)) = Len(r.todo) - 1
    BY <1>1
  <1>3. PICK n : /\ Becomes(q, n) /\ n.phase \in {"try", "call"} /\ n.todo = Tail(r.todo)
    <2> DEFINE small == [r EXCEPT !.todo = Tail(r.todo), !.err = "context"]
               sent == [r EXCEPT !.phase = "call", !.todo = Tail(r.todo), !.at = Head(r.todo)]
    <2>1. Becomes(q, small) \/ Becomes(q, sent)
      BY <1>1 DEF SkipSmall, Send, Becomes, RequestState
    <2>2. /\ small.phase = "try" /\ small.todo = Tail(r.todo)
          /\ sent.phase = "call" /\ sent.todo = Tail(r.todo)
      BY <1>1 DEF RequestState
    <2> HIDE DEF small, sent
    <2> QED
      BY <2>1, <2>2
  <1>4. StepsLeft(n) < StepsLeft(r)
    <2>1. PICK b \in Nat : b = Len(r.todo) /\ b - 1 = Len(n.todo)
      BY <1>1, <1>2, <1>3
    <2>2. /\ StepsLeft(r) = 4 * b + 2
          /\ \/ StepsLeft(n) = 4 * (b - 1) + 2
             \/ StepsLeft(n) = 4 * (b - 1) + 5
             \/ StepsLeft(n) = 4 * (b - 1) + 4
      BY <1>1, <1>3, <2>1, StepsLeftIs
    <2> QED
      BY <2>2
  <1> QED
    BY <1>3, <1>4 DEF Nears

\* An attempt that comes to something, with the list as it was.
LEMMA AttemptSteps ==
    ASSUME NEW r, NEW n, n.todo = r.todo, Len(r.todo) \in Nat,
           \/ r.phase \in {"call", "cool"} /\ n.phase = "try"
           \/ r.phase = "call" /\ r.ctx = "live" /\ n.phase = "cool"
           \/ r.phase = "call" /\ r.ctx = "live" /\ n.phase = "call" /\ n.ctx # "live"
    PROVE  StepsLeft(n) < StepsLeft(r)
  <1>1. PICK b \in Nat : b = Len(r.todo) /\ b = Len(n.todo)
    OBVIOUS
  <1>2. /\ n.phase = "try" => StepsLeft(n) = 4 * b + 2
        /\ n.phase = "cool" => StepsLeft(n) = 4 * b + 3
        /\ n.phase = "call" /\ n.ctx # "live" => StepsLeft(n) = 4 * b + 4
    BY <1>1, StepsLeftIs
  <1>3. /\ r.phase = "cool" => StepsLeft(r) = 4 * b + 3
        /\ r.phase = "call" /\ r.ctx = "live" => StepsLeft(r) = 4 * b + 5
        /\ r.phase = "call" /\ r.ctx # "live" => StepsLeft(r) = 4 * b + 4
    BY <1>1, StepsLeftIs
  <1> QED
    BY <1>2, <1>3

\* The attempt under way: its client leaves, or it ends.
LEMMA AttemptNears ==
    ASSUME Core, NEW q \in Requests,
           \/ Leave(q) \/ Abort(q) \/ \E kind \in TransportKinds : Break(q, kind)
           \/ \E rejection \in Rejections : Reject(q, rejection)
           \/ \E status \in {"ok", "not_found", "denied"} : Accept(q, status)
    PROVE  Nears(q)
  <1> DEFINE r == req[q]
  <1>1. r \in RequestState /\ r.phase = "call" /\ Len(r.todo) \in Nat
    BY RequestTyped, AwaySteps DEF Leave, Abort, Break, Reject, Accept
  <1>2. CASE Leave(q)
    <2>1. PICK end \in {"canceled", "expired"} :
            r.ctx = "live" /\ Becomes(q, [r EXCEPT !.ctx = end])
      BY <1>2 DEF Leave
    <2> DEFINE n == [r EXCEPT !.ctx = end]
    <2>2. n.phase = "call" /\ n.todo = r.todo /\ n.ctx = end
      BY <1>1 DEF RequestState
    <2>3. Becomes(q, n)
      BY <2>1
    <2> HIDE DEF n
    <2>4. StepsLeft(n) < StepsLeft(r)
      BY <1>1, <2>1, <2>2, AttemptSteps
    <2> QED
      BY <2>3, <2>4 DEF Nears
  <1>3. CASE Abort(q) \/ \E kind \in TransportKinds : Break(q, kind)
    <2> DEFINE n == AfterError(q)
    <2>1. Becomes(q, n)
      BY <1>3 DEF Abort, Break
    <2>2. n.phase = "try" /\ n.todo = r.todo
      BY <1>1 DEF AfterError, RequestState
    <2> HIDE DEF n
    <2>3. StepsLeft(n) < StepsLeft(r)
      BY <1>1, <2>2, AttemptSteps
    <2> QED
      BY <2>1, <2>3 DEF Nears
  <1>4. ASSUME NEW rejection \in Rejections, Reject(q, rejection) PROVE Nears(q)
    <2> DEFINE n == [r EXCEPT !.phase = "cool",
                         !.answer = [status |-> "rejected", limited |-> rejection.limited,
                                     kind |-> rejection.kind]]
    <2>1. Becomes(q, n) /\ r.ctx = "live"
      BY <1>4 DEF Reject
    <2>2. n.phase = "cool" /\ n.todo = r.todo
      BY <1>1 DEF RequestState
    <2> HIDE DEF n
    <2>3. StepsLeft(n) < StepsLeft(r)
      BY <1>1, <2>1, <2>2, AttemptSteps
    <2> QED
      BY <2>1, <2>3 DEF Nears
  <1>5. ASSUME NEW status \in {"ok", "not_found", "denied"}, Accept(q, status) PROVE Nears(q)
    <2> DEFINE n == [r EXCEPT !.phase = "cool", !.answer.status = status]
    <2>1. (Becomes(q, Relaying(r.at)) \/ Becomes(q, n)) /\ r.ctx = "live"
      BY <1>5 DEF Accept
    <2>2. n.phase = "cool" /\ n.todo = r.todo
      BY <1>1 DEF RequestState
    <2> HIDE DEF n
    <2>3. StepsLeft(n) < StepsLeft(r)
      BY <1>1, <2>1, <2>2, AttemptSteps
    <2>4. StepsLeft(Relaying(r.at)) < StepsLeft(r)
      BY <1>1, AwaySteps
    <2> QED
      BY <2>1, <2>3, <2>4 DEF Nears
  <1> QED
    BY <1>2, <1>3, <1>4, <1>5

LEMMA CoolNears ==
    ASSUME Core, NEW q \in Requests, NEW retryAfter \in Hints, NEW reset \in Hints,
           NEW rule \in RuleCooldowns, Cool(q, retryAfter, reset, rule)
    PROVE  Nears(q)
  <1> DEFINE r == req[q]
             n == [r EXCEPT !.phase = "try", !.at = 0, !.answer = NoAnswer,
                            !.err = "none", !.fail = TRUE]
  <1>1. r \in RequestState /\ r.phase = "cool" /\ Len(r.todo) \in Nat
    BY RequestTyped, AwaySteps DEF Cool
  <1>2. Becomes(q, n) \/ Becomes(q, Relaying(r.at))
    BY DEF Cool
  <1>3. n.phase = "try" /\ n.todo = r.todo
    BY <1>1 DEF RequestState
  <1> HIDE DEF n
  <1>4. StepsLeft(n) < StepsLeft(r)
    BY <1>1, <1>3, AttemptSteps
  <1>5. StepsLeft(Relaying(r.at)) < StepsLeft(r)
    BY <1>1, AwaySteps
  <1> QED
    BY <1>2, <1>4, <1>5 DEF Nears

LEMMA EndNears ==
    ASSUME Core, NEW q \in Requests, AnswerLocally(q) \/ GiveUp(q) \/ Close(q)
    PROVE  Nears(q)
  <1>1. req[q] \in RequestState /\ req[q].phase # "idle" /\ Becomes(q, Idle)
    BY RequestTyped DEF AnswerLocally, GiveUp, Close
  <1> QED
    BY <1>1, AwaySteps DEF Nears

\* Every step of a request brings it nearer to its end and nobody else's sets it back:
\* from its arrival it takes six steps at most for every candidate of its route and
\* four for each that it tries.
THEOREM DispatchStepsRunOut == Spec => StepsRunOut
  <1> DEFINE A == \A q \in Requests : (req[q].phase # "idle" /\ req'[q] # req[q]) =>
                      StepsLeft(req'[q]) < StepsLeft(req[q])
  <1>1. Core /\ [Next]_vars => [A]_vars
    <2> SUFFICES ASSUME Core, Next, NEW q \in Requests, req[q].phase # "idle",
                        req'[q] # req[q]
                 PROVE  StepsLeft(req'[q]) < StepsLeft(req[q])
      OBVIOUS
    <2>1. ASSUME NEW o \in Requests, NEW n, Becomes(o, n) PROVE o = q /\ req'[q] = n
      BY <2>1 DEF Becomes, Core, RequestsOK
    <2>2. ASSUME Nears(q) PROVE StepsLeft(req'[q]) < StepsLeft(req[q])
      BY <2>1, <2>2 DEF Nears
    <2>3. ~Environment
      BY DEF Environment, AdminDisable, AdminEnable, HealthOK, HealthFailed, Tick
    <2>4. ASSUME NEW o \in Requests, NEW profile \in Profiles, Arrive(o, profile) PROVE FALSE
      <3>1. o = q
        BY <2>1, <2>4 DEF Arrive
      <3> QED
        BY <2>4, <3>1 DEF Arrive
    <2>5. PICK o \in Requests : AnswerLocally(o) \/ Leave(o) \/ Proceed(o)
      BY <2>3, <2>4 DEF Next
    <2>6. Nears(o)
      <3>1. CASE Consult(o) \/ CheckLock(o) \/ Order(o)
        BY <3>1, PrepareNears
      <3>2. CASE SkipSmall(o) \/ Send(o)
        BY <3>2, TryNears
      <3>3. CASE \/ Leave(o) \/ Abort(o) \/ \E kind \in TransportKinds : Break(o, kind)
                 \/ \E rejection \in Rejections : Reject(o, rejection)
                 \/ \E status \in {"ok", "not_found", "denied"} : Accept(o, status)
        BY <3>3, AttemptNears
      <3>4. CASE \E retryAfter \in Hints, reset \in Hints, rule \in RuleCooldowns :
                    Cool(o, retryAfter, reset, rule)
        BY <3>4, CoolNears
      <3>5. CASE AnswerLocally(o) \/ GiveUp(o) \/ Close(o)
        BY <3>5, EndNears
      <3> QED
        BY <2>5, <3>1, <3>2, <3>3, <3>4, <3>5 DEF Proceed
    <2>7. o = q
      BY <2>1, <2>6 DEF Nears
    <2> QED
      BY <2>2, <2>6, <2>7
  <1> QED
    BY <1>1, CoreInvariance, PTL DEF Spec, StepsRunOut
=============================================================================
