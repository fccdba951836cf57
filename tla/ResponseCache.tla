--------------------------- MODULE ResponseCache ---------------------------
(***************************************************************************)
(* internal/server/cache.go: a concurrent map of answers and, apart from   *)
(* it, a counter of them.  Each operator is one atomic operation on the    *)
(* two; get and store are sequences of them.                               *)
(***************************************************************************)
EXTENDS Integers, FiniteSets, Functions

CONSTANTS
    CacheKeys,
    CacheCap,   \* cacheCap
    TTL         \* how long an answer is served

ASSUME CacheAssumption == IsFiniteSet(CacheKeys) /\ CacheCap \in Nat \ {0} /\ TTL \in Nat

NewCache == [age |-> [k \in {} |-> 0], n |-> 0]

IsCache(cache) ==
    /\ DOMAIN cache.age \subseteq CacheKeys /\ \A k \in DOMAIN cache.age : cache.age[k] \in 0 .. TTL + 1
    /\ cache.n \in Int

Stored(cache) == DOMAIN cache.age

Fresh(cache, k) == k \in Stored(cache) /\ cache.age[k] <= TTL
Expired(cache, k) == k \in Stored(cache) /\ cache.age[k] > TTL

Delete(cache, k) == [cache EXCEPT !.age = Restrict(@, DOMAIN @ \ {k})]

\* A variant that deletes without counting.
Uncount_Never(cache) == cache

Uncount(cache) == [cache EXCEPT !.n = @ - 1]

Count(cache) == [cache EXCEPT !.n = @ + 1]

\* LoadOrStore, where nothing is stored.
Put(cache, k) == [cache EXCEPT !.age = [j \in DOMAIN @ \cup {k} |-> IF j = k THEN 0 ELSE @[j]]]

Aged(cache) == [cache EXCEPT !.age = [k \in DOMAIN @ |-> IF @[k] > TTL THEN @[k] ELSE @[k] + 1]]
=============================================================================
