------------------------------ MODULE KeyPool ------------------------------
(***************************************************************************)
(* internal/provider/keypool.go: the API keys of one provider, as a record *)
(* of where the scan starts, how long each key still rests and the         *)
(* requests in its tumbling window.  A key is a position in `keys', the    *)
(* pool of a provider without keys is empty, and NoKey needs none.         *)
(***************************************************************************)
EXTENDS Naturals, SequencesExt

CONSTANTS
    NoKey,
    KeyCooldown,    \* how long a key rests after a 401 or 429
    KeyWindow       \* how long requests are counted together

ASSUME KeyPoolAssumption ==
    KeyCooldown \in Nat \ {0} /\ KeyWindow \in Nat \ {0} /\ NoKey \notin Nat \ {0}

Use == [left : 0 .. KeyWindow, reqs : Nat]

IsPool(pool, n) ==
    \E used \in SUBSET (1 .. n) :
        pool \in [next : 0 .. n, cool : [1 .. n -> 0 .. KeyCooldown], use : [used -> Use]]

NewKeyPool(n) == [next |-> 0, cool |-> [k \in 1 .. n |-> 0], use |-> [k \in {} |-> 0]]

KeysOf(pool) == DOMAIN pool.cool

Resting(pool, k) == pool.cool[k] > 0

Available(pool) == KeysOf(pool) = {} \/ \E k \in KeysOf(pool) : ~Resting(pool, k)

Refreshed(use) == IF use.left = 0 THEN [left |-> KeyWindow, reqs |-> 0] ELSE use

WindowReqs(pool, k) == IF k \in DOMAIN pool.use THEN Refreshed(pool.use[k]).reqs ELSE 0

\* How far the round-robin scan, which starts after key `next', is from key k.
Distance(pool, k) ==
    IF k > pool.next THEN k - pool.next ELSE k - pool.next + Cardinality(KeysOf(pool))

\* The least used key that does not rest, the first the scan meets among equals.
Pick(pool) ==
    IF KeysOf(pool) = {} THEN NoKey
    ELSE CHOOSE k \in KeysOf(pool) :
            /\ ~Resting(pool, k)
            /\ \A j \in KeysOf(pool) \ {k} :
                  \/ Resting(pool, j)
                  \/ WindowReqs(pool, k) < WindowReqs(pool, j)
                  \/ /\ WindowReqs(pool, k) = WindowReqs(pool, j)
                     /\ Distance(pool, k) <= Distance(pool, j)

\* The scan moves on, and windows that have passed begin anew.
Picked(pool) ==
    IF KeysOf(pool) = {} THEN pool
    ELSE [pool EXCEPT !.next = Pick(pool),
                      !.use = [k \in DOMAIN @ |-> IF Resting(pool, k) THEN @[k] ELSE Refreshed(@[k])]]

\* A variant that takes a success for the end of the rest.
RecordUse_Revives(pool, k) ==
    IF k = NoKey THEN pool ELSE [pool EXCEPT !.cool[k] = 0]

Counted(use) == [use EXCEPT !.reqs = @ + 1]

RecordUse(pool, k) ==
    IF k = NoKey THEN pool
    ELSE LET before == IF k \in DOMAIN pool.use THEN Refreshed(pool.use[k])
                       ELSE [left |-> KeyWindow, reqs |-> 0]
         IN  [pool EXCEPT !.use = [j \in DOMAIN @ \cup {k} |->
                 IF j = k THEN Counted(before) ELSE @[j]]]

Cool(pool, k) == IF k = NoKey THEN pool ELSE [pool EXCEPT !.cool[k] = KeyCooldown]

Less(n) == IF n = 0 THEN 0 ELSE n - 1

Aged(use) == [use EXCEPT !.left = Less(@)]

PassTime(pool) ==
    [pool EXCEPT !.cool = [k \in DOMAIN @ |-> Less(@[k])],
                 !.use = [k \in DOMAIN @ |-> Aged(@[k])]]
=============================================================================
