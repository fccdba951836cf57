---------------------------- MODULE FusionProofs ----------------------------
(***************************************************************************)
(* What holds of races, panels and key pools for any candidates, providers *)
(* and keys, any timers and any order of answers.                          *)
(***************************************************************************)
EXTENDS Fusion, FiniteSetTheorems, WellFoundedInduction, SequenceTheorems, TLAPS

-----------------------------------------------------------------------------
(* The keys of one provider                                                *)

KeyUses(n) == UNION {[K -> Use] : K \in SUBSET (1 .. n)}

LEMMA PoolFields ==
    ASSUME NEW n \in Nat, NEW pool, IsPool(pool, n)
    PROVE  /\ pool.next \in 0 .. n
           /\ pool.cool \in [1 .. n -> 0 .. KeyCooldown]
           /\ KeysOf(pool) = 1 .. n
           /\ pool.use \in KeyUses(n)
           /\ DOMAIN pool.use \in SUBSET (1 .. n)
           /\ pool.use \in [DOMAIN pool.use -> Use]
           /\ pool = [next |-> pool.next, cool |-> pool.cool, use |-> pool.use]
  <1> DEFINE C == [1 .. n -> 0 .. KeyCooldown]
  <1>1. PICK K \in SUBSET (1 .. n) : pool \in [next : 0 .. n, cool : C, use : [K -> Use]]
    BY DEF IsPool
  <1> DEFINE U == [K -> Use]
  <1>2. pool \in [next : 0 .. n, cool : C, use : U]
    BY <1>1
  <1> HIDE DEF U, C
  <1>3. /\ pool.next \in 0 .. n /\ pool.cool \in C /\ pool.use \in U
        /\ pool = [next |-> pool.next, cool |-> pool.cool, use |-> pool.use]
    BY <1>2
  <1>4. pool.cool \in [1 .. n -> 0 .. KeyCooldown] /\ pool.use \in [K -> Use]
    BY <1>3 DEF C, U
  <1> QED
    BY <1>3, <1>4 DEF KeyUses, KeysOf

LEMMA UsesOf ==
    ASSUME NEW n \in Nat, NEW K \in SUBSET (1 .. n), NEW use \in [K -> Use]
    PROVE  use \in KeyUses(n)
  BY DEF KeyUses

LEMMA FieldsPool ==
    ASSUME NEW n \in Nat, NEW next \in 0 .. n, NEW cool \in [1 .. n -> 0 .. KeyCooldown],
           NEW use \in KeyUses(n), NEW pool,
           pool = [next |-> next, cool |-> cool, use |-> use]
    PROVE  IsPool(pool, n) /\ pool.cool = cool
  <1>1. PICK K \in SUBSET (1 .. n) : use \in [K -> Use]
    BY DEF KeyUses
  <1> DEFINE U == [K -> Use]
             C == [1 .. n -> 0 .. KeyCooldown]
  <1>2. use \in U /\ cool \in C
    BY <1>1
  <1> HIDE DEF U, C
  <1>3. pool \in [next : 0 .. n, cool : C, use : U] /\ pool.cool = cool
    BY <1>2
  <1> QED
    BY <1>3 DEF U, C, IsPool

LEMMA NewPool ==
    ASSUME NEW n \in Nat
    PROVE  IsPool(NewKeyPool(n), n) /\ NewKeyPool(n).cool = [k \in 1 .. n |-> 0]
  <1> DEFINE cool == [k \in 1 .. n |-> 0]
             use == [k \in {} |-> 0]
  <1>1. cool \in [1 .. n -> 0 .. KeyCooldown]
    BY KeyPoolAssumption
  <1>2. use \in KeyUses(n)
    <2>1. use \in [{} -> Use] /\ {} \in SUBSET (1 .. n)
      OBVIOUS
    <2> QED
      BY <2>1, UsesOf
  <1>3. NewKeyPool(n) = [next |-> 0, cool |-> cool, use |-> use] /\ 0 \in 0 .. n
    BY DEF NewKeyPool
  <1> HIDE DEF cool, use
  <1>4. IsPool(NewKeyPool(n), n) /\ NewKeyPool(n).cool = cool
    BY <1>1, <1>2, <1>3, FieldsPool
  <1> QED
    BY <1>4 DEF cool

LEMMA RefreshedUse ==
    ASSUME NEW use \in Use
    PROVE  Refreshed(use) \in Use /\ Counted(use) \in Use /\ Aged(use) \in Use
  BY KeyPoolAssumption DEF Refreshed, Counted, Aged, Use, Less

\* A finite measure has a least element.
LEMMA Least ==
    ASSUME NEW S \in SUBSET Nat, S # {}
    PROVE  \E x \in S : \A y \in S : x <= y
  <1> DEFINE R == OpToRel(<, Nat)
  <1>1. IsWellFoundedOn(R, Nat)
    BY NatLessThanWellFounded
  <1>2. \A x, y \in Nat : y < x => <<y, x>> \in R
    BY DEF OpToRel
  <1> HIDE DEF R
  <1>3. PICK x \in S : \A y \in S : <<y, x>> \notin R
    BY <1>1, WFMin
  <1>4. ASSUME NEW y \in S PROVE x <= y
    <2>1. x \in Nat /\ y \in Nat /\ ~(y < x)
      BY <1>2, <1>3
    <2> QED
      BY <2>1
  <1> QED
    BY <1>4

LEMMA ReqsNat ==
    ASSUME NEW n \in Nat, NEW pool, IsPool(pool, n), NEW k
    PROVE  WindowReqs(pool, k) \in Nat
  <1>1. CASE k \in DOMAIN pool.use
    <2>1. pool.use[k] \in Use
      BY <1>1, PoolFields
    <2>2. Refreshed(pool.use[k]) \in Use
      BY <2>1, RefreshedUse
    <2> QED
      BY <1>1, <2>2 DEF WindowReqs, Use
  <1>2. CASE k \notin DOMAIN pool.use
    BY <1>2 DEF WindowReqs
  <1> QED
    BY <1>1, <1>2

LEMMA DistanceNat ==
    ASSUME NEW n \in Nat, NEW pool, IsPool(pool, n), NEW k \in 1 .. n
    PROVE  Distance(pool, k) \in Nat
  <1>1. Cardinality(KeysOf(pool)) = n /\ pool.next \in 0 .. n
    <2>1. KeysOf(pool) = 1 .. n /\ pool.next \in 0 .. n
      BY PoolFields
    <2>2. Cardinality(1 .. n) = n
      BY FS_Interval
    <2> QED
      BY <2>1, <2>2
  <1>2. Distance(pool, k) = IF k > pool.next THEN k - pool.next ELSE k - pool.next + n
    BY <1>1 DEF Distance
  <1> QED
    BY <1>1, <1>2

\* The key that is picked does not rest.
LEMMA PickFacts ==
    ASSUME NEW n \in Nat, NEW pool, IsPool(pool, n), Available(pool)
    PROVE  /\ n = 0 => Pick(pool) = NoKey
           /\ n > 0 => Pick(pool) \in 1 .. n /\ pool.cool[Pick(pool)] = 0
  <1>1. KeysOf(pool) = 1 .. n /\ pool.cool \in [1 .. n -> 0 .. KeyCooldown]
    BY PoolFields
  <1>2. CASE n = 0
    BY <1>1, <1>2 DEF Pick
  <1>3. CASE n > 0
    <2> DEFINE A == {k \in 1 .. n : ~Resting(pool, k)}
               B == {WindowReqs(pool, k) : k \in A}
    <2>1. A # {} /\ B # {}
      BY <1>1, <1>3 DEF Available
    <2>2. B \in SUBSET Nat
      BY ReqsNat
    <2>3. PICK r \in B : \A s \in B : r <= s
      BY <2>1, <2>2, Least
    <2> DEFINE E == {k \in A : WindowReqs(pool, k) = r}
               D == {Distance(pool, k) : k \in E}
    <2>4. E # {} /\ D # {}
      BY <2>3
    <2>5. D \in SUBSET Nat
      BY DistanceNat
    <2>6. PICK d \in D : \A e \in D : d <= e
      BY <2>4, <2>5, Least
    <2>7. PICK k \in E : Distance(pool, k) = d
      BY <2>6
    <2>8. ASSUME NEW j \in KeysOf(pool) \ {k}, ~Resting(pool, j)
          PROVE  \/ WindowReqs(pool, k) < WindowReqs(pool, j)
                 \/ /\ WindowReqs(pool, k) = WindowReqs(pool, j)
                    /\ Distance(pool, k) <= Distance(pool, j)
      <3>1. j \in A /\ WindowReqs(pool, j) \in B /\ r <= WindowReqs(pool, j)
        BY <1>1, <2>3, <2>8
      <3>2. WindowReqs(pool, j) \in Nat /\ r \in Nat /\ WindowReqs(pool, k) = r
        BY <2>2, <3>1
      <3>3. CASE WindowReqs(pool, j) = r
        BY <2>6, <2>7, <3>1, <3>2, <3>3
      <3>4. CASE WindowReqs(pool, j) # r
        BY <3>1, <3>2, <3>4
      <3> QED
        BY <3>3, <3>4
    <2>9. k \in KeysOf(pool) /\ ~Resting(pool, k)
      BY <1>1, <2>7
    <2> HIDE DEF A, B, D, E
    <2>10. Pick(pool) \in KeysOf(pool) /\ ~Resting(pool, Pick(pool))
      BY <1>1, <1>3, <2>8, <2>9 DEF Pick
    <2> QED
      BY <1>1, <1>3, <2>10, KeyPoolAssumption DEF Resting
  <1> QED
    BY <1>2, <1>3

LEMMA PickedPool ==
    ASSUME NEW n \in Nat, NEW pool, IsPool(pool, n), Available(pool)
    PROVE  IsPool(Picked(pool), n) /\ Picked(pool).cool = pool.cool
  <1>1. /\ KeysOf(pool) = 1 .. n /\ DOMAIN pool.use \in SUBSET (1 .. n)
        /\ pool.use \in [DOMAIN pool.use -> Use]
        /\ pool.cool \in [1 .. n -> 0 .. KeyCooldown]
        /\ pool = [next |-> pool.next, cool |-> pool.cool, use |-> pool.use]
    BY PoolFields
  <1>2. CASE n = 0
    BY <1>1, <1>2 DEF Picked
  <1>3. CASE n > 0
    <2> DEFINE use == [k \in DOMAIN pool.use |->
                          IF Resting(pool, k) THEN pool.use[k] ELSE Refreshed(pool.use[k])]
    <2>1. use \in [DOMAIN pool.use -> Use]
      BY <1>1, RefreshedUse
    <2>2. Pick(pool) \in 0 .. n
      BY <1>3, PickFacts
    <2>3. Picked(pool) = [pool EXCEPT !.next = Pick(pool), !.use = use]
      BY <1>1, <1>3 DEF Picked
    <2> HIDE DEF use
    <2>4. use \in KeyUses(n)
      BY <1>1, <2>1, UsesOf
    <2>5. Picked(pool) = [next |-> Pick(pool), cool |-> pool.cool, use |-> use]
      BY <1>1, <2>3
    <2> QED
      BY <1>1, <2>2, <2>4, <2>5, FieldsPool
  <1> QED
    BY <1>2, <1>3

LEMMA RecordedPool ==
    ASSUME NEW n \in Nat, NEW pool, IsPool(pool, n), NEW k, k # NoKey => k \in 1 .. n
    PROVE  IsPool(RecordUse(pool, k), n) /\ RecordUse(pool, k).cool = pool.cool
  <1>1. /\ pool.next \in 0 .. n /\ DOMAIN pool.use \in SUBSET (1 .. n)
        /\ pool.use \in [DOMAIN pool.use -> Use]
        /\ pool.cool \in [1 .. n -> 0 .. KeyCooldown]
        /\ pool = [next |-> pool.next, cool |-> pool.cool, use |-> pool.use]
    BY PoolFields
  <1>2. CASE k # NoKey
    <2> DEFINE before == IF k \in DOMAIN pool.use THEN Refreshed(pool.use[k])
                         ELSE [left |-> KeyWindow, reqs |-> 0]
               use == [j \in DOMAIN pool.use \cup {k} |->
                          IF j = k THEN Counted(before) ELSE pool.use[j]]
    <2>1. before \in Use
      <3>1. [left |-> KeyWindow, reqs |-> 0] \in Use
        BY KeyPoolAssumption DEF Use
      <3> QED
        BY <1>1, <3>1, RefreshedUse
    <2>2. RecordUse(pool, k) = [pool EXCEPT !.use = use]
      BY <1>2 DEF RecordUse
    <2> HIDE DEF before
    <2>3. DOMAIN pool.use \cup {k} \in SUBSET (1 .. n) /\ use \in [DOMAIN pool.use \cup {k} -> Use]
      BY <1>1, <1>2, <2>1, RefreshedUse
    <2> HIDE DEF use
    <2>4. use \in KeyUses(n)
      BY <2>3, UsesOf
    <2>5. RecordUse(pool, k) = [next |-> pool.next, cool |-> pool.cool, use |-> use]
      BY <1>1, <2>2
    <2> QED
      BY <1>1, <2>4, <2>5, FieldsPool
  <1>3. CASE k = NoKey
    BY <1>3 DEF RecordUse
  <1> QED
    BY <1>2, <1>3

LEMMA CooledPool ==
    ASSUME NEW n \in Nat, NEW pool, IsPool(pool, n), NEW k \in 1 .. n
    PROVE  /\ IsPool(Cool(pool, k), n)
           /\ Cool(pool, k).cool = [pool.cool EXCEPT ![k] = KeyCooldown]
  <1>1. /\ pool.next \in 0 .. n /\ pool.use \in KeyUses(n)
        /\ pool.cool \in [1 .. n -> 0 .. KeyCooldown]
        /\ pool = [next |-> pool.next, cool |-> pool.cool, use |-> pool.use]
    BY PoolFields
  <1>2. k # NoKey
    BY KeyPoolAssumption
  <1> DEFINE cool == [pool.cool EXCEPT ![k] = KeyCooldown]
  <1>3. cool \in [1 .. n -> 0 .. KeyCooldown]
    BY <1>1, KeyPoolAssumption
  <1>4. Cool(pool, k) = [pool EXCEPT !.cool = cool]
    BY <1>2 DEF Cool
  <1> HIDE DEF cool
  <1>5. Cool(pool, k) = [next |-> pool.next, cool |-> cool, use |-> pool.use]
    BY <1>1, <1>4
  <1>6. IsPool(Cool(pool, k), n) /\ Cool(pool, k).cool = cool
    BY <1>1, <1>3, <1>5, FieldsPool
  <1> QED
    BY <1>6 DEF cool

LEMMA PassedPool ==
    ASSUME NEW n \in Nat, NEW pool, IsPool(pool, n)
    PROVE  /\ IsPool(PassTime(pool), n)
           /\ PassTime(pool).cool = [k \in 1 .. n |-> Less(pool.cool[k])]
  <1>1. /\ pool.next \in 0 .. n /\ DOMAIN pool.use \in SUBSET (1 .. n)
        /\ pool.use \in [DOMAIN pool.use -> Use]
        /\ pool.cool \in [1 .. n -> 0 .. KeyCooldown]
        /\ pool = [next |-> pool.next, cool |-> pool.cool, use |-> pool.use]
    BY PoolFields
  <1> DEFINE cool == [k \in 1 .. n |-> Less(pool.cool[k])]
             use == [k \in DOMAIN pool.use |-> Aged(pool.use[k])]
  <1>2. cool \in [1 .. n -> 0 .. KeyCooldown]
    BY <1>1, KeyPoolAssumption DEF Less
  <1>3. use \in KeyUses(n)
    <2>1. use \in [DOMAIN pool.use -> Use]
      BY <1>1, RefreshedUse
    <2> HIDE DEF use
    <2> QED
      BY <1>1, <2>1, UsesOf
  <1>4. PassTime(pool) = [pool EXCEPT !.cool = cool, !.use = use]
    BY <1>1 DEF PassTime
  <1> HIDE DEF cool, use
  <1>5. PassTime(pool) = [next |-> pool.next, cool |-> cool, use |-> use]
    BY <1>1, <1>4
  <1>6. IsPool(PassTime(pool), n) /\ PassTime(pool).cool = cool
    BY <1>1, <1>2, <1>3, <1>5, FieldsPool
  <1> QED
    BY <1>6 DEF cool

-----------------------------------------------------------------------------
(* The invariant                                                           *)

RunState ==
    [phase : {"idle", "race", "panel", "decide", "last", "relay"}, kind : {"none", "race", "judge"},
     order : Seq(Members), quorum : Nat, grace : 0 .. Grace \cup {None}, deadline : 0 .. Timeout,
     ctx : {"live", "canceled"}, panelCtx : {"live", "canceled", "expired"},
     reply : {"none", "response", "fail", "error"}, from : Calls]

Typed ==
    /\ pools = [p \in Providers |-> pools[p]]
    /\ \A p \in Providers : IsPool(pools[p], KeysAt[p])
    /\ denied = [p \in Providers |-> denied[p]]
    /\ \A p \in Providers : denied[p] \in [1 .. KeysAt[p] -> 0 .. KeyCooldown]
    /\ inflight \in [Providers -> Nat]
    /\ run \in RunState /\ run.quorum <= Len(run.order)
    /\ calls \in [Calls -> CallState]
    /\ rows \in [Members -> Nat]
    /\ runs \in 0 .. MaxRuns

\* A key has rested exactly as long as its last denial is ago, and a call under
\* way has a key of its provider.
Keyed ==
    /\ \A p \in Providers : \A k \in 1 .. KeysAt[p] :
          denied[p][k] + pools[p].cool[k] = KeyCooldown
    /\ \A m \in Calls :
          calls[m].key # NoKey =>
              calls[m].at \in {"sent", "body"} /\ calls[m].key \in 1 .. KeysAt[At(m)]

\* How far the request and its calls can be from each other.
Progress ==
    /\ run.phase = "race" => run.kind = "race"
    /\ run.phase \in {"panel", "decide", "last"} => run.kind = "judge"
    /\ run.kind # "none" => run.order # <<>>
    /\ run.kind = "race" =>
          /\ Len(run.order) = 2 /\ run.order[1] # run.order[2]
          /\ calls[0].at = "none"
          /\ run.phase # "race" => \A m \in Calls : calls[m].at \in {"none", "taken"}
    /\ run.kind = "judge" =>
          run.from = 0 /\ \A m \in Members : calls[m].outcome # "response"
    /\ run.kind = "none" => run.phase = "idle" /\ \A m \in Calls : calls[m].at = "none"
    /\ \A m \in Members : calls[m].at # "none" => m \in Panel
    /\ calls[0].at \in {"ready", "sent", "body", "landed"} => run.phase = "last"
    /\ run.phase = "relay" =>
          calls[run.from].at = "taken" /\ calls[run.from].outcome = "response"
    /\ \A m \in Calls :
          /\ calls[m].at \in {"none", "ready", "sent"} => calls[m].status = "none"
          /\ calls[m].at \in {"none", "ready", "sent", "body"} => calls[m].outcome = "none"

\* The grace runs only when there are enough answers, and what ended the wait
\* stays true while the answers are judged.
Waited ==
    /\ QuorumRespected
    /\ run.phase \in {"panel", "decide", "last"} /\ run.grace # None =>
          Cardinality(Answers) >= run.quorum

IInv == Typed /\ Keyed /\ Progress /\ Waited /\ FusionInflightExact /\ MeteredOnce

-----------------------------------------------------------------------------
(* Sets of calls                                                           *)

LEMMA CallsFinite ==
    /\ IsFiniteSet(Calls) /\ 0 \in Calls /\ Members \subseteq Calls
    /\ \A S \in SUBSET Calls : IsFiniteSet(S) /\ Cardinality(S) \in Nat
  <1>1. IsFiniteSet(Calls)
    BY FusionAssumption, FS_AddElement DEF Calls
  <1>2. \A S \in SUBSET Calls : IsFiniteSet(S)
    BY <1>1, FS_Subset
  <1>3. \A S \in SUBSET Calls : Cardinality(S) \in Nat
    BY <1>2, FS_CardinalityType
  <1> QED
    BY <1>1, <1>2, <1>3 DEF Calls

LEMMA PanelMembers ==
    ASSUME Typed
    PROVE  Panel \subseteq Members /\ Answers \subseteq Panel
  <1>1. run.order \in Seq(Members)
    BY DEF Typed, RunState
  <1>2. Panel = {run.order[i] : i \in DOMAIN run.order}
    BY DEF Panel, Range
  <1>3. \A i \in DOMAIN run.order : run.order[i] \in Members
    BY <1>1, LenProperties, ElementOfSeq
  <1> QED
    BY <1>2, <1>3 DEF Answers, Taken

LEMMA AtProvider ==
    ASSUME Typed, Progress, run.kind # "none", NEW m \in Calls
    PROVE  At(m) \in Providers
  <1>1. CASE m # 0
    BY <1>1, FusionAssumption DEF At, Calls
  <1>2. CASE m = 0
    <2>1. run.order[1] \in Members
      BY LenProperties, ElementOfSeq, EmptySeq DEF Typed, RunState, Progress
    <2>2. Cardinality(Answers) = 1 => (CHOOSE a \in Answers : TRUE) \in Members
      <3>1. SUFFICES ASSUME Cardinality(Answers) = 1 PROVE Answers # {}
        BY PanelMembers
      <3> QED
        BY <3>1, FS_EmptySet
    <2> QED
      BY <1>2, <2>1, <2>2, FusionAssumption DEF At
  <1> QED
    BY <1>1, <1>2

HoldersOf(p) == {m \in Calls : Holds(m) /\ At(m) = p}

LEMMA HoldersFinite ==
    ASSUME NEW p
    PROVE  IsFiniteSet(HoldersOf(p)) /\ Cardinality(HoldersOf(p)) \in Nat
  BY CallsFinite DEF HoldersOf

\* One more call is under way at p, one less, or as many as before.
LEMMA Joins ==
    ASSUME Typed, FusionInflightExact, NEW p \in Providers, NEW m \in Calls, ~Holds(m),
           \A q \in Providers :
               HoldersOf(q)' = IF q = p THEN HoldersOf(q) \cup {m} ELSE HoldersOf(q),
           inflight' = [inflight EXCEPT ![p] = @ + 1]
    PROVE  FusionInflightExact' /\ inflight' \in [Providers -> Nat]
  <1>1. m \notin HoldersOf(p)
    BY DEF HoldersOf
  <1>2. Cardinality(HoldersOf(p) \cup {m}) = Cardinality(HoldersOf(p)) + 1
    BY <1>1, HoldersFinite, FS_AddElement
  <1>3. \A q \in Providers : inflight[q] = Cardinality(HoldersOf(q))
    BY DEF FusionInflightExact, HoldersOf
  <1>4. \A q \in Providers : inflight'[q] = Cardinality(HoldersOf(q)')
    BY <1>2, <1>3 DEF Typed
  <1> QED
    BY <1>4 DEF FusionInflightExact, HoldersOf, Typed

LEMMA Leaves ==
    ASSUME Typed, FusionInflightExact, NEW p \in Providers, NEW m \in HoldersOf(p),
           \A q \in Providers :
               HoldersOf(q)' = IF q = p THEN HoldersOf(q) \ {m} ELSE HoldersOf(q),
           Leave(p)
    PROVE  FusionInflightExact' /\ inflight' \in [Providers -> Nat]
  <1>1. Cardinality(HoldersOf(p) \ {m}) = Cardinality(HoldersOf(p)) - 1
    BY HoldersFinite, FS_RemoveElement
  <1>2. \A q \in Providers : inflight[q] = Cardinality(HoldersOf(q))
    BY DEF FusionInflightExact, HoldersOf
  <1>3. Cardinality(HoldersOf(p)) # 0
    BY HoldersFinite, FS_EmptySet
  <1>4. inflight'[p] = inflight[p] - 1 /\ \A q \in Providers \ {p} : inflight'[q] = inflight[q]
    BY <1>2, <1>3 DEF Leave, Less, Typed
  <1>5. \A q \in Providers : inflight'[q] = Cardinality(HoldersOf(q)')
    BY <1>1, <1>2, <1>4
  <1>6. inflight' \in [Providers -> Nat]
    BY <1>2, <1>3 DEF Leave, Less, Typed
  <1> QED
    BY <1>5, <1>6 DEF FusionInflightExact, HoldersOf

LEMMA Stays ==
    ASSUME Typed, FusionInflightExact, \A q \in Providers : HoldersOf(q)' = HoldersOf(q),
           inflight' = inflight
    PROVE  FusionInflightExact' /\ inflight' \in [Providers -> Nat]
  <1>1. \A q \in Providers : inflight[q] = Cardinality(HoldersOf(q))
    BY DEF FusionInflightExact, HoldersOf
  <1>2. \A q \in Providers : inflight'[q] = Cardinality(HoldersOf(q)')
    BY <1>1
  <1> QED
    BY <1>2 DEF FusionInflightExact, HoldersOf, Typed

-----------------------------------------------------------------------------
(* The steps of one call                                                   *)

\* A call that is not taken, before or after, disturbs nobody else.
LEMMA CallFrame ==
    ASSUME IInv, NEW m \in Calls, NEW c \in CallState, run' = run,
           calls' = [calls EXCEPT ![m] = c], calls[m].at # "taken", c.at # "taken"
    PROVE  /\ calls' \in [Calls -> CallState] /\ calls'[m] = c
           /\ \A n \in Calls \ {m} : calls'[n] = calls[n] /\ Holds(n)' = Holds(n)
           /\ Panel' = Panel /\ Answers' = Answers
           /\ \A n \in Calls : At(n)' = At(n)
  <1>1. /\ calls' \in [Calls -> CallState] /\ calls'[m] = c
        /\ \A n \in Calls \ {m} : calls'[n] = calls[n]
    BY DEF IInv, Typed
  <1>2. Panel' = Panel
    BY DEF Panel
  <1>3. Panel \subseteq Calls
    BY PanelMembers, CallsFinite DEF IInv
  <1>4. Answers' = Answers
    BY <1>1, <1>2, <1>3 DEF Answers, Taken
  <1>5. \A n \in Calls : At(n)' = At(n)
    BY <1>4 DEF At
  <1>6. \A n \in Calls \ {m} : Holds(n)' = Holds(n)
    BY <1>1 DEF Holds
  <1> QED
    BY <1>1, <1>2, <1>4, <1>5, <1>6

\* What all steps of a call leave as they should.
LEMMA CallStep ==
    ASSUME IInv, NEW m \in Calls, NEW c \in CallState, run' = run, runs' = runs,
           calls' = [calls EXCEPT ![m] = c],
           calls[m].at \in {"ready", "sent", "body"}, c.at \in {"sent", "body", "landed"},
           c.at = "sent" => c.status = "none",
           c.at \in {"sent", "body"} => c.outcome = "none",
           c.outcome = "response" => ~InPanel(m)
    PROVE  /\ Progress' /\ Waited' /\ run.kind # "none" /\ At(m) \in Providers
           /\ run.phase = "relay" => run.from # m
           /\ InPanel(m) <=> run.kind = "judge" /\ m # 0
  <1>1. /\ calls' \in [Calls -> CallState] /\ calls'[m] = c
        /\ \A n \in Calls \ {m} : calls'[n] = calls[n]
        /\ Panel' = Panel /\ Answers' = Answers
    BY CallFrame
  <1>2. run.kind # "none" /\ (run.phase = "relay" => run.from # m)
    BY DEF IInv, Progress
  <1>3. Progress'
    <2>1. run.kind = "race" => calls'[0].at = "none" /\ run.phase = "race"
      BY <1>1, CallsFinite DEF IInv, Progress
    <2>2. run.kind = "judge" => \A n \in Members : calls'[n].outcome # "response"
      BY <1>1, FusionAssumption, CallsFinite DEF IInv, Progress, InPanel
    <2>3. \A n \in Members : calls'[n].at # "none" => n \in Panel
      BY <1>1, CallsFinite DEF IInv, Progress
    <2>4. calls'[0].at \in {"ready", "sent", "body", "landed"} => run.phase = "last"
      BY <1>1, CallsFinite DEF IInv, Progress
    <2>5. run.phase = "relay" =>
              calls'[run.from].at = "taken" /\ calls'[run.from].outcome = "response"
      BY <1>1, <1>2 DEF IInv, Typed, RunState, Progress
    <2>6. \A n \in Calls :
              /\ calls'[n].at \in {"none", "ready", "sent"} => calls'[n].status = "none"
              /\ calls'[n].at \in {"none", "ready", "sent", "body"} => calls'[n].outcome = "none"
      BY <1>1 DEF IInv, Progress
    <2> QED
      BY <1>1, <1>2, <2>1, <2>2, <2>3, <2>4, <2>5, <2>6 DEF IInv, Progress
  <1>4. Waited'
    <2>1. m \in Panel => ~\A n \in Panel : calls[n].at = "taken"
      OBVIOUS
    <2>2. (\A n \in Panel : calls[n].at = "taken") => (\A n \in Panel : calls'[n].at = "taken")
      BY <1>1, PanelMembers, CallsFinite DEF IInv
    <2> QED
      BY <1>1, <2>2 DEF IInv, Waited, QuorumRespected
  <1>5. At(m) \in Providers
    BY <1>2, AtProvider DEF IInv
  <1> QED
    BY <1>2, <1>3, <1>4, <1>5 DEF InPanel

\* Usage rows where a call of the panel that has ended says 200, and only there.
LEMMA CallMeters ==
    ASSUME IInv, NEW m \in Calls, NEW c \in CallState, run' = run,
           calls' = [calls EXCEPT ![m] = c], calls[m].at # "taken", c.at # "taken",
           rows' \in [Members -> Nat],
           \A n \in Members \ {m} : rows'[n] = rows[n],
           m \in Members /\ run.kind = "judge" =>
               rows'[m] = IF c.status = "ok" /\ c.at \in {"none", "landed", "taken"} THEN 1 ELSE 0
    PROVE  MeteredOnce'
  <1>1. /\ calls'[m] = c /\ \A n \in Calls \ {m} : calls'[n] = calls[n]
    BY CallFrame
  <1> QED
    BY <1>1, CallsFinite DEF IInv, MeteredOnce, Ended

\* Keys of calls and pools whose rests do not change.
LEMMA CallKeys ==
    ASSUME IInv, NEW m \in Calls, NEW c \in CallState, run' = run,
           calls' = [calls EXCEPT ![m] = c], calls[m].at # "taken", c.at # "taken",
           \A p \in Providers : \A k \in 1 .. KeysAt[p] :
               denied'[p][k] + pools'[p].cool[k] = KeyCooldown,
           c.key # NoKey => c.at \in {"sent", "body"} /\ c.key \in 1 .. KeysAt[At(m)]
    PROVE  Keyed'
  <1>1. /\ calls'[m] = c /\ \A n \in Calls \ {m} : calls'[n] = calls[n]
        /\ \A n \in Calls : At(n)' = At(n)
    BY CallFrame
  <1> QED
    BY <1>1 DEF IInv, Keyed

LEMMA LaunchStep ==
    ASSUME IInv, NEW m \in Calls, Launch(m)
    PROVE  IInv'
  <1>1. calls[m].at = "ready" /\ calls[m] \in CallState
    BY DEF Launch, IInv, Typed
  <1>2. calls[m].status = "none" /\ calls[m].outcome = "none"
    BY <1>1 DEF IInv, Progress
  <1>3. run' = run /\ UNCHANGED <<rows, runs, denied>>
    BY DEF Launch
  <1>4. At(m) \in Providers
    BY <1>1, AtProvider DEF IInv, Progress
  <1> DEFINE p == At(m)
  <1>5. KeysAt[p] \in Nat /\ IsPool(pools[p], KeysAt[p])
    BY <1>4, FusionAssumption DEF IInv, Typed
  <1> HIDE DEF p
  <1>6. CASE Available(pools[At(m)])
    <2> DEFINE c == [calls[m] EXCEPT !.at = "sent", !.key = Pick(pools[p])]
    <2>1. /\ pools' = [pools EXCEPT ![p] = Picked(pools[p])]
          /\ inflight' = [inflight EXCEPT ![p] = @ + 1]
          /\ calls' = [calls EXCEPT ![m] = c]
      BY <1>6 DEF Launch, p
    <2>2. /\ KeysAt[p] = 0 => Pick(pools[p]) = NoKey
          /\ KeysAt[p] > 0 => Pick(pools[p]) \in 1 .. KeysAt[p]
      BY <1>5, <1>6, PickFacts DEF p
    <2>3. Pick(pools[p]) \in Nat \cup {NoKey} /\ (Pick(pools[p]) # NoKey => Pick(pools[p]) \in 1 .. KeysAt[p])
      BY <1>5, <2>2
    <2>4. /\ c \in CallState /\ c.at = "sent" /\ c.key = Pick(pools[p])
          /\ c.status = "none" /\ c.outcome = "none"
      BY <1>1, <1>2, <2>3 DEF CallState
    <2> HIDE DEF c
    <2>5. /\ calls' \in [Calls -> CallState] /\ calls'[m] = c
          /\ \A n \in Calls \ {m} : calls'[n] = calls[n] /\ Holds(n)' = Holds(n)
          /\ \A n \in Calls : At(n)' = At(n)
      BY <1>1, <1>3, <2>1, <2>4, CallFrame
    <2>6. IsPool(Picked(pools[p]), KeysAt[p]) /\ Picked(pools[p]).cool = pools[p].cool
      BY <1>5, <1>6, PickedPool DEF p
    <2>7. /\ pools' = [q \in Providers |-> pools'[q]]
          /\ \A q \in Providers : pools'[q] = IF q = p THEN Picked(pools[p]) ELSE pools[q]
      BY <2>1 DEF IInv, Typed
    <2>8. Progress' /\ Waited'
      BY <1>1, <1>3, <2>1, <2>4, CallStep
    <2>9. FusionInflightExact' /\ inflight' \in [Providers -> Nat]
      <3>1. ~Holds(m) /\ Holds(m)'
        BY <1>1, <1>2, <2>4, <2>5 DEF Holds
      <3>2. \A q \in Providers :
                HoldersOf(q)' = IF q = p THEN HoldersOf(q) \cup {m} ELSE HoldersOf(q)
        BY <2>5, <3>1 DEF HoldersOf, p
      <3>3. p \in Providers
        BY <1>4 DEF p
      <3> QED
        BY <2>1, <3>1, <3>2, <3>3, Joins DEF IInv
    <2>10. Keyed'
      <3>1. \A q \in Providers : \A k \in 1 .. KeysAt[q] :
               denied'[q][k] + pools'[q].cool[k] = KeyCooldown
        BY <1>3, <2>6, <2>7 DEF IInv, Keyed
      <3> QED
        BY <1>1, <1>3, <2>1, <2>3, <2>4, <3>1, CallKeys DEF p
    <2>11. MeteredOnce'
      <3>1. run.kind = "judge" /\ m \in Members => rows[m] = 0
        BY <1>1, <1>2 DEF IInv, MeteredOnce
      <3> QED
        BY <1>1, <1>3, <2>1, <2>4, <3>1, CallMeters DEF IInv, Typed
    <2>12. Typed'
      BY <1>3, <2>5, <2>6, <2>7, <2>9 DEF IInv, Typed
    <2> QED
      BY <2>8, <2>9, <2>10, <2>11, <2>12 DEF IInv
  <1>7. CASE ~Available(pools[At(m)])
    <2> DEFINE c == [calls[m] EXCEPT !.at = "landed", !.key = NoKey,
                                     !.outcome = "keys", !.counted = "failure"]
    <2>1. calls' = [calls EXCEPT ![m] = c] /\ UNCHANGED <<pools, inflight>>
      BY <1>7 DEF Launch, Land
    <2>2. /\ c \in CallState /\ c.at = "landed" /\ c.key = NoKey
          /\ c.status = "none" /\ c.outcome = "keys"
      BY <1>1, <1>2 DEF CallState
    <2> HIDE DEF c
    <2>3. /\ calls' \in [Calls -> CallState] /\ calls'[m] = c
          /\ \A n \in Calls \ {m} : calls'[n] = calls[n] /\ Holds(n)' = Holds(n)
          /\ \A n \in Calls : At(n)' = At(n)
      BY <1>1, <1>3, <2>1, <2>2, CallFrame
    <2>4. Progress' /\ Waited'
      BY <1>1, <1>3, <2>1, <2>2, CallStep
    <2>5. FusionInflightExact' /\ inflight' \in [Providers -> Nat]
      <3>1. ~Holds(m) /\ ~Holds(m)'
        BY <1>1, <1>2, <2>2, <2>3 DEF Holds
      <3>2. \A q \in Providers : HoldersOf(q)' = HoldersOf(q)
        BY <2>3, <3>1 DEF HoldersOf
      <3> QED
        BY <2>1, <3>2, Stays DEF IInv
    <2>6. Keyed'
      <3>1. \A q \in Providers : \A k \in 1 .. KeysAt[q] :
               denied'[q][k] + pools'[q].cool[k] = KeyCooldown
        BY <1>3, <2>1 DEF IInv, Keyed
      <3> QED
        BY <1>1, <1>3, <2>1, <2>2, <3>1, CallKeys
    <2>7. MeteredOnce'
      <3>1. run.kind = "judge" /\ m \in Members => rows[m] = 0
        BY <1>1, <1>2 DEF IInv, MeteredOnce
      <3> QED
        BY <1>1, <1>3, <2>1, <2>2, <3>1, CallMeters DEF IInv, Typed
    <2>8. Typed'
      BY <1>3, <2>1, <2>3, <2>5 DEF IInv, Typed
    <2> QED
      BY <2>4, <2>5, <2>6, <2>7, <2>8 DEF IInv
  <1> QED
    BY <1>6, <1>7

\* A call that ends: its key is given up, and its provider's counter unless it has
\* a response to relay.
LEMMA LandStep ==
    ASSUME IInv, NEW m \in Calls, NEW outcome \in {"err", "fail", "answer", "response"},
           NEW counted \in {"success", "failure", "spared"},
           Land(m, outcome, counted), UNCHANGED <<pools, run, runs, denied>>,
           calls[m].at \in {"sent", "body"}, outcome = "response" => ~InPanel(m),
           IF outcome = "response" THEN UNCHANGED inflight ELSE Leave(At(m)),
           rows' \in [Members -> Nat],
           \A n \in Members \ {m} : rows'[n] = rows[n],
           m \in Members /\ run.kind = "judge" =>
               rows'[m] = IF calls[m].status = "ok" THEN 1 ELSE 0
    PROVE  IInv'
  <1> DEFINE c == [calls[m] EXCEPT !.at = "landed", !.key = NoKey,
                                   !.outcome = outcome, !.counted = counted]
  <1>1. calls' = [calls EXCEPT ![m] = c] /\ calls[m] \in CallState
    BY DEF Land, IInv, Typed
  <1>2. /\ c \in CallState /\ c.at = "landed" /\ c.key = NoKey
        /\ c.status = calls[m].status /\ c.outcome = outcome
    BY <1>1 DEF CallState
  <1> HIDE DEF c
  <1>3. /\ calls' \in [Calls -> CallState] /\ calls'[m] = c
        /\ \A n \in Calls \ {m} : calls'[n] = calls[n] /\ Holds(n)' = Holds(n)
        /\ \A n \in Calls : At(n)' = At(n)
    BY <1>1, <1>2, CallFrame
  <1>4. Progress' /\ Waited' /\ At(m) \in Providers /\ (run.phase = "relay" => run.from # m)
    BY <1>1, <1>2, CallStep
  <1>5. FusionInflightExact' /\ inflight' \in [Providers -> Nat]
    <2>1. Holds(m)
      BY DEF Holds
    <2>2. Holds(m)' <=> outcome = "response"
      BY <1>2, <1>3, <1>4 DEF Holds
    <2>3. CASE outcome = "response"
      <3>1. \A q \in Providers : HoldersOf(q)' = HoldersOf(q)
        BY <1>3, <2>1, <2>2, <2>3 DEF HoldersOf
      <3> QED
        BY <2>3, <3>1, Stays DEF IInv
    <2>4. CASE outcome # "response"
      <3>1. m \in HoldersOf(At(m))
        BY <2>1 DEF HoldersOf
      <3>2. \A q \in Providers :
                HoldersOf(q)' = IF q = At(m) THEN HoldersOf(q) \ {m} ELSE HoldersOf(q)
        BY <1>3, <2>2, <2>4 DEF HoldersOf
      <3> QED
        BY <1>4, <2>4, <3>1, <3>2, Leaves DEF IInv
    <2> QED
      BY <2>3, <2>4
  <1>6. Keyed'
    <2>1. \A q \in Providers : \A k \in 1 .. KeysAt[q] :
             denied'[q][k] + pools'[q].cool[k] = KeyCooldown
      BY DEF IInv, Keyed
    <2> QED
      BY <1>1, <1>2, <2>1, CallKeys
  <1>7. MeteredOnce'
    BY <1>1, <1>2, CallMeters
  <1>8. Typed'
    BY <1>3, <1>5 DEF IInv, Typed
  <1> QED
    BY <1>4, <1>5, <1>6, <1>7, <1>8 DEF IInv

LEMMA BreakStep ==
    ASSUME IInv, NEW m \in Calls, Break(m)
    PROVE  IInv'
  <1>1. calls[m].at = "sent" /\ calls[m].status = "none"
    BY DEF Break, IInv, Progress
  <1>2. m \in Members /\ run.kind = "judge" => rows[m] = 0
    BY <1>1 DEF IInv, MeteredOnce, Ended
  <1>3. PICK counted \in {"failure", "spared"} : Land(m, "err", counted)
    BY DEF Break, Blamed
  <1>4. UNCHANGED <<pools, run, rows, runs, denied>> /\ Leave(At(m)) /\ rows \in [Members -> Nat]
    BY DEF Break, IInv, Typed
  <1> QED
    BY <1>1, <1>2, <1>3, <1>4, LandStep

LEMMA ReadStep ==
    ASSUME IInv, NEW m \in Calls, NEW how, ReadPanelBody(m, how)
    PROVE  IInv'
  <1>1. /\ m \in Members /\ calls[m].at = "body" /\ rows \in [Members -> Nat] /\ Leave(At(m))
        /\ UNCHANGED <<pools, run, runs, denied>>
    BY DEF ReadPanelBody, InPanel, Calls, IInv, Typed
  <1>2. run.kind = "judge" => rows[m] = 0
    BY <1>1 DEF IInv, MeteredOnce, Ended
  <1>3. CASE calls[m].status # "ok"
    BY <1>1, <1>2, <1>3, LandStep DEF ReadPanelBody
  <1>4. CASE calls[m].status = "ok"
    <2>1. rows' = [rows EXCEPT ![m] = @ + 1]
      BY <1>4 DEF ReadPanelBody, Metered
    <2>2. /\ rows' \in [Members -> Nat] /\ \A n \in Members \ {m} : rows'[n] = rows[n]
          /\ run.kind = "judge" => rows'[m] = 1
      BY <1>1, <1>2, <2>1
    <2>3. PICK outcome \in {"answer", "err"} : Land(m, outcome, "success")
      BY <1>4 DEF ReadPanelBody
    <2> QED
      BY <1>1, <1>4, <2>2, <2>3, LandStep
  <1> QED
    BY <1>3, <1>4

LEMMA RespondStep ==
    ASSUME IInv, NEW m \in Calls, Respond(m)
    PROVE  IInv'
  <1>1. /\ calls[m].at = "body" /\ rows \in [Members -> Nat] /\ ~InPanel(m)
        /\ UNCHANGED <<pools, run, rows, runs, denied>>
    BY DEF Respond, IInv, Typed
  <1>2. ~(m \in Members /\ run.kind = "judge")
    BY <1>1, FusionAssumption DEF InPanel
  <1>3. CASE calls[m].status \in Retryable
    BY <1>1, <1>2, <1>3, LandStep DEF Respond
  <1>4. CASE calls[m].status \notin Retryable
    BY <1>1, <1>2, <1>4, LandStep DEF Respond
  <1> QED
    BY <1>3, <1>4

LEMMA HeadersStep ==
    ASSUME IInv, NEW m \in Calls, NEW status \in Statuses, Headers(m, status)
    PROVE  IInv'
  <1> DEFINE p == At(m)
             k == calls[m].key
             c == [calls[m] EXCEPT !.at = "body", !.status = status]
  <1>1. calls[m].at = "sent" /\ calls[m] \in CallState /\ calls[m].outcome = "none"
    BY DEF Headers, IInv, Typed, Progress
  <1>2. calls' = [calls EXCEPT ![m] = c] /\ UNCHANGED <<inflight, run, rows, runs>>
    BY DEF Headers
  <1>3. c \in CallState /\ c.at = "body" /\ c.key = k /\ c.status = status /\ c.outcome = "none"
    BY <1>1 DEF CallState
  <1>4. p \in Providers /\ (k # NoKey => k \in 1 .. KeysAt[p])
    BY <1>1, AtProvider DEF IInv, Progress, Keyed
  <1>5. KeysAt[p] \in Nat /\ IsPool(pools[p], KeysAt[p])
    BY <1>4, FusionAssumption DEF IInv, Typed
  <1>6. IF status \in CoolsKey
        THEN /\ pools' = [pools EXCEPT ![p] = Cool(pools[p], k)]
             /\ denied' = IF k = NoKey THEN denied ELSE [denied EXCEPT ![p][k] = 0]
        ELSE pools' = [pools EXCEPT ![p] = RecordUse(pools[p], k)] /\ UNCHANGED denied
    BY DEF Headers
  <1> HIDE DEF c, k, p
  <1>7. /\ calls' \in [Calls -> CallState] /\ calls'[m] = c
        /\ \A n \in Calls \ {m} : calls'[n] = calls[n] /\ Holds(n)' = Holds(n)
        /\ \A n \in Calls : At(n)' = At(n)
    BY <1>1, <1>2, <1>3, CallFrame
  <1>8. Progress' /\ Waited'
    BY <1>1, <1>2, <1>3, CallStep
  <1>9. FusionInflightExact' /\ inflight' \in [Providers -> Nat]
    <2>1. Holds(m) /\ Holds(m)'
      BY <1>1, <1>3, <1>7 DEF Holds
    <2>2. \A q \in Providers : HoldersOf(q)' = HoldersOf(q)
      BY <1>7, <2>1 DEF HoldersOf
    <2> QED
      BY <1>2, <2>2, Stays DEF IInv
  <1>10. /\ pools' = [q \in Providers |-> pools'[q]] /\ denied' = [q \in Providers |-> denied'[q]]
         /\ \A q \in Providers : IsPool(pools'[q], KeysAt[q])
         /\ \A q \in Providers : denied'[q] \in [1 .. KeysAt[q] -> 0 .. KeyCooldown]
         /\ \A q \in Providers : \A j \in 1 .. KeysAt[q] :
                denied'[q][j] + pools'[q].cool[j] = KeyCooldown
    <2>1. /\ pools = [q \in Providers |-> pools[q]] /\ denied = [q \in Providers |-> denied[q]]
          /\ \A q \in Providers : IsPool(pools[q], KeysAt[q])
          /\ \A q \in Providers : denied[q] \in [1 .. KeysAt[q] -> 0 .. KeyCooldown]
          /\ \A q \in Providers : \A j \in 1 .. KeysAt[q] :
                 denied[q][j] + pools[q].cool[j] = KeyCooldown
      BY DEF IInv, Typed, Keyed
    <2>2. CASE status \in CoolsKey /\ k # NoKey
      <3>1. /\ IsPool(Cool(pools[p], k), KeysAt[p])
            /\ Cool(pools[p], k).cool = [pools[p].cool EXCEPT ![k] = KeyCooldown]
        BY <1>4, <1>5, <2>2, CooledPool
      <3>2. pools[p].cool \in [1 .. KeysAt[p] -> 0 .. KeyCooldown]
        BY <1>5, PoolFields
      <3>3. /\ pools' = [q \in Providers |-> pools'[q]]
            /\ \A q \in Providers : pools'[q] = IF q = p THEN Cool(pools[p], k) ELSE pools[q]
        BY <1>6, <2>1, <2>2
      <3>4. /\ denied' = [q \in Providers |-> denied'[q]]
            /\ \A q \in Providers : denied'[q] = IF q = p THEN [denied[p] EXCEPT ![k] = 0] ELSE denied[q]
        BY <1>6, <2>1, <2>2
      <3>5. \A q \in Providers : IsPool(pools'[q], KeysAt[q])
        BY <2>1, <3>1, <3>3
      <3>6. \A q \in Providers : denied'[q] \in [1 .. KeysAt[q] -> 0 .. KeyCooldown]
        <4>1. 0 \in 0 .. KeyCooldown
          BY KeyPoolAssumption
        <4>2. [denied[p] EXCEPT ![k] = 0] \in [1 .. KeysAt[p] -> 0 .. KeyCooldown]
          BY <1>4, <2>1, <4>1
        <4> QED
          BY <2>1, <3>4, <4>2
      <3>7. ASSUME NEW q \in Providers, NEW j \in 1 .. KeysAt[q]
            PROVE  denied'[q][j] + pools'[q].cool[j] = KeyCooldown
        <4>1. CASE q # p
          BY <2>1, <3>3, <3>4, <4>1
        <4>2. CASE q = p
          <5>1. denied'[p][j] = IF j = k THEN 0 ELSE denied[p][j]
            BY <1>4, <2>1, <3>4, <4>2
          <5>2. pools'[p].cool[j] = IF j = k THEN KeyCooldown ELSE pools[p].cool[j]
            BY <1>4, <3>1, <3>2, <3>3, <4>2
          <5> QED
            BY <2>1, <4>2, <5>1, <5>2, KeyPoolAssumption
        <4> QED
          BY <4>1, <4>2
      <3> QED
        BY <3>3, <3>4, <3>5, <3>6, <3>7
    <2>3. CASE status \in CoolsKey /\ k = NoKey
      <3>1. Cool(pools[p], k) = pools[p] /\ denied' = denied
        BY <1>6, <2>3 DEF Cool
      <3>2. pools' = pools
        BY <1>6, <2>1, <2>3, <3>1
      <3> QED
        BY <2>1, <3>1, <3>2
    <2>4. CASE status \notin CoolsKey
      <3>1. /\ IsPool(RecordUse(pools[p], k), KeysAt[p])
            /\ RecordUse(pools[p], k).cool = pools[p].cool
        BY <1>4, <1>5, RecordedPool
      <3>2. /\ pools' = [q \in Providers |-> pools'[q]] /\ denied' = denied
            /\ \A q \in Providers : pools'[q] = IF q = p THEN RecordUse(pools[p], k) ELSE pools[q]
        BY <1>6, <2>1, <2>4
      <3> QED
        BY <2>1, <3>1, <3>2
    <2> QED
      BY <2>2, <2>3, <2>4
  <1>11. Keyed'
    BY <1>1, <1>2, <1>3, <1>4, <1>10, CallKeys DEF p
  <1>12. MeteredOnce'
    <2>1. run.kind = "judge" /\ m \in Members => rows[m] = 0
      BY <1>1 DEF IInv, MeteredOnce, Ended
    <2> QED
      BY <1>1, <1>2, <1>3, <2>1, CallMeters DEF IInv, Typed
  <1>13. Typed'
    BY <1>2, <1>7, <1>9, <1>10 DEF IInv, Typed
  <1> QED
    BY <1>8, <1>9, <1>11, <1>12, <1>13 DEF IInv

-----------------------------------------------------------------------------
(* The steps of the handler                                                *)

\* What a step of the handler keeps that leaves keys and usage rows alone.
LEMMA HandlerStep ==
    ASSUME IInv, UNCHANGED <<pools, denied, rows, runs>>,
           run' \in RunState, run'.quorum = run.quorum, run'.order = run.order,
           run'.kind = run.kind,
           calls' \in [Calls -> CallState], inflight' \in [Providers -> Nat],
           \A n \in Members : calls'[n].status = calls[n].status /\ Ended(n)' = Ended(n),
           \A n \in Calls :
               calls'[n].key # NoKey => calls'[n] = calls[n] /\ At(n)' = At(n)
    PROVE  Typed' /\ Keyed' /\ MeteredOnce'
  <1>1. Typed'
    BY DEF IInv, Typed
  <1>2. Keyed'
    BY DEF IInv, Keyed
  <1>3. MeteredOnce'
    BY DEF IInv, MeteredOnce
  <1> QED
    BY <1>1, <1>2, <1>3

\* Only the calls of a route and the last call are under way.
LEMMA Resting0 ==
    ASSUME IInv, run.phase # "last"
    PROVE  calls[0].at \in {"none", "taken"} /\ calls[0].key = NoKey
  BY CallsFinite DEF IInv, Typed, CallState, Progress, Keyed

LEMMA CollectStep ==
    ASSUME IInv, NEW m \in Members, Collect(m)
    PROVE  IInv'
  <1>1. /\ run.phase = "panel" /\ run.kind = "judge" /\ calls[m].at = "landed" /\ m # 0
        /\ UNCHANGED <<pools, inflight, rows, runs, denied>>
        /\ calls' = [calls EXCEPT ![m].at = "taken"]
    BY DEF Collect, InPanel
  <1>2. m \in Calls /\ calls \in [Calls -> CallState] /\ run \in RunState /\ run.quorum \in Nat
    BY CallsFinite DEF IInv, Typed, RunState
  <1>3. /\ calls' \in [Calls -> CallState]
        /\ \A n \in Calls \ {m} : calls'[n] = calls[n]
        /\ calls'[m].at = "taken" /\ calls'[m].key = calls[m].key
        /\ calls'[m].status = calls[m].status /\ calls'[m].outcome = calls[m].outcome
    BY <1>1, <1>2 DEF CallState
  <1> DEFINE grace == IF AnswersWith(m) >= run.quorum /\ run.grace = None THEN Grace ELSE run.grace
             phase == IF \A n \in Panel \ {m} : calls[n].at = "taken" THEN "decide" ELSE "panel"
  <1>4. run' = [run EXCEPT !.grace = grace, !.phase = phase]
    BY <1>1 DEF Collect
  <1> HIDE DEF grace, phase
  <1>5. /\ run'.grace = grace /\ run'.phase = phase /\ run'.quorum = run.quorum
        /\ run'.order = run.order /\ run'.kind = run.kind /\ run'.panelCtx = run.panelCtx
        /\ run'.from = run.from
    BY <1>2, <1>4 DEF RunState
  <1>6. phase \in {"panel", "decide"} /\ grace \in 0 .. Grace \cup {None}
    BY <1>2, FusionAssumption DEF grace, phase, RunState
  <1>7. run' \in RunState
    BY <1>2, <1>4, <1>6 DEF RunState
  <1>8. Panel' = Panel /\ Panel \subseteq Members /\ m \in Panel
    BY <1>1, <1>5, PanelMembers DEF Panel, IInv, Progress
  <1>9. Answers' = Answers \cup (IF calls[m].outcome = "answer" THEN {m} ELSE {})
    BY <1>1, <1>3, <1>8, CallsFinite DEF Answers, Taken
  <1>10. /\ Cardinality(Answers') = AnswersWith(m)
         /\ Cardinality(Answers) \in Nat /\ Cardinality(Answers') \in Nat
         /\ Cardinality(Answers) <= Cardinality(Answers')
    <2>1. Answers \in SUBSET Calls /\ Answers' \in SUBSET Calls /\ Answers \subseteq Answers'
      BY <1>8, <1>9, PanelMembers, CallsFinite DEF IInv
    <2>2. IsFiniteSet(Answers')
      BY <2>1, CallsFinite
    <2>3. Cardinality(Answers) <= Cardinality(Answers')
      BY <2>1, <2>2, FS_Subset
    <2> QED
      BY <1>9, <2>1, <2>3, CallsFinite DEF AnswersWith
  <1>11. \A n \in Calls \ {0} : At(n)' = At(n)
    BY DEF At
  <1>12. calls[0].at \in {"none", "taken"} /\ calls[0].key = NoKey /\ calls[m].key = NoKey
    BY <1>1, <1>2, Resting0 DEF IInv, Keyed
  <1>13. \A n \in Calls : Holds(n)' = Holds(n) /\ (Holds(n) => n # 0)
    <2>1. calls[m].outcome # "response"
      BY <1>1 DEF IInv, Progress
    <2> QED
      BY <1>1, <1>3, <1>5, <1>6, <1>12, <2>1 DEF Holds
  <1>14. FusionInflightExact' /\ inflight' \in [Providers -> Nat]
    <2>1. \A q \in Providers : HoldersOf(q)' = HoldersOf(q)
      BY <1>11, <1>13 DEF HoldersOf
    <2> QED
      BY <1>1, <2>1, Stays DEF IInv
  <1>15. Typed' /\ Keyed' /\ MeteredOnce'
    <2>1. \A n \in Members : calls'[n].status = calls[n].status /\ Ended(n)' = Ended(n)
      BY <1>1, <1>3, CallsFinite DEF Ended
    <2>2. \A n \in Calls : calls'[n].key # NoKey => calls'[n] = calls[n] /\ At(n)' = At(n)
      BY <1>3, <1>11, <1>12, <1>1
    <2> QED
      BY <1>1, <1>3, <1>5, <1>7, <1>14, <2>1, <2>2, HandlerStep
  <1>16. Progress'
    <2>1. calls'[0] = calls[0]
      BY <1>1, <1>3, CallsFinite
    <2>2. \A n \in Members : calls'[n].outcome # "response"
      BY <1>1, <1>3, CallsFinite DEF IInv, Progress
    <2>3. \A n \in Calls :
              /\ calls'[n].at \in {"none", "ready", "sent"} => calls'[n].status = "none"
              /\ calls'[n].at \in {"none", "ready", "sent", "body"} => calls'[n].outcome = "none"
      BY <1>3 DEF IInv, Progress
    <2>4. \A n \in Members : calls'[n].at # "none" => n \in Panel
      BY <1>1, <1>3, <1>8, CallsFinite DEF IInv, Progress
    <2> QED
      BY <1>1, <1>5, <1>6, <1>8, <1>12, <2>1, <2>2, <2>3, <2>4 DEF IInv, Progress
  <1>17. Waited'
    <2>1. run'.grace # None => Cardinality(Answers') >= run'.quorum
      <3>1. CASE run.grace = None
        BY <1>2, <1>5, <1>10, <3>1 DEF grace
      <3>2. CASE run.grace # None
        BY <1>1, <1>2, <1>5, <1>10, <3>2 DEF grace, IInv, Waited
      <3> QED
        BY <3>1, <3>2
    <2>2. run'.phase = "decide" => \A n \in Panel' : calls'[n].at = "taken"
      BY <1>3, <1>5, <1>8, CallsFinite DEF phase
    <2> QED
      BY <1>5, <1>6, <2>1, <2>2 DEF Waited, QuorumRespected
  <1> QED
    BY <1>14, <1>15, <1>16, <1>17 DEF IInv

LEMMA StopStep ==
    ASSUME IInv, StopCollecting
    PROVE  IInv'
  <1>1. /\ run.phase = "panel" /\ run.kind = "judge" /\ run \in RunState
        /\ run' = [run EXCEPT !.phase = "decide"]
        /\ UNCHANGED <<pools, inflight, calls, rows, runs, denied>>
    BY DEF StopCollecting, IInv, Progress, Typed
  <1>2. /\ run' \in RunState /\ run'.phase = "decide" /\ run'.quorum = run.quorum
        /\ run'.grace = run.grace /\ run'.order = run.order /\ run'.kind = run.kind
        /\ run'.panelCtx = run.panelCtx /\ run'.from = run.from
    BY <1>1 DEF RunState
  <1>3. Panel' = Panel /\ Answers' = Answers
    BY <1>1, <1>2 DEF Panel, Answers, Taken
  <1>4. \A n \in Calls : At(n)' = At(n) /\ Holds(n)' = Holds(n) /\ Ended(n)' = Ended(n)
    BY <1>1, <1>2, <1>3 DEF At, Holds, Ended
  <1>5. FusionInflightExact' /\ inflight' \in [Providers -> Nat]
    <2>1. \A q \in Providers : HoldersOf(q)' = HoldersOf(q)
      BY <1>4 DEF HoldersOf
    <2> QED
      BY <1>1, <2>1, Stays DEF IInv
  <1>6. Typed' /\ Keyed' /\ MeteredOnce'
    BY <1>1, <1>2, <1>4, <1>5, CallsFinite, HandlerStep DEF IInv, Typed
  <1>7. Progress'
    BY <1>1, <1>2, <1>3 DEF IInv, Progress
  <1>8. Waited'
    <2>1. run.grace = 0 \/ run.panelCtx # "live"
      BY DEF StopCollecting
    <2>2. run.grace # None => Cardinality(Answers) >= run.quorum
      BY <1>1 DEF IInv, Waited
    <2> QED
      BY <1>2, <1>3, <2>1, <2>2, FusionAssumption DEF Waited, QuorumRespected
  <1> QED
    BY <1>5, <1>6, <1>7, <1>8 DEF IInv

LEMMA ReturnedRun ==
    ASSUME run \in RunState, NEW reply \in {"response", "fail", "error"}
    PROVE  /\ Returned(reply) \in RunState
           /\ Returned(reply).phase = IF reply = "response" THEN "relay" ELSE "idle"
           /\ Returned(reply).kind = run.kind /\ Returned(reply).order = run.order
           /\ Returned(reply).quorum = run.quorum /\ Returned(reply).from = run.from
           /\ Returned(reply).grace = run.grace
  BY DEF Returned, Cancel, RunState

LEMMA DecideStep ==
    ASSUME IInv, Decide
    PROVE  IInv'
  <1>1. /\ run.phase = "decide" /\ run.kind = "judge" /\ run \in RunState
        /\ UNCHANGED <<pools, inflight, rows, runs, denied>>
        /\ calls \in [Calls -> CallState]
    BY DEF Decide, IInv, Progress, Typed
  <1>2. calls[0].at \in {"none", "taken"} /\ calls[0].key = NoKey /\ 0 \notin Panel /\ Panel \subseteq Members
    BY <1>1, Resting0, PanelMembers, FusionAssumption DEF IInv
  <1>3. ASSUME NEW reply \in {"fail", "error"}, run' = Returned(reply), calls' = calls
        PROVE  IInv'
    <2>1. calls' = calls /\ run' = Returned(reply)
      BY <1>3
    <2>2. /\ run' \in RunState /\ run'.phase = "idle" /\ run'.quorum = run.quorum
          /\ run'.order = run.order /\ run'.kind = run.kind /\ run'.from = run.from
      BY <1>1, <2>1, ReturnedRun
    <2>3. Panel' = Panel /\ Answers' = Answers
      BY <2>1, <2>2 DEF Panel, Answers, Taken
    <2>4. \A n \in Calls : At(n)' = At(n) /\ Holds(n)' = Holds(n) /\ Ended(n)' = Ended(n)
      BY <1>1, <2>1, <2>2, <2>3 DEF At, Holds, Ended
    <2>5. FusionInflightExact' /\ inflight' \in [Providers -> Nat]
      <3>1. \A q \in Providers : HoldersOf(q)' = HoldersOf(q)
        BY <2>4 DEF HoldersOf
      <3> QED
        BY <1>1, <3>1, Stays DEF IInv
    <2>6. Typed' /\ Keyed' /\ MeteredOnce'
      BY <1>1, <2>1, <2>2, <2>4, <2>5, CallsFinite, HandlerStep
    <2>7. Progress'
      BY <1>1, <1>2, <2>1, <2>2, <2>3 DEF IInv, Progress
    <2>8. Waited'
      BY <2>2 DEF Waited, QuorumRespected
    <2> QED
      BY <2>5, <2>6, <2>7, <2>8 DEF IInv
  <1>4. CASE /\ run' = [run EXCEPT !.phase = "last"]
             /\ calls' = [calls EXCEPT ![0] = [NoCall EXCEPT !.at = "ready"]]
    <2>1. /\ run' = [run EXCEPT !.phase = "last"]
          /\ calls' = [calls EXCEPT ![0] = [NoCall EXCEPT !.at = "ready"]]
      BY <1>4
    <2>2. /\ run' \in RunState /\ run'.phase = "last" /\ run'.quorum = run.quorum
          /\ run'.grace = run.grace /\ run'.order = run.order /\ run'.kind = run.kind
          /\ run'.panelCtx = run.panelCtx /\ run'.from = run.from
      BY <1>1, <2>1 DEF RunState
    <2>3. /\ calls' \in [Calls -> CallState]
          /\ \A n \in Calls \ {0} : calls'[n] = calls[n]
          /\ calls'[0].at = "ready" /\ calls'[0].key = NoKey /\ calls'[0].status = "none"
          /\ calls'[0].outcome = "none"
      BY <1>1, <2>1, CallsFinite DEF CallState, NoCall
    <2>4. Panel' = Panel /\ Answers' = Answers
      BY <1>2, <2>2, <2>3, CallsFinite DEF Panel, Answers, Taken
    <2>5. \A n \in Calls : At(n)' = At(n) /\ Holds(n)' = Holds(n)
      BY <1>1, <1>2, <2>2, <2>3, <2>4 DEF At, Holds
    <2>6. FusionInflightExact' /\ inflight' \in [Providers -> Nat]
      <3>1. \A q \in Providers : HoldersOf(q)' = HoldersOf(q)
        BY <2>5 DEF HoldersOf
      <3> QED
        BY <1>1, <3>1, Stays DEF IInv
    <2>7. Typed' /\ Keyed' /\ MeteredOnce'
      <3>1. \A n \in Members : calls'[n] = calls[n]
        BY <2>3, CallsFinite, FusionAssumption
      <3>2. \A n \in Members : calls'[n].status = calls[n].status /\ Ended(n)' = Ended(n)
        BY <3>1 DEF Ended
      <3> QED
        BY <1>1, <2>2, <2>3, <2>5, <2>6, <3>2, HandlerStep
    <2>8. Progress'
      <3>1. \A n \in Members : calls'[n] = calls[n]
        BY <2>3, CallsFinite, FusionAssumption
      <3>2. \A n \in Calls :
                /\ calls'[n].at \in {"none", "ready", "sent"} => calls'[n].status = "none"
                /\ calls'[n].at \in {"none", "ready", "sent", "body"} => calls'[n].outcome = "none"
        BY <2>3 DEF IInv, Progress
      <3> QED
        BY <1>1, <2>2, <2>3, <2>4, <3>1, <3>2 DEF IInv, Progress
    <2>9. Waited'
      <3>1. QuorumRespected'
        <4>1. \A n \in Panel : calls'[n] = calls[n]
          BY <1>2, <2>3, CallsFinite
        <4> QED
          BY <1>1, <2>2, <2>4, <4>1 DEF IInv, Waited, QuorumRespected
      <3> QED
        BY <1>1, <2>2, <2>4, <3>1 DEF IInv, Waited
    <2> QED
      BY <2>6, <2>7, <2>8, <2>9 DEF IInv
  <1>5. Failure \in {"fail", "error"}
    BY DEF Failure
  <1> QED
    BY <1>3, <1>4, <1>5 DEF Decide

LEMMA LastStep ==
    ASSUME IInv, LastEnds
    PROVE  IInv'
  <1>1. /\ run.phase = "last" /\ run.kind = "judge" /\ run.from = 0 /\ run \in RunState
        /\ calls[0].at = "landed" /\ calls[0].key = NoKey
        /\ calls' = [calls EXCEPT ![0].at = "taken"]
        /\ UNCHANGED <<pools, inflight, rows, runs, denied>>
        /\ calls \in [Calls -> CallState]
    BY CallsFinite DEF LastEnds, IInv, Progress, Typed, Keyed
  <1>2. PICK reply \in {"response", "fail", "error"} :
            run' = Returned(reply) /\ (reply = "response" <=> calls[0].outcome = "response")
    BY DEF LastEnds
  <1>3. /\ run' \in RunState /\ run'.quorum = run.quorum
        /\ run'.phase = IF calls[0].outcome = "response" THEN "relay" ELSE "idle"
        /\ run'.order = run.order /\ run'.kind = run.kind /\ run'.from = run.from
    BY <1>1, <1>2, ReturnedRun
  <1>4. /\ calls' \in [Calls -> CallState]
        /\ \A n \in Calls \ {0} : calls'[n] = calls[n]
        /\ calls'[0].at = "taken" /\ calls'[0].key = NoKey
        /\ calls'[0].outcome = calls[0].outcome
    BY <1>1, CallsFinite DEF CallState
  <1>5. Panel' = Panel /\ Answers' = Answers
    <2>1. Panel' = Panel /\ 0 \notin Panel /\ Panel \subseteq Members
      BY <1>3, PanelMembers, FusionAssumption DEF Panel, IInv
    <2> QED
      BY <1>4, <2>1, CallsFinite DEF Answers, Taken
  <1>6. \A n \in Calls : At(n)' = At(n)
    BY <1>3, <1>5 DEF At
  <1>7. \A n \in Calls : Holds(n)' = Holds(n)
    <2>1. Holds(0)' = Holds(0)
      BY <1>1, <1>3, <1>4 DEF Holds
    <2>2. \A n \in Members : calls[n].outcome # "response"
      BY <1>1 DEF IInv, Progress
    <2>3. \A n \in Calls \ {0} : Holds(n)' = Holds(n)
      BY <1>4, <2>2 DEF Holds, Calls
    <2> QED
      BY <2>1, <2>3
  <1>8. FusionInflightExact' /\ inflight' \in [Providers -> Nat]
    <2>1. \A q \in Providers : HoldersOf(q)' = HoldersOf(q)
      BY <1>6, <1>7 DEF HoldersOf
    <2> QED
      BY <1>1, <2>1, Stays DEF IInv
  <1>9. \A n \in Members : calls'[n] = calls[n]
    BY <1>4, CallsFinite, FusionAssumption
  <1>10. Typed' /\ Keyed' /\ MeteredOnce'
    <2>1. \A n \in Members : calls'[n].status = calls[n].status /\ Ended(n)' = Ended(n)
      BY <1>9 DEF Ended
    <2> QED
      BY <1>1, <1>3, <1>4, <1>6, <1>8, <2>1, HandlerStep
  <1>11. Progress'
    <2>1. \A n \in Calls :
              /\ calls'[n].at \in {"none", "ready", "sent"} => calls'[n].status = "none"
              /\ calls'[n].at \in {"none", "ready", "sent", "body"} => calls'[n].outcome = "none"
      BY <1>4 DEF IInv, Progress
    <2> QED
      BY <1>1, <1>3, <1>4, <1>5, <1>9, <2>1 DEF IInv, Progress
  <1>12. Waited'
    BY <1>3 DEF Waited, QuorumRespected
  <1> QED
    BY <1>8, <1>10, <1>11, <1>12 DEF IInv

LEMMA CloseStep ==
    ASSUME IInv, CloseBody
    PROVE  IInv'
  <1>1. /\ run.phase = "relay" /\ run \in RunState /\ run.from \in Calls
        /\ run' = [run EXCEPT !.phase = "idle"] /\ Leave(At(run.from))
        /\ UNCHANGED <<pools, calls, rows, runs, denied>>
    BY DEF CloseBody, IInv, Typed, RunState
  <1>2. /\ run' \in RunState /\ run'.phase = "idle" /\ run'.quorum = run.quorum
        /\ run'.order = run.order /\ run'.kind = run.kind /\ run'.from = run.from
    BY <1>1 DEF RunState
  <1>3. Panel' = Panel /\ Answers' = Answers
    BY <1>1, <1>2 DEF Panel, Answers, Taken
  <1>4. \A n \in Calls : At(n)' = At(n) /\ Ended(n)' = Ended(n)
    BY <1>1, <1>2, <1>3 DEF At, Ended
  <1>5. FusionInflightExact' /\ inflight' \in [Providers -> Nat]
    <2>1. /\ calls[run.from].at = "taken" /\ calls[run.from].outcome = "response"
          /\ run.kind # "none"
      BY <1>1 DEF IInv, Progress
    <2>2. Holds(run.from) /\ \A n \in Calls : Holds(n)' <=> Holds(n) /\ n # run.from
      BY <1>1, <1>2, <2>1 DEF Holds
    <2>3. At(run.from) \in Providers /\ run.from \in HoldersOf(At(run.from))
      BY <1>1, <2>1, <2>2, AtProvider DEF HoldersOf, IInv
    <2>4. \A q \in Providers :
              HoldersOf(q)' = IF q = At(run.from) THEN HoldersOf(q) \ {run.from} ELSE HoldersOf(q)
      BY <1>4, <2>2, <2>3 DEF HoldersOf
    <2> QED
      BY <1>1, <2>3, <2>4, Leaves DEF IInv
  <1>6. Typed' /\ Keyed' /\ MeteredOnce'
    BY <1>1, <1>2, <1>4, <1>5, CallsFinite, HandlerStep DEF IInv, Typed
  <1>7. Progress'
    BY <1>1, <1>2, <1>3 DEF IInv, Progress
  <1>8. Waited'
    BY <1>2 DEF Waited, QuorumRespected
  <1> QED
    BY <1>5, <1>6, <1>7, <1>8 DEF IInv

LEMMA AbortStep ==
    ASSUME IInv, Abort
    PROVE  IInv'
  <1>1. /\ run \in RunState
        /\ run' = [run EXCEPT !.ctx = "canceled", !.panelCtx = Cancel(run.panelCtx)]
        /\ UNCHANGED <<pools, inflight, calls, rows, runs, denied>>
    BY DEF Abort, IInv, Typed
  <1>2. Cancel(run.panelCtx) \in {"canceled", "expired"}
    BY <1>1 DEF Cancel, RunState
  <1>3. /\ run' \in RunState /\ run'.phase = run.phase /\ run'.quorum = run.quorum
        /\ run'.grace = run.grace /\ run'.order = run.order /\ run'.kind = run.kind
        /\ run'.from = run.from /\ run'.panelCtx # "live"
    BY <1>1, <1>2 DEF RunState
  <1>4. Panel' = Panel /\ Answers' = Answers
    BY <1>1, <1>3 DEF Panel, Answers, Taken
  <1>5. \A n \in Calls : At(n)' = At(n) /\ Holds(n)' = Holds(n) /\ Ended(n)' = Ended(n)
    BY <1>1, <1>3, <1>4 DEF At, Holds, Ended
  <1>6. FusionInflightExact' /\ inflight' \in [Providers -> Nat]
    <2>1. \A q \in Providers : HoldersOf(q)' = HoldersOf(q)
      BY <1>5 DEF HoldersOf
    <2> QED
      BY <1>1, <2>1, Stays DEF IInv
  <1>7. Typed' /\ Keyed' /\ MeteredOnce'
    BY <1>1, <1>3, <1>5, <1>6, CallsFinite, HandlerStep DEF IInv, Typed
  <1>8. Progress'
    BY <1>1, <1>3, <1>4 DEF IInv, Progress
  <1>9. Waited'
    <2>1. QuorumRespected'
      BY <1>3 DEF QuorumRespected
    <2>2. run.phase \in {"panel", "decide", "last"} /\ run.grace # None =>
              Cardinality(Answers) >= run.quorum
      BY DEF IInv, Waited
    <2> QED
      BY <1>3, <1>4, <2>1, <2>2 DEF Waited
  <1> QED
    BY <1>6, <1>7, <1>8, <1>9 DEF IInv

\* Of two racers with a response, one is the winner and the other the loser.
LEMMA WinnerFacts ==
    ASSUME IInv, run.kind = "race", Responses # {}
    PROVE  /\ Winner \in Responses
           /\ Responses # {Winner} =>
                \E loser \in Responses :
                    /\ loser # Winner /\ Responses = {Winner, loser}
                    /\ loser = CHOOSE m \in Responses : m # Winner
  <1> DEFINE a == run.order[1]
             b == run.order[2]
  <1>1. /\ run.order \in Seq(Members) /\ Len(run.order) = 2 /\ a # b
    BY DEF IInv, Typed, RunState, Progress
  <1>2. DOMAIN run.order = {1, 2} /\ a \in Members /\ b \in Members
    <2>1. DOMAIN run.order = 1 .. 2
      BY <1>1, LenProperties
    <2> QED
      BY <1>1, <2>1, ElementOfSeq
  <1>3. Panel = {a, b}
    BY <1>2 DEF Panel, Range
  <1>4. Place(a) = 1 /\ Place(b) = 2
    BY <1>1, <1>2 DEF Place
  <1>5. Cost[a] \in Nat /\ Cost[b] \in Nat
    BY <1>2, FusionAssumption
  <1>6. Responses \subseteq {a, b}
    BY <1>3 DEF Responses
  <1> HIDE DEF a, b
  <1>7. Better(a, b) \/ Better(b, a)
    BY <1>4, <1>5 DEF Better
  <1>8. \E m \in Responses : \A n \in Responses \ {m} : Better(m, n)
    <2>1. CASE Responses = {a, b}
      BY <1>7, <2>1
    <2>2. CASE Responses # {a, b}
      <3>1. PICK m : Responses = {m}
        BY <1>6, <2>2
      <3> QED
        BY <3>1
    <2> QED
      BY <2>1, <2>2
  <1>9. Winner \in Responses
    BY <1>8 DEF Winner
  <1>10. ASSUME Responses # {Winner}
         PROVE  \E loser \in Responses :
                    /\ loser # Winner /\ Responses = {Winner, loser}
                    /\ loser = CHOOSE m \in Responses : m # Winner
    <2>1. PICK m \in Responses : m # Winner
      BY <1>9, <1>10
    <2>2. DEFINE loser == CHOOSE n \in Responses : n # Winner
    <2>3. loser \in Responses /\ loser # Winner
      BY <2>1
    <2> HIDE DEF loser
    <2>4. Responses = {Winner, loser}
      BY <1>6, <1>9, <2>3
    <2> QED
      BY <2>3, <2>4 DEF loser
  <1> QED
    BY <1>9, <1>10

LEMMA RaceStep ==
    ASSUME IInv, RaceEnds
    PROVE  IInv'
  <1>1. /\ run.phase = "race" /\ run.kind = "race" /\ run \in RunState
        /\ \A m \in Panel : calls[m].at = "landed" /\ calls[m].key = NoKey
        /\ UNCHANGED <<pools, rows, runs, denied>>
        /\ calls \in [Calls -> CallState] /\ Panel \subseteq Members
    <2>1. Panel \subseteq Members
      BY PanelMembers DEF IInv
    <2>2. \A m \in Panel : calls[m].at = "landed"
      BY DEF RaceEnds
    <2> QED
      BY <2>1, <2>2, CallsFinite DEF RaceEnds, IInv, Progress, Typed, Keyed
  <1>2. /\ \A m \in Members \ Panel : calls[m].at = "none"
        /\ calls[0].at = "none"
        /\ \A m \in Calls \ Panel : calls[m].at = "none" /\ calls[m].key = NoKey
    <2>1. calls[0].at = "none" /\ \A m \in Members \ Panel : calls[m].at = "none"
      BY <1>1 DEF IInv, Progress
    <2> QED
      BY <2>1 DEF IInv, Keyed, Calls
  <1>3. calls' = [m \in Calls |-> IF m \in Panel THEN [calls[m] EXCEPT !.at = "taken"] ELSE calls[m]]
    BY DEF RaceEnds
  <1>4. /\ calls' \in [Calls -> CallState]
        /\ \A m \in Calls :
              /\ calls'[m].key = NoKey /\ calls'[m].status = calls[m].status
              /\ calls'[m].outcome = calls[m].outcome
              /\ calls'[m].at = IF m \in Panel THEN "taken" ELSE "none"
    <2>1. ASSUME NEW m \in Calls
          PROVE  /\ calls'[m] \in CallState
                 /\ calls'[m].key = NoKey /\ calls'[m].status = calls[m].status
                 /\ calls'[m].outcome = calls[m].outcome
                 /\ calls'[m].at = IF m \in Panel THEN "taken" ELSE "none"
      <3>1. calls'[m] = IF m \in Panel THEN [calls[m] EXCEPT !.at = "taken"] ELSE calls[m]
        BY <1>3
      <3>2. calls[m] \in CallState
        BY <1>1
      <3>3. CASE m \in Panel
        BY <1>1, <3>1, <3>2, <3>3 DEF CallState
      <3>4. CASE m \notin Panel
        BY <1>2, <3>1, <3>2, <3>4
      <3> QED
        BY <3>3, <3>4
    <2>2. calls' = [m \in Calls |-> calls'[m]]
      BY <1>3
    <2> QED
      BY <2>1, <2>2
  <1>5. \A m \in Calls : Holds(m) <=> m \in Responses
    BY <1>1, <1>2, CallsFinite DEF Holds, Responses
  <1>6. /\ run' \in RunState /\ run'.phase \in {"idle", "relay"} /\ run'.quorum = run.quorum
        /\ run'.order = run.order /\ run'.kind = run.kind
        /\ Responses = {} => run'.phase = "idle"
        /\ Responses # {} => run'.phase = "relay" /\ run'.from = Winner
    <2>1. CASE Responses = {}
      <3>1. PICK reply \in {"fail", "error"} : run' = Returned(reply)
        BY <2>1 DEF RaceEnds
      <3> QED
        BY <1>1, <2>1, <3>1, ReturnedRun
    <2>2. CASE Responses # {}
      <3>1. run' = [Returned("response") EXCEPT !.from = Winner]
        BY <2>2 DEF RaceEnds
      <3>2. Winner \in Calls
        BY <1>1, <2>2, WinnerFacts, CallsFinite DEF Responses
      <3>3. /\ Returned("response") \in RunState /\ Returned("response").phase = "relay"
            /\ Returned("response").kind = run.kind /\ Returned("response").order = run.order
            /\ Returned("response").quorum = run.quorum
        BY <1>1, ReturnedRun
      <3> HIDE DEF Returned
      <3> QED
        BY <2>2, <3>1, <3>2, <3>3 DEF RunState
    <2> QED
      BY <2>1, <2>2
  <1>7. \A m \in Calls : Holds(m)' <=> Responses # {} /\ m = Winner
    <2>1. Responses # {} => Winner \in Panel /\ calls[Winner].outcome = "response" /\ Winner \in Calls
      BY <1>1, WinnerFacts, CallsFinite DEF Responses
    <2> QED
      BY <1>4, <1>6, <2>1 DEF Holds
  <1>8. \A m \in Calls \ {0} : At(m)' = At(m)
    BY DEF At
  <1>9. \A m \in Responses : m \in Calls \ {0} /\ At(m) \in Providers
    <2>1. Responses \subseteq Calls /\ 0 \notin Responses
      BY <1>1, CallsFinite, FusionAssumption DEF Responses
    <2> QED
      BY <1>1, <2>1, AtProvider DEF IInv
  <1>10. \A q \in Providers :
             /\ HoldersOf(q) = {m \in Responses : At(m) = q}
             /\ HoldersOf(q)' = {m \in Responses : m = Winner /\ At(m) = q}
    <2>1. \A m \in Calls : Holds(m)' <=> m \in Responses /\ m = Winner
      BY <1>1, <1>7, WinnerFacts
    <2> QED
      BY <1>5, <1>8, <1>9, <2>1 DEF HoldersOf
  <1>11. FusionInflightExact' /\ inflight' \in [Providers -> Nat]
    <2>1. CASE Responses = {} \/ Responses = {Winner}
      <3>1. inflight' = inflight
        BY <2>1 DEF RaceEnds
      <3>2. \A q \in Providers : HoldersOf(q)' = HoldersOf(q)
        BY <1>10, <2>1
      <3> QED
        BY <3>1, <3>2, Stays DEF IInv
    <2>2. CASE Responses # {} /\ Responses # {Winner}
      <3>1. PICK loser \in Responses :
                /\ loser # Winner /\ Responses = {Winner, loser}
                /\ loser = CHOOSE m \in Responses : m # Winner
        BY <1>1, <2>2, WinnerFacts
      <3>2. Leave(At(loser))
        BY <2>2, <3>1 DEF RaceEnds, Discard
      <3>3. loser \in HoldersOf(At(loser)) /\ At(loser) \in Providers
        BY <1>9, <1>10, <3>1
      <3>4. \A q \in Providers :
                HoldersOf(q)' = IF q = At(loser) THEN HoldersOf(q) \ {loser} ELSE HoldersOf(q)
        BY <1>10, <3>1
      <3> QED
        BY <3>2, <3>3, <3>4, Leaves DEF IInv
    <2> QED
      BY <2>1, <2>2
  <1>12. Typed' /\ Keyed' /\ MeteredOnce'
    <2>1. \A m \in Members : calls'[m].status = calls[m].status /\ Ended(m)' = Ended(m)
      BY <1>1, <1>2, <1>4, CallsFinite DEF Ended
    <2> QED
      BY <1>1, <1>4, <1>6, <1>11, <2>1, HandlerStep
  <1>13. Panel' = Panel
    BY <1>6 DEF Panel
  <1>14. Progress'
    <2>1. run'.phase = "relay" =>
              calls'[run'.from].at = "taken" /\ calls'[run'.from].outcome = "response"
      BY <1>1, <1>4, <1>6, WinnerFacts, CallsFinite DEF Responses
    <2>2. \A m \in Calls : calls'[m].at \in {"none", "taken"}
      BY <1>4
    <2>3. calls'[0].at = "none" /\ \A m \in Members : calls'[m].at # "none" => m \in Panel
      BY <1>1, <1>4, CallsFinite, FusionAssumption
    <2>4. \A m \in Calls :
              /\ calls'[m].at = "none" => calls'[m].status = "none" /\ calls'[m].outcome = "none"
      BY <1>2, <1>4 DEF IInv, Progress
    <2> QED
      BY <1>1, <1>6, <1>13, <2>1, <2>2, <2>3, <2>4 DEF IInv, Progress
  <1>15. Waited'
    BY <1>6 DEF Waited, QuorumRespected
  <1> QED
    BY <1>11, <1>12, <1>14, <1>15 DEF IInv

LEMMA TickStep ==
    ASSUME IInv, Tick
    PROVE  IInv'
  <1>1. run \in RunState /\ UNCHANGED <<inflight, calls, rows, runs>>
    BY DEF Tick, IInv, Typed
  <1>2. /\ run' \in RunState /\ run'.phase = run.phase /\ run'.quorum = run.quorum
        /\ run'.order = run.order /\ run'.kind = run.kind /\ run'.from = run.from
        /\ run'.grace = None <=> run.grace = None
        /\ run.grace = 0 => run'.grace = 0
        /\ run.panelCtx # "live" => run'.panelCtx # "live"
    <2>1. CASE ~Waits
      BY <1>1, <2>1 DEF Tick, Timers, Waits
    <2>2. CASE Waits
      <3> DEFINE grace == IF run.grace = None THEN None ELSE Less(run.grace)
                 deadline == Less(run.deadline)
                 panelCtx == IF run.deadline = 1 THEN "expired" ELSE run.panelCtx
      <3>1. run' = [run EXCEPT !.grace = grace, !.deadline = deadline, !.panelCtx = panelCtx]
        BY <2>2 DEF Tick, Timers
      <3>2. run.grace \in 0 .. Grace \cup {None} /\ run.deadline \in 0 .. Timeout
        BY <1>1 DEF RunState
      <3>3. /\ grace \in 0 .. Grace \cup {None} /\ deadline \in 0 .. Timeout
            /\ (grace = None <=> run.grace = None) /\ (run.grace = 0 => grace = 0)
        <4>1. None \notin Nat /\ Grace \in Nat /\ Timeout \in Nat
          BY FusionAssumption
        <4>2. CASE run.grace = None
          BY <3>2, <4>1, <4>2 DEF Less
        <4>3. CASE run.grace # None
          <5>1. run.grace \in 0 .. Grace /\ Less(run.grace) \in 0 .. Grace
            BY <3>2, <4>1, <4>3 DEF Less
          <5>2. grace = Less(run.grace) /\ grace # None
            BY <4>1, <4>3, <5>1
          <5> QED
            BY <3>2, <4>1, <4>3, <5>1, <5>2 DEF Less
        <4> QED
          BY <4>2, <4>3
      <3>4. panelCtx \in {"live", "canceled", "expired"} /\ run.panelCtx = "live"
        BY <1>1, <2>2 DEF RunState, Waits
      <3> HIDE DEF grace, deadline, panelCtx
      <3> QED
        BY <1>1, <3>1, <3>3, <3>4 DEF RunState
    <2> QED
      BY <2>1, <2>2
  <1>3. Panel' = Panel /\ Answers' = Answers
    BY <1>1, <1>2 DEF Panel, Answers, Taken
  <1>4. \A n \in Calls : At(n)' = At(n) /\ Holds(n)' = Holds(n) /\ Ended(n)' = Ended(n)
    BY <1>1, <1>2, <1>3 DEF At, Holds, Ended
  <1>5. FusionInflightExact' /\ inflight' \in [Providers -> Nat]
    <2>1. \A q \in Providers : HoldersOf(q)' = HoldersOf(q)
      BY <1>4 DEF HoldersOf
    <2> QED
      BY <1>1, <2>1, Stays DEF IInv
  <1>6. /\ pools' = [q \in Providers |-> pools'[q]] /\ denied' = [q \in Providers |-> denied'[q]]
        /\ \A q \in Providers :
              /\ IsPool(pools'[q], KeysAt[q])
              /\ pools'[q].cool = [k \in 1 .. KeysAt[q] |-> Less(pools[q].cool[k])]
              /\ denied'[q] = [k \in 1 .. KeysAt[q] |->
                     IF denied[q][k] = KeyCooldown THEN KeyCooldown ELSE denied[q][k] + 1]
    <2>1. /\ pools' = [q \in Providers |-> PassTime(pools[q])]
          /\ denied' = [q \in Providers |-> [k \in DOMAIN denied[q] |->
                IF denied[q][k] = KeyCooldown THEN KeyCooldown ELSE denied[q][k] + 1]]
      BY DEF Tick
    <2>2. ASSUME NEW q \in Providers
          PROVE  /\ IsPool(PassTime(pools[q]), KeysAt[q])
                 /\ PassTime(pools[q]).cool = [k \in 1 .. KeysAt[q] |-> Less(pools[q].cool[k])]
                 /\ DOMAIN denied[q] = 1 .. KeysAt[q]
      <3>1. KeysAt[q] \in Nat /\ IsPool(pools[q], KeysAt[q])
        BY FusionAssumption DEF IInv, Typed
      <3>2. denied[q] \in [1 .. KeysAt[q] -> 0 .. KeyCooldown]
        BY DEF IInv, Typed
      <3> QED
        BY <3>1, <3>2, PassedPool
    <2> QED
      BY <2>1, <2>2
  <1>7. ASSUME NEW q \in Providers, NEW k \in 1 .. KeysAt[q]
        PROVE  denied'[q][k] \in 0 .. KeyCooldown /\ denied'[q][k] + pools'[q].cool[k] = KeyCooldown
    <2>1. IsPool(pools[q], KeysAt[q]) /\ KeysAt[q] \in Nat
      BY FusionAssumption DEF IInv, Typed
    <2>2. /\ denied[q][k] \in 0 .. KeyCooldown /\ pools[q].cool[k] \in 0 .. KeyCooldown
          /\ denied[q][k] + pools[q].cool[k] = KeyCooldown
      <3>1. denied[q] \in [1 .. KeysAt[q] -> 0 .. KeyCooldown]
        BY DEF IInv, Typed
      <3>2. pools[q].cool \in [1 .. KeysAt[q] -> 0 .. KeyCooldown]
        BY <2>1, PoolFields
      <3> QED
        BY <3>1, <3>2 DEF IInv, Keyed
    <2>3. /\ pools'[q].cool[k] = Less(pools[q].cool[k])
          /\ denied'[q][k] = IF denied[q][k] = KeyCooldown THEN KeyCooldown ELSE denied[q][k] + 1
      BY <1>6
    <2> QED
      BY <2>2, <2>3, KeyPoolAssumption DEF Less
  <1>8. \A q \in Providers : denied'[q] \in [1 .. KeysAt[q] -> 0 .. KeyCooldown]
    BY <1>6, <1>7
  <1>9. Typed'
    BY <1>1, <1>2, <1>5, <1>6, <1>8 DEF IInv, Typed
  <1>10. Keyed'
    BY <1>1, <1>4, <1>7 DEF IInv, Keyed
  <1>11. MeteredOnce'
    BY <1>1, <1>2, <1>4, CallsFinite DEF IInv, MeteredOnce
  <1>12. Progress'
    BY <1>1, <1>2, <1>3 DEF IInv, Progress
  <1>13. Waited'
    <2>1. QuorumRespected'
      BY <1>1, <1>2, <1>3 DEF IInv, Waited, QuorumRespected
    <2>2. run.phase \in {"panel", "decide", "last"} /\ run.grace # None =>
              Cardinality(Answers) >= run.quorum
      BY DEF IInv, Waited
    <2> QED
      BY <1>2, <1>3, <2>1, <2>2 DEF Waited
  <1> QED
    BY <1>5, <1>9, <1>10, <1>11, <1>12, <1>13 DEF IInv

LEMMA QuorumBound ==
    ASSUME NEW minPanel \in Nat, NEW size \in Nat
    PROVE  QuorumOf(minPanel, size) \in Nat /\ QuorumOf(minPanel, size) <= size
  BY DEF QuorumOf

LEMMA StartStep ==
    ASSUME IInv, NEW kind \in {"race", "judge"}, NEW order \in Orders, NEW n \in MinPanels,
           Start(kind, order, n)
    PROVE  IInv'
  <1> DEFINE started == IF kind = "race" THEN SubSeq(order, 1, 2) ELSE order
             quorum == IF kind = "judge" THEN QuorumOf(n, Len(order)) ELSE 0
             phase == IF kind = "race" THEN "race" ELSE "panel"
  <1>1. /\ run.phase = "idle" /\ runs' = runs + 1 /\ runs < MaxRuns
        /\ \A m \in Calls : Ended(m)
        /\ run' = [phase |-> phase, kind |-> kind, order |-> started, quorum |-> quorum,
                   grace |-> None, deadline |-> Timeout, ctx |-> "live", panelCtx |-> "live",
                   reply |-> "none", from |-> 0]
        /\ calls' = Ready(started)
        /\ rows' = [m \in Members |-> 0]
        /\ UNCHANGED <<pools, inflight, denied>>
    BY DEF Start, NoRun
  <1>2. order \in Seq(Members) /\ Len(order) \in Nat /\ Len(order) > 1 /\ IsInjective(order)
    BY FusionAssumption, LenProperties
  <1>3. /\ started \in Seq(Members) /\ Len(started) > 1
        /\ kind = "race" => Len(started) = 2 /\ started[1] # started[2]
        /\ kind = "judge" => started = order
    <2>1. CASE kind = "race"
      <3>1. order[1] \in Members /\ order[2] \in Members /\ DOMAIN order = 1 .. Len(order)
        BY <1>2, ElementOfSeq, LenProperties
      <3>2. order[1] # order[2]
        BY <1>2, <3>1 DEF IsInjective
      <3>3. \A i \in 1 .. 2 : order[i] \in Members
        BY <3>1
      <3>4. /\ SubSeq(order, 1, 2) \in Seq(Members) /\ Len(SubSeq(order, 1, 2)) = 2
            /\ \A i \in 1 .. 2 : SubSeq(order, 1, 2)[i] = order[i]
        BY <3>3, SubSeqProperties
      <3> HIDE DEF started
      <3>5. started = SubSeq(order, 1, 2)
        BY <2>1 DEF started
      <3> QED
        BY <2>1, <3>2, <3>4, <3>5
    <2>2. CASE kind = "judge"
      BY <1>2, <2>2
    <2> QED
      BY <2>1, <2>2
  <1>4. quorum \in Nat /\ quorum <= Len(started)
    <2>1. n \in Nat
      BY FusionAssumption
    <2>2. CASE kind = "race"
      BY <1>3, <2>2
    <2>3. CASE kind = "judge"
      BY <1>2, <1>3, <2>1, <2>3, QuorumBound
    <2> QED
      BY <2>2, <2>3
  <1>5. phase \in {"race", "panel"} /\ (phase = "race" <=> kind = "race")
    OBVIOUS
  <1> HIDE DEF started, quorum, phase
  <1>6. /\ run' \in RunState /\ run'.quorum <= Len(run'.order)
        /\ run'.phase = phase /\ run'.kind = kind /\ run'.order = started /\ run'.grace = None
        /\ run'.from = 0
    BY <1>1, <1>3, <1>4, <1>5, FusionAssumption, CallsFinite DEF RunState
  <1>7. \A m \in Calls :
            /\ calls'[m] \in CallState /\ calls'[m].key = NoKey /\ calls'[m].status = "none"
            /\ calls'[m].outcome = "none" /\ calls'[m].at \in {"none", "ready"}
            /\ calls'[m].at = "ready" => m \in Range(started)
    <2>1. NoCall \in CallState /\ [NoCall EXCEPT !.at = "ready"] \in CallState
      BY DEF NoCall, CallState
    <2> QED
      BY <1>1, <2>1 DEF Ready, NoCall
  <1>8. calls' \in [Calls -> CallState]
    BY <1>1, <1>7 DEF Ready
  <1>9. Panel' = Range(started) /\ Panel' \subseteq Members
    <2>1. Range(started) \subseteq Members
      BY <1>3, ElementOfSeq, LenProperties DEF Range
    <2> QED
      BY <1>6, <2>1 DEF Panel
  <1>10. \A m \in Calls : ~Holds(m) /\ ~Holds(m)'
    <2>1. ASSUME NEW m \in Calls PROVE ~Holds(m)
      <3>1. calls[m].at \in {"none", "landed", "taken"}
        BY <1>1 DEF Ended
      <3>2. calls[m].at = "landed" => calls[m].outcome # "response"
        BY <1>1, <3>1 DEF IInv, Progress, Calls, Typed, RunState
      <3> QED
        BY <1>1, <3>1, <3>2 DEF Holds
    <2>2. ASSUME NEW m \in Calls PROVE ~Holds(m)'
      BY <1>7 DEF Holds
    <2> QED
      BY <2>1, <2>2
  <1>11. FusionInflightExact' /\ inflight' \in [Providers -> Nat]
    <2>1. \A q \in Providers : HoldersOf(q)' = HoldersOf(q)
      BY <1>10 DEF HoldersOf
    <2> QED
      BY <1>1, <2>1, Stays DEF IInv
  <1>12. Typed'
    <2>1. runs' \in 0 .. MaxRuns
      <3>1. runs \in 0 .. MaxRuns
        BY <1>1 DEF IInv, Typed
      <3>2. MaxRuns \in Nat
        BY FusionAssumption
      <3>3. runs < MaxRuns /\ runs' = runs + 1
        BY <1>1
      <3> QED
        BY <3>1, <3>2, <3>3
    <2>2. rows' \in [Members -> Nat]
      BY <1>1
    <2> QED
      BY <1>1, <1>6, <1>8, <1>11, <2>1, <2>2 DEF IInv, Typed
  <1>13. Keyed'
    BY <1>1, <1>7 DEF IInv, Keyed
  <1>14. Progress'
    <2>1. 0 \notin Panel'
      BY <1>9, FusionAssumption
    <2>2. calls'[0].at = "none"
      BY <1>7, <1>9, <2>1, CallsFinite
    <2>3. \A m \in Members : calls'[m].outcome # "response" /\ (calls'[m].at # "none" => m \in Panel')
      BY <1>7, <1>9, CallsFinite
    <2>4. started # <<>>
      BY <1>3, EmptySeq
    <2> QED
      BY <1>3, <1>5, <1>6, <1>7, <2>2, <2>3, <2>4 DEF Progress
  <1>15. Waited'
    BY <1>5, <1>6 DEF Waited, QuorumRespected
  <1>16. MeteredOnce'
    BY <1>1, <1>7, CallsFinite DEF MeteredOnce
  <1> QED
    BY <1>11, <1>12, <1>13, <1>14, <1>15, <1>16 DEF IInv

-----------------------------------------------------------------------------
(* The theorems                                                            *)

LEMMA InitInvariant ==
    Init => IInv
  <1> SUFFICES ASSUME Init PROVE IInv
    OBVIOUS
  <1>1. /\ pools = [p \in Providers |-> NewKeyPool(KeysAt[p])]
        /\ inflight = [p \in Providers |-> 0] /\ run = NoRun
        /\ calls = [m \in Calls |-> NoCall] /\ rows = [m \in Members |-> 0] /\ runs = 0
        /\ denied = [p \in Providers |-> [k \in 1 .. KeysAt[p] |-> KeyCooldown]]
    BY DEF Init
  <1>2. ASSUME NEW p \in Providers
        PROVE  /\ IsPool(pools[p], KeysAt[p])
               /\ denied[p] \in [1 .. KeysAt[p] -> 0 .. KeyCooldown]
               /\ \A k \in 1 .. KeysAt[p] : denied[p][k] + pools[p].cool[k] = KeyCooldown
    <2>1. KeysAt[p] \in Nat
      BY FusionAssumption
    <2>2. /\ IsPool(NewKeyPool(KeysAt[p]), KeysAt[p])
          /\ NewKeyPool(KeysAt[p]).cool = [k \in 1 .. KeysAt[p] |-> 0]
      BY <2>1, NewPool
    <2>3. \A k \in 1 .. KeysAt[p] : denied[p][k] = KeyCooldown /\ pools[p].cool[k] = 0
      BY <1>1, <2>2
    <2>4. denied[p] = [k \in 1 .. KeysAt[p] |-> KeyCooldown]
      BY <1>1
    <2> QED
      BY <1>1, <2>2, <2>3, <2>4, KeyPoolAssumption
  <1>3. run \in RunState /\ run.quorum <= Len(run.order) /\ run.order = <<>>
        /\ run.phase = "idle" /\ run.kind = "none"
    <2>1. <<>> \in Seq(Members) /\ Len(<<>>) = 0
      OBVIOUS
    <2> QED
      BY <1>1, <2>1, FusionAssumption, CallsFinite DEF NoRun, RunState
  <1>4. \A m \in Calls : calls[m] = NoCall /\ NoCall \in CallState
    BY <1>1 DEF NoCall, CallState
  <1>5. Typed
    BY <1>1, <1>2, <1>3, <1>4, FusionAssumption DEF Typed
  <1>6. Keyed
    BY <1>2, <1>4 DEF Keyed, NoCall
  <1>7. Progress
    <2>1. calls[0] = NoCall /\ \A m \in Members : calls[m] = NoCall
      BY <1>4, CallsFinite
    <2> QED
      BY <1>3, <1>4, <2>1 DEF Progress, NoCall
  <1>8. Waited
    BY <1>3 DEF Waited, QuorumRespected
  <1>9. FusionInflightExact
    <2>1. \A m \in Calls : ~Holds(m)
      BY <1>3, <1>4 DEF Holds, NoCall
    <2>2. \A p \in Providers : {m \in Calls : Holds(m) /\ At(m) = p} = {}
      BY <2>1
    <2> QED
      BY <1>1, <2>2, FS_EmptySet DEF FusionInflightExact
  <1>10. MeteredOnce
    BY <1>3 DEF MeteredOnce
  <1> QED
    BY <1>5, <1>6, <1>7, <1>8, <1>9, <1>10 DEF IInv

LEMMA StutterStep ==
    ASSUME IInv, UNCHANGED vars
    PROVE  IInv'
  <1> USE DEF vars
  <1>1. Typed' /\ Keyed' /\ Progress'
    BY DEF IInv, Typed, Keyed, Progress, At, Panel, Answers, Taken
  <1>2. Waited'
    BY DEF IInv, Waited, QuorumRespected, Panel, Answers, Taken
  <1>3. Panel' = Panel /\ Answers' = Answers
    BY DEF Panel, Answers, Taken
  <1>4. \A n \in Calls : At(n)' = At(n) /\ Holds(n)' = Holds(n) /\ Ended(n)' = Ended(n)
    BY <1>3 DEF At, Holds, Ended
  <1>5. FusionInflightExact'
    <2>1. \A q \in Providers : HoldersOf(q)' = HoldersOf(q)
      BY <1>4 DEF HoldersOf
    <2> QED
      BY <2>1, Stays DEF IInv
  <1>6. MeteredOnce'
    BY <1>4, CallsFinite DEF IInv, MeteredOnce
  <1> QED
    BY <1>1, <1>2, <1>5, <1>6 DEF IInv

THEOREM Invariance ==
    Spec => []IInv
  <1>1. ASSUME IInv, [Next]_vars
        PROVE  IInv'
    <2>1. CASE UNCHANGED vars
      BY <1>1, <2>1, StutterStep
    <2>2. ASSUME NEW kind \in {"race", "judge"}, NEW order \in Orders, NEW n \in MinPanels,
                 Start(kind, order, n)
          PROVE  IInv'
      BY <1>1, <2>2, StartStep
    <2>3. ASSUME NEW m \in Calls, Call(m)
          PROVE  IInv'
      BY <1>1, <2>3, LaunchStep, BreakStep, RespondStep, HeadersStep, ReadStep DEF Call
    <2>4. CASE Handle
      BY <1>1, <2>4, StopStep, DecideStep, LastStep, RaceStep, CloseStep, CollectStep DEF Handle
    <2>5. CASE Abort
      BY <1>1, <2>5, AbortStep
    <2>6. CASE Tick
      BY <1>1, <2>6, TickStep
    <2> QED
      BY <1>1, <2>1, <2>2, <2>3, <2>4, <2>5, <2>6 DEF Next
  <1> QED
    BY <1>1, InitInvariant, PTL DEF Spec

\* Types: every record of a request, a call and a pool stays what the code declares,
\* and a call's key is a key of the provider that it is sent to.
THEOREM TypeCorrect ==
    Spec => []TypeOK
  <1>1. ASSUME IInv PROVE TypeOK
    <2>1. run.quorum \in 0 .. Len(run.order)
      <3>1. Len(run.order) \in Nat /\ run.quorum \in Nat /\ run.quorum <= Len(run.order)
        BY <1>1, LenProperties DEF IInv, Typed, RunState
      <3> QED
        BY <3>1
    <2>2. run \in RunState
      BY <1>1 DEF IInv, Typed
    <2>3. \A m \in Calls : calls[m].key # NoKey => calls[m].key \in 1 .. KeysAt[At(m)]
      BY <1>1 DEF IInv, Keyed
    <2> QED
      BY <1>1, <2>1, <2>2, <2>3 DEF IInv, Typed, RunState, TypeOK
  <1> QED
    BY <1>1, Invariance, PTL

\* A provider's inflight counter is the number of its calls under way, however racers,
\* losers, stragglers and the last call end (fusion.go:70).
THEOREM InflightExactHolds ==
    Spec => []FusionInflightExact
  <1>1. IInv => FusionInflightExact
    BY DEF IInv
  <1> QED
    BY <1>1, Invariance, PTL

\* A panel is judged when all answers are in, when the quorum has waited out its grace,
\* or when the deadline or the client ends the wait (README "Collection").
THEOREM QuorumHolds ==
    Spec => []QuorumRespected
  <1>1. IInv => QuorumRespected
    BY DEF IInv, Waited
  <1> QED
    BY <1>1, Invariance, PTL

\* Every 200 that a panel call has ended with has exactly one usage row, and nothing
\* else has one (fusionjudge.go, panelCall).
THEOREM MeteredHolds ==
    Spec => []MeteredOnce
  <1>1. IInv => MeteredOnce
    BY DEF IInv
  <1> QED
    BY <1>1, Invariance, PTL

\* A key is sent with a call only when its last 401 or 429 is a whole cooldown ago,
\* and a call fails for want of a key only when none has rested that long
\* (keypool.go, pick and cooldown).
THEOREM KeysRestHolds ==
    Spec => KeysRest
  <1> DEFINE Rested(m) ==
                 calls[m].at = "ready" =>
                    LET k == calls'[m].key
                    IN  /\ k # NoKey => denied[At(m)][k] = KeyCooldown
                        /\ calls'[m].outcome = "keys" =>
                               \A j \in DOMAIN denied[At(m)] : denied[At(m)][j] < KeyCooldown
  <1>1. ASSUME IInv, [Next]_vars, NEW m \in Calls
        PROVE  Rested(m)
    <2> SUFFICES ASSUME calls[m].at = "ready" PROVE Rested(m)
      OBVIOUS
    <2>1. /\ calls \in [Calls -> CallState] /\ calls[m] \in CallState
          /\ calls[m].key = NoKey /\ calls[m].outcome = "none" /\ run.kind # "none"
      BY <1>1 DEF IInv, Typed, Keyed, Progress
    <2>2. CASE Launch(m)
      <3> DEFINE p == At(m)
      <3>1. p \in Providers
        BY <1>1, <2>1, AtProvider DEF IInv
      <3>2. /\ KeysAt[p] \in Nat /\ IsPool(pools[p], KeysAt[p])
            /\ denied[p] \in [1 .. KeysAt[p] -> 0 .. KeyCooldown]
            /\ \A k \in 1 .. KeysAt[p] : denied[p][k] + pools[p].cool[k] = KeyCooldown
        BY <1>1, <3>1, FusionAssumption DEF IInv, Typed, Keyed
      <3>3. /\ pools[p].cool \in [1 .. KeysAt[p] -> 0 .. KeyCooldown]
            /\ KeysOf(pools[p]) = 1 .. KeysAt[p]
        BY <3>2, PoolFields
      <3> HIDE DEF p
      <3>4. CASE Available(pools[p])
        <4>1. calls'[m].key = Pick(pools[p]) /\ calls'[m].outcome = "none"
          BY <2>1, <2>2, <3>4 DEF Launch, CallState, p
        <4>2. Pick(pools[p]) # NoKey =>
                  Pick(pools[p]) \in 1 .. KeysAt[p] /\ pools[p].cool[Pick(pools[p])] = 0
          BY <3>2, <3>4, PickFacts
        <4>3. Pick(pools[p]) # NoKey => denied[p][Pick(pools[p])] = KeyCooldown
          BY <3>2, <4>2, KeyPoolAssumption
        <4> QED
          BY <4>1, <4>3 DEF p
      <3>5. CASE ~Available(pools[p])
        <4>1. calls'[m].key = NoKey
          BY <2>1, <2>2, <3>5 DEF Launch, Land, CallState, p
        <4>2. \A j \in 1 .. KeysAt[p] : pools[p].cool[j] > 0
          BY <3>3, <3>5 DEF Available, Resting
        <4>3. \A j \in DOMAIN denied[p] : denied[p][j] < KeyCooldown
          <5>1. ASSUME NEW j \in 1 .. KeysAt[p] PROVE denied[p][j] < KeyCooldown
            <6>1. /\ denied[p][j] \in 0 .. KeyCooldown /\ pools[p].cool[j] \in 0 .. KeyCooldown
                  /\ denied[p][j] + pools[p].cool[j] = KeyCooldown /\ pools[p].cool[j] > 0
              BY <3>2, <3>3, <4>2
            <6> QED
              BY <6>1, KeyPoolAssumption
          <5> QED
            BY <3>2, <5>1
        <4> QED
          BY <4>1, <4>3 DEF p
      <3> QED
        BY <3>4, <3>5
    <2>3. CASE calls'[m] = calls[m]
      BY <2>1, <2>3
    <2>4. calls'[m] = calls[m] \/ Launch(m)
      <3>1. CASE UNCHANGED vars
        BY <3>1 DEF vars
      <3>2. ASSUME NEW kind \in {"race", "judge"}, NEW order \in Orders, NEW n \in MinPanels,
                   Start(kind, order, n)
            PROVE  FALSE
        BY <3>2 DEF Start, Ended
      <3>3. ASSUME NEW n \in Calls, Call(n)
            PROVE  calls'[m] = calls[m] \/ Launch(m)
        <4>1. CASE n = m
          BY <3>3, <4>1 DEF Call, Headers, Break, Respond, ReadPanelBody
        <4>2. CASE n # m
          BY <2>1, <3>3, <4>2 DEF Call, Launch, Headers, Break, Respond, ReadPanelBody, Land
        <4> QED
          BY <4>1, <4>2
      <3>4. CASE Handle
        <4>1. CASE StopCollecting \/ CloseBody
          BY <4>1 DEF StopCollecting, CloseBody
        <4>2. CASE Decide
          <5>1. run.phase # "last"
            BY <4>2 DEF Decide
          <5>2. m # 0
            BY <1>1, <5>1, Resting0
          <5> QED
            BY <2>1, <4>2, <5>2 DEF Decide
        <4>3. CASE LastEnds
          BY <2>1, <4>3 DEF LastEnds
        <4>4. CASE RaceEnds
          BY <2>1, <4>4 DEF RaceEnds
        <4>5. ASSUME NEW n \in Members, Collect(n)
              PROVE  calls'[m] = calls[m]
          BY <2>1, <4>5 DEF Collect
        <4> QED
          BY <3>4, <4>1, <4>2, <4>3, <4>4, <4>5 DEF Handle
      <3>5. CASE Abort \/ Tick
        BY <3>5 DEF Abort, Tick
      <3> QED
        BY <1>1, <3>1, <3>2, <3>3, <3>4, <3>5 DEF Next
    <2> QED
      BY <2>2, <2>3, <2>4
  <1>2. ASSUME IInv, [Next]_vars
        PROVE  \A m \in Calls : Rested(m)
    BY <1>1, <1>2
  <1>3. (\A m \in Calls : Rested(m)) =>
            [\A m \in Calls : calls[m].at = "ready" =>
                LET k == calls'[m].key
                IN  /\ k # NoKey => denied[At(m)][k] = KeyCooldown
                    /\ calls'[m].outcome = "keys" =>
                           \A j \in DOMAIN denied[At(m)] : denied[At(m)][j] < KeyCooldown]_vars
    OBVIOUS
  <1> HIDE DEF Rested
  <1> QED
    BY <1>2, <1>3, Invariance, PTL DEF Spec, KeysRest
=============================================================================
