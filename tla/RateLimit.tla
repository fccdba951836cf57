----------------------------- MODULE RateLimit -----------------------------
(***************************************************************************)
(* internal/ratelimit: token buckets.  A bucket of limit n a minute holds  *)
(* at most n tokens and gains n a minute.  A minute has Minute ticks, and  *)
(* a bucket is counted in Minute-ths of a token, so that a tick adds its   *)
(* limit.  A limit of 0 is unlimited.  A bucket nobody has asked for, or   *)
(* that Invalidate has dropped, is a full one.                             *)
(***************************************************************************)
EXTENDS Integers

CONSTANT Minute

ASSUME MinuteAssumption == Minute \in Nat \ {0}

NewBucket(limit) == limit * Minute

Buckets(limit) == 0 .. NewBucket(limit)

\* A variant that saves up what is not used.
Refill_Unclamped(bucket, limit) == bucket + limit

Refill(bucket, limit) ==
    IF bucket + limit > NewBucket(limit) THEN NewBucket(limit) ELSE bucket + limit

\* Allow(1), and what it leaves.
Allows(bucket, limit) == limit = 0 \/ bucket >= Minute

Take(bucket, limit) == IF limit = 0 THEN bucket ELSE bucket - Minute

Remaining(bucket) == bucket \div Minute

\* A variant without the floor.
Deduct_IntoDebt(bucket, n) == bucket - n * Minute

Deduct(bucket, n) == IF bucket < n * Minute THEN 0 ELSE bucket - n * Minute
=============================================================================
