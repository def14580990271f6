----------------------------- MODULE TokenBucket -----------------------------
(***************************************************************************)
(* The arithmetic of one tool's token bucket, bridge/src/ratelimit.rs.  A   *)
(* bucket is a value; the modules that hold buckets as state (RateLimiter,  *)
(* BridgeDispatch) apply TryAcquire to it.  Time is a count of clock units. *)
(***************************************************************************)
EXTENDS Integers

CONSTANTS
    Capacity,       \* the cap given to RateLimiter::new, already max(1)ed
    RefillInterval, \* clock units per token; 0 is the "never refill" setting
    CountRange      \* values of the u32 that counts intervals, 2^32

ASSUME BucketAssumption ==
    /\ Capacity \in Nat \ {0}
    /\ RefillInterval \in Nat
    /\ CountRange \in Nat \ {0}

Bucket == [tokens : 0..Capacity, lastRefill : Nat]

\* Bucket::new: a bucket is born full at the call that first names its tool.
NewBucket(t) == [tokens |-> Capacity, lastRefill |-> t]

Lesser(a, b) == IF a < b THEN a ELSE b

\* saturating_duration_since(last_refill) / refill_interval
Intervals(b, t) == IF t < b.lastRefill THEN 0
                   ELSE (t - b.lastRefill) \div RefillInterval

\* Faulty variant of Refill: the fraction of an interval is dropped.
RefillLossy(b, t) ==
    IF RefillInterval = 0 \/ b.tokens >= Capacity THEN b
    ELSE [tokens     |-> b.tokens + Lesser(Intervals(b, t), Capacity - b.tokens),
          lastRefill |-> t]

\* Bucket::refill.  The reference instant moves by whole intervals only, so
\* the fraction of an interval already elapsed is not lost.  The tokens gained are
\* the least of the u64 count and the free room; the instant moves by the count cast
\* to a u32, so it falls behind the clock after CountRange idle intervals.
Refill(b, t) ==
    IF RefillInterval = 0 \/ b.tokens >= Capacity THEN b
    ELSE LET n == Intervals(b, t) IN
         [tokens     |-> b.tokens + Lesser(n, Capacity - b.tokens),
          lastRefill |-> b.lastRefill + RefillInterval * (n % CountRange)]

\* RateLimiter::try_acquire on the (possibly just created) bucket: whether the
\* call may proceed, and the bucket afterwards.
MayAcquire(b, t) == Refill(b, t).tokens > 0

\* Faulty variant of Spend: the token is not taken.
SpendNothing(b, t) == Refill(b, t)

Spend(b, t) == LET r == Refill(b, t) IN
               IF r.tokens > 0 THEN [r EXCEPT !.tokens = @ - 1] ELSE r
==============================================================================
