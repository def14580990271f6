--------------------------- MODULE RateLimiterProofs ---------------------------
(***************************************************************************)
(* Proofs about RateLimiter for any tools, capacity and refill interval.     *)
(* The refill moves the bucket's instant by whole intervals, so every       *)
(* accepted call lies in one of the intervals counted back from it: calls   *)
(* and tokens together never exceed what those intervals brought, and never *)
(* fall short of it while the bucket is not full.                           *)
(***************************************************************************)
EXTENDS RateLimiter, FiniteSetTheorems, TLAPS

\* The time n tokens take.
Span(n) == RefillInterval * n

\* A call accepted at the instant at, in the m-th interval before the bucket's: with it,
\* the tool got `calls' of them.  Since then the bucket gave out no more than its capacity
\* and m tokens, and, unless it was full on the way, no fewer than m.
Aged(b, at, calls, m) ==
    /\ b.lastRefill - Span(m) <= at
    /\ at < b.lastRefill - Span(m) + RefillInterval
    /\ b.tokens + calls <= Capacity + m
    /\ b.tokens + calls > Capacity \/ b.tokens + calls > m

\* The first of all the calls was accepted k whole intervals before the bucket's instant.
Begun(b, at, calls, k) ==
    /\ b.lastRefill = at + Span(k)
    /\ b.tokens + calls <= Capacity + k

Fits(b, g) ==
    /\ b.tokens + Len(g) >= Capacity
    /\ g # <<>> => \E k \in Nat : Begun(b, g[1], Len(g), k)
    /\ \A i \in 1..Len(g) : \E m \in Nat : Aged(b, g[i], Len(g) - i + 1, m)

\* Accepted calls are in the order of time.
InOrder(g, t) ==
    /\ \A i \in 1..Len(g) : g[i] <= t
    /\ \A i, j \in 1..Len(g) : i <= j => g[i] <= g[j]

\* At the instant at, the last Capacity accepted calls were all recent.
Earned(g, at) ==
    \E i \in 1..Len(g) :
        /\ i + Capacity - 1 <= Len(g)
        /\ at - Capacity * RefillInterval < g[i]
        /\ \A j \in i..(i + Capacity - 1) : g[j] <= at

ToolInv(t) ==
    /\ InOrder(granted[t], now)
    /\ buckets[t] = NoBucket => granted[t] = <<>> /\ shed[t] = <<>>
    /\ buckets[t] # NoBucket =>
         /\ buckets[t].tokens < Capacity /\ buckets[t].lastRefill <= now
         /\ Fits(buckets[t], granted[t])
    /\ \A k \in 1..Len(shed[t]) : Earned(granted[t], shed[t][k])

LimiterInv ==
    /\ TypeOK
    /\ RefillInterval > 0 => \A t \in Tools : ToolInv(t)

-----------------------------------------------------------------------------
(* Division *)

\* What a quotient is.
LEMMA DivFacts ==
    ASSUME NEW a \in Nat, NEW b \in Nat \ {0}
    PROVE  /\ a \div b \in Nat
           /\ b * (a \div b) <= a
           /\ a < b * (a \div b) + b
OBVIOUS

\* Whole intervals that fit are counted.
LEMMA DivAtLeast ==
    ASSUME NEW a \in Nat, NEW b \in Nat \ {0}, NEW m \in Nat, b * m <= a
    PROVE  m <= a \div b
<1>1. a < b * (a \div b) + b /\ a \div b \in Nat
  BY DivFacts
<1>2. ASSUME m > a \div b
      PROVE  FALSE
  <2>1. m - (a \div b) - 1 \in Nat
    BY <1>1, <1>2
  <2>2. b * (m - (a \div b) - 1) >= 0
    BY <2>1
  <2> QED
    BY <1>1, <2>2
<1> QED
  BY <1>1, <1>2

\* Spans of time are natural numbers,
LEMMA SpanType == Span(0) = 0 /\ \A n \in Nat : Span(n) \in Nat
BY BucketAssumption DEF Span

\* they add up,
LEMMA SpanAdds == \A m, n \in Nat : Span(m + n) = Span(m) + Span(n)
BY BucketAssumption DEF Span

\* and grow.
LEMMA SpanGrows ==
    ASSUME NEW m \in Nat, NEW n \in Nat, m <= n
    PROVE  Span(m) <= Span(n)
<1>1. RefillInterval * (n - m) >= 0
  BY BucketAssumption, n - m \in Nat
<1> QED
  BY <1>1, BucketAssumption DEF Span

\* The instants of a history are numbers.
LEMMA Elements ==
    ASSUME NEW g \in Seq(Nat)
    PROVE  Len(g) \in Nat /\ \A i \in 1..Len(g) : g[i] \in Nat /\ i \in Nat
OBVIOUS

-----------------------------------------------------------------------------
(* What one call does to a bucket *)

\* After a refill by n tokens an accepted call lies n intervals further back.
LEMMA AgedRefilled ==
    ASSUME NEW b, NEW r, NEW at \in Nat, NEW calls \in Nat \ {0}, NEW m \in Nat, NEW n \in Nat,
           b.lastRefill \in Nat, b.tokens \in Nat, r.tokens \in Nat,
           r.lastRefill = b.lastRefill + Span(n),
           b.tokens <= r.tokens, r.tokens <= b.tokens + n,
           r.tokens = Capacity \/ r.tokens = b.tokens + n,
           Aged(b, at, calls, m)
    PROVE  Aged(r, at, calls, m + n)
<1>1. Span(m + n) = Span(m) + Span(n) /\ Span(m) \in Nat /\ Span(n) \in Nat
      /\ Capacity \in Nat /\ RefillInterval \in Nat
  BY SpanType, SpanAdds, BucketAssumption
<1>2. /\ b.lastRefill - Span(m) <= at /\ at < b.lastRefill - Span(m) + RefillInterval
      /\ b.tokens + calls <= Capacity + m
      /\ b.tokens + calls > Capacity \/ b.tokens + calls > m
  BY DEF Aged
<1>3. r.lastRefill - Span(m + n) <= at /\ at < r.lastRefill - Span(m + n) + RefillInterval
  BY <1>1, <1>2
<1>4. /\ r.tokens + calls <= Capacity + (m + n)
      /\ r.tokens + calls > Capacity \/ r.tokens + calls > m + n
  BY <1>1, <1>2
<1> QED
  BY <1>3, <1>4 DEF Aged

\* So does the first.
LEMMA BegunRefilled ==
    ASSUME NEW b, NEW r, NEW at \in Nat, NEW calls \in Nat, NEW k \in Nat, NEW n \in Nat,
           b.lastRefill \in Nat, b.tokens \in Nat, r.tokens \in Nat,
           r.lastRefill = b.lastRefill + Span(n), r.tokens <= b.tokens + n,
           Begun(b, at, calls, k)
    PROVE  Begun(r, at, calls, k + n)
<1>1. Span(k + n) = Span(k) + Span(n) /\ Span(k) \in Nat /\ Span(n) \in Nat
      /\ Capacity \in Nat
  BY SpanType, SpanAdds, BucketAssumption
<1>2. b.lastRefill = at + Span(k) /\ b.tokens + calls <= Capacity + k
  BY DEF Begun
<1>3. r.lastRefill = at + Span(k + n) /\ r.tokens + calls <= Capacity + (k + n)
  BY <1>1, <1>2
<1> QED
  BY <1>3 DEF Begun

\* Of two products with the same positive factor the smaller has the smaller other
\* factor, and a number below the divisor is its own remainder.
LEMMA Cancel ==
    ASSUME NEW k \in Nat \ {0}, NEW m \in Nat, NEW n \in Nat, k * m < k * n
    PROVE  m < n
<1> SUFFICES ASSUME m >= n PROVE FALSE
  OBVIOUS
<1> DEFINE d == m - n
<1>1. d \in Nat /\ m = n + d
  OBVIOUS
<1> HIDE DEF d
<1>2. k * m = k * n + k * d /\ k * d >= 0 /\ k * n \in Nat
  BY <1>1
<1> QED
  BY <1>2

LEMMA SmallRemainder ==
    ASSUME NEW m \in Nat, NEW k \in Nat \ {0}, m < k
    PROVE  m % k = m
OBVIOUS

\* A refill adds the whole intervals elapsed, up to the capacity, and keeps the rest.
LEMMA RefillIs ==
    ASSUME RefillInterval > 0, NEW t \in 0..MaxTime, NEW b \in Bucket, b.lastRefill <= t,
           b.tokens < Capacity
    PROVE  \E n \in Nat : LET r == Refill(b, t) IN
             /\ r \in Bucket
             /\ r.lastRefill = b.lastRefill + Span(n)
             /\ b.tokens <= r.tokens /\ r.tokens <= b.tokens + n
             /\ r.tokens = Capacity \/ r.tokens = b.tokens + n
             /\ r.lastRefill <= t /\ t < r.lastRefill + RefillInterval
<1> DEFINE n == (t - b.lastRefill) \div RefillInterval
           r == Refill(b, t)
           tokens == b.tokens + Lesser(n, Capacity - b.tokens)
<1>1. b.lastRefill \in Nat /\ b.tokens \in Nat /\ Capacity \in Nat
      /\ RefillInterval \in Nat \ {0} /\ t - b.lastRefill \in Nat
      /\ t \in Nat /\ t <= MaxTime /\ MaxTime \in Nat
  BY BucketAssumption, LimiterAssumption DEF Bucket
<1>2. /\ n \in Nat /\ Span(n) \in Nat /\ Span(n) <= t - b.lastRefill
      /\ t - b.lastRefill < Span(n) + RefillInterval
  <2>1. /\ n \in Nat /\ RefillInterval * n <= t - b.lastRefill
        /\ t - b.lastRefill < RefillInterval * n + RefillInterval
    BY <1>1, DivFacts
  <2> QED
    BY <2>1, SpanType DEF Span
<1>3. Intervals(b, t) = n
  BY <1>1 DEF Intervals
<1> HIDE DEF n
<1>12. n % CountRange = n
  <2>1. CountRange \in Nat \ {0} /\ RefillInterval * n < RefillInterval * CountRange
    BY <1>1, <1>2, BucketAssumption, LimiterAssumption DEF Span
  <2>2. n < CountRange
    BY <1>1, <1>2, <2>1, Cancel
  <2> QED
    BY <1>2, <2>1, <2>2, SmallRemainder
<1>4. RefillInterval # 0 /\ ~(b.tokens >= Capacity)
  BY <1>1
<1>5. r = [tokens |-> tokens, lastRefill |-> b.lastRefill + Span(n)]
  BY <1>3, <1>4, <1>12 DEF Refill, Span
<1>6. /\ tokens \in 0..Capacity /\ b.tokens <= tokens /\ tokens <= b.tokens + n
      /\ tokens = Capacity \/ tokens = b.tokens + n
  BY <1>1, <1>2 DEF Lesser
<1>7. b.lastRefill + Span(n) \in Nat
  BY <1>1, <1>2
<1> HIDE DEF tokens, r
<1>8. r \in Bucket
  BY <1>5, <1>6, <1>7 DEF Bucket
<1>9. r.tokens = tokens /\ r.lastRefill = b.lastRefill + Span(n)
  BY <1>5
<1>10. b.lastRefill + Span(n) <= t /\ t < b.lastRefill + Span(n) + RefillInterval
  BY <1>1, <1>2
<1> QED
  BY <1>2, <1>6, <1>8, <1>9, <1>10 DEF r

\* A refill neither gives a call more than its intervals brought, nor less.
LEMMA RefillFits ==
    ASSUME RefillInterval > 0, NEW t \in 0..MaxTime, NEW b \in Bucket, NEW g \in Seq(Nat),
           b.lastRefill <= t, b.tokens < Capacity, Fits(b, g)
    PROVE  /\ Refill(b, t) \in Bucket /\ Fits(Refill(b, t), g)
           /\ Refill(b, t).lastRefill <= t
           /\ t < Refill(b, t).lastRefill + RefillInterval
<1> DEFINE r == Refill(b, t)
<1>1. PICK n \in Nat :
        /\ r \in Bucket
        /\ r.lastRefill = b.lastRefill + Span(n)
        /\ b.tokens <= r.tokens /\ r.tokens <= b.tokens + n
        /\ r.tokens = Capacity \/ r.tokens = b.tokens + n
        /\ r.lastRefill <= t /\ t < r.lastRefill + RefillInterval
  BY RefillIs
<1> HIDE DEF r
<1>2. b.lastRefill \in Nat /\ b.tokens \in Nat /\ r.tokens \in Nat /\ Capacity \in Nat
  BY <1>1, BucketAssumption DEF Bucket
<1>3. r.tokens + Len(g) >= Capacity
  BY <1>1, <1>2, Elements DEF Fits
<1>4. ASSUME g # <<>>
      PROVE  \E k \in Nat : Begun(r, g[1], Len(g), k)
  <2>1. PICK k \in Nat : Begun(b, g[1], Len(g), k)
    BY <1>4 DEF Fits
  <2>2. g[1] \in Nat /\ Len(g) \in Nat
    BY <1>4, Elements
  <2>3. Begun(r, g[1], Len(g), k + n)
    BY <1>1, <1>2, <2>1, <2>2, BegunRefilled
  <2> QED
    BY <2>3, k + n \in Nat
<1>5. ASSUME NEW i \in 1..Len(g)
      PROVE  \E m \in Nat : Aged(r, g[i], Len(g) - i + 1, m)
  <2>1. PICK m \in Nat : Aged(b, g[i], Len(g) - i + 1, m)
    BY DEF Fits
  <2>2. g[i] \in Nat /\ Len(g) - i + 1 \in Nat \ {0}
    BY Elements
  <2>3. Aged(r, g[i], Len(g) - i + 1, m + n)
    BY <1>1, <1>2, <2>1, <2>2, AgedRefilled
  <2> QED
    BY <2>3, m + n \in Nat
<1> QED
  BY <1>1, <1>3, <1>4, <1>5 DEF Fits, r

\* An accepted call at t spends a token of a refilled bucket.
LEMMA SpendFits ==
    ASSUME RefillInterval > 0, NEW t \in Nat, NEW b \in Bucket, NEW g \in Seq(Nat),
           Fits(b, g), b.lastRefill <= t, t < b.lastRefill + RefillInterval,
           g = <<>> => b.lastRefill = t,
           b.tokens > 0
    PROVE  Fits([b EXCEPT !.tokens = @ - 1], Append(g, t))
<1> DEFINE r == [b EXCEPT !.tokens = @ - 1]
           h == Append(g, t)
<1>1. /\ b.lastRefill \in Nat /\ b.tokens \in Nat /\ Capacity \in Nat \ {0}
      /\ RefillInterval \in Nat \ {0} /\ b.tokens <= Capacity
  BY BucketAssumption DEF Bucket
<1>2. r.lastRefill = b.lastRefill /\ r.tokens = b.tokens - 1
  BY DEF Bucket
<1>3. /\ Len(h) = Len(g) + 1 /\ h[Len(g) + 1] = t /\ h # <<>> /\ Len(g) \in Nat
      /\ \A i \in 1..Len(g) : h[i] = g[i] /\ g[i] \in Nat /\ i \in Nat
  BY Elements
<1> HIDE DEF r, h
<1>7. Len(g) \in Nat /\ Len(h) = Len(g) + 1
  BY <1>3
<1>8. r.tokens + Len(h) = b.tokens + Len(g) /\ r.tokens \in Nat
  <2>1. r.tokens = b.tokens - 1 /\ b.tokens \in Nat
    BY <1>1, <1>2
  <2>2. b.tokens - 1 \in Nat
    BY <2>1
  <2>3. (b.tokens - 1) + (Len(g) + 1) = b.tokens + Len(g)
    BY <2>1, <1>7
  <2> QED
    BY <2>1, <2>2, <2>3, <1>7
<1>4. r.tokens + Len(h) >= Capacity
  BY <1>1, <1>2, <1>3 DEF Fits
<1>5. \E k \in Nat : Begun(r, h[1], Len(h), k)
  <2>1. CASE g = <<>>
    <3>1. Len(g) = 0 /\ h[1] = t /\ Len(h) = 1 /\ b.lastRefill = t
      BY <1>3, <2>1
    <3>2. Begun(r, t, 1, 0)
      <4>1. t = t + Span(0)
        BY SpanType
      <4>2. r.tokens + 1 <= Capacity + 0
        BY <1>1, <1>2
      <4> QED
        BY <1>2, <3>1, <4>1, <4>2 DEF Begun
    <3> QED
      BY <3>1, <3>2
  <2>2. CASE g # <<>>
    <3>1. PICK k \in Nat : Begun(b, g[1], Len(g), k)
      BY <2>2 DEF Fits
    <3>2. h[1] = g[1] /\ g[1] \in Nat
      BY <1>3, <2>2
    <3>3. Begun(r, h[1], Len(h), k)
      BY <1>2, <1>8, <3>1, <3>2 DEF Begun
    <3> QED
      BY <3>3
  <2> QED
    BY <2>1, <2>2
<1>6. ASSUME NEW i \in 1..Len(h)
      PROVE  \E m \in Nat : Aged(r, h[i], Len(h) - i + 1, m)
  <2>1. CASE i \in 1..Len(g)
    <3>1. PICK m \in Nat : Aged(b, g[i], Len(g) - i + 1, m)
      BY <2>1 DEF Fits
    <3>2. h[i] = g[i]
      BY <1>3, <2>1
    <3>3. r.tokens + (Len(h) - i + 1) = b.tokens + (Len(g) - i + 1)
      BY <1>1, <1>2, <1>7, i \in Nat
    <3>4. Aged(r, h[i], Len(h) - i + 1, m)
      BY <1>2, <3>1, <3>2, <3>3 DEF Aged
    <3> QED
      BY <3>4
  <2>2. CASE i = Len(g) + 1
    <3>1. h[i] = t /\ Len(h) - i + 1 = 1
      BY <1>3, <2>2
    <3>2. r.lastRefill - 0 <= t /\ t < r.lastRefill - 0 + RefillInterval
      BY <1>1, <1>2
    <3>3. r.tokens + 1 <= Capacity + 0 /\ r.tokens + 1 > 0
      BY <1>1, <1>2
    <3>4. Aged(r, t, 1, 0)
      BY <3>2, <3>3, SpanType DEF Aged
    <3> QED
      BY <3>1, <3>4
  <2> QED
    BY <1>3, <2>1, <2>2
<1> QED
  BY <1>3, <1>4, <1>5, <1>6 DEF Fits, r, h

\* A bucket found empty was emptied by calls all accepted in the last Capacity intervals.
LEMMA EmptyIsEarned ==
    ASSUME RefillInterval > 0, NEW t \in Nat, NEW b \in Bucket, NEW g \in Seq(Nat),
           Fits(b, g), b.lastRefill <= t, t < b.lastRefill + RefillInterval,
           b.tokens = 0, InOrder(g, t)
    PROVE  Earned(g, t)
<1> DEFINE i == Len(g) - Capacity + 1
           all == Capacity * RefillInterval
<1>1. /\ b.lastRefill \in Nat /\ Capacity \in Nat \ {0} /\ RefillInterval \in Nat \ {0}
      /\ Len(g) \in Nat
  BY BucketAssumption, Elements DEF Bucket
<1>2. i \in 1..Len(g) /\ i + Capacity - 1 = Len(g) /\ Len(g) - i + 1 = Capacity
  BY <1>1 DEF Fits
<1>3. PICK m \in Nat : Aged(b, g[i], Capacity, m)
  BY <1>2 DEF Fits
<1>4. g[i] \in Nat
  BY <1>2, Elements
<1> HIDE DEF i
<1>5. m <= Capacity - 1
  BY <1>1, <1>3 DEF Aged
<1>6. Span(m) <= Span(Capacity - 1) /\ Span(m) \in Nat
  BY <1>1, <1>5, Capacity - 1 \in Nat, SpanType, SpanGrows
<1>7. all \in Nat /\ Span(Capacity - 1) = all - RefillInterval
  BY <1>1 DEF Span
<1> HIDE DEF all
<1>8. t - all < g[i]
  <2>1. b.lastRefill - Span(m) <= g[i]
    BY <1>3 DEF Aged
  <2> QED
    BY <1>1, <1>4, <1>6, <1>7, <2>1
<1>9. \A j \in i..(i + Capacity - 1) : g[j] <= t
  BY <1>1, <1>2 DEF InOrder
<1> QED
  BY <1>2, <1>8, <1>9 DEF Earned, all

\* Any refill, the never-refilling one too, and any call leave a bucket.
LEMMA BucketKept ==
    ASSUME NEW t \in Nat, NEW b \in Bucket
    PROVE  Refill(b, t) \in Bucket /\ Spend(b, t) \in Bucket
<1> DEFINE r == Refill(b, t)
<1>1. b.lastRefill \in Nat /\ b.tokens \in Nat /\ Capacity \in Nat /\ RefillInterval \in Nat
  BY BucketAssumption DEF Bucket
<1>2. r \in Bucket
  <2>1. CASE RefillInterval = 0 \/ b.tokens >= Capacity
    BY <2>1 DEF Refill
  <2>2. CASE ~(RefillInterval = 0 \/ b.tokens >= Capacity)
    <3> DEFINE n == Intervals(b, t)
               tokens == b.tokens + Lesser(n, Capacity - b.tokens)
               at == b.lastRefill + RefillInterval * (n % CountRange)
    <3>1. n \in Nat
      BY <1>1, <2>2, DivFacts, 0 \in Nat DEF Intervals
    <3>2. r = [tokens |-> tokens, lastRefill |-> at]
      BY <2>2 DEF Refill
    <3> HIDE DEF n
    <3>3. tokens \in 0..Capacity
      BY <1>1, <2>2, <3>1 DEF Lesser
    <3>4. RefillInterval * (n % CountRange) \in Nat
      <4>1. n % CountRange \in Nat
        BY <3>1, BucketAssumption
      <4> QED
        BY <1>1, <4>1
    <3>5. at \in Nat
      BY <1>1, <3>4
    <3> HIDE DEF tokens, at, r
    <3> QED
      BY <3>2, <3>3, <3>5 DEF Bucket
  <2> QED
    BY <2>1, <2>2
<1> HIDE DEF r
<1>3. ASSUME r.tokens > 0
      PROVE  [r EXCEPT !.tokens = @ - 1] \in Bucket
  BY <1>1, <1>2, <1>3 DEF Bucket
<1> QED
  BY <1>2, <1>3 DEF Spend, r

\* The refilled bucket of a call, whether the tool had one or not.
LEMMA EntryFits ==
    ASSUME LimiterInv, RefillInterval > 0, NEW t \in Tools
    PROVE  LET r == Refill(Entry(t), now) IN
             /\ r \in Bucket /\ Fits(r, granted[t])
             /\ r.lastRefill <= now /\ now < r.lastRefill + RefillInterval
             /\ granted[t] = <<>> => r.lastRefill = now
<1>1. /\ now \in 0..MaxTime /\ now \in Nat /\ granted[t] \in Seq(Nat) /\ ToolInv(t)
      /\ buckets[t] \in Bucket \cup {NoBucket}
  BY LimiterAssumption DEF LimiterInv, TypeOK
<1>2. Capacity \in Nat \ {0} /\ RefillInterval \in Nat \ {0}
  BY BucketAssumption
<1>3. CASE buckets[t] = NoBucket
  <2>1. granted[t] = <<>> /\ Entry(t) = [tokens |-> Capacity, lastRefill |-> now]
    BY <1>1, <1>3 DEF ToolInv, Entry, NewBucket
  <2>2. Refill(Entry(t), now) = [tokens |-> Capacity, lastRefill |-> now]
    BY <1>2, <2>1 DEF Refill
  <2>3. [tokens |-> Capacity, lastRefill |-> now] \in Bucket
    BY <1>1, <1>2 DEF Bucket
  <2>4. Fits([tokens |-> Capacity, lastRefill |-> now], <<>>)
    BY <1>2 DEF Fits
  <2> QED
    BY <1>1, <1>2, <2>1, <2>2, <2>3, <2>4
<1>4. CASE buckets[t] # NoBucket
  <2>1. /\ Entry(t) = buckets[t] /\ buckets[t] \in Bucket
        /\ buckets[t].tokens < Capacity /\ buckets[t].lastRefill <= now
        /\ Fits(buckets[t], granted[t])
    BY <1>1, <1>4 DEF ToolInv, Entry
  <2>2. granted[t] # <<>>
    <3>1. buckets[t].tokens + Len(granted[t]) >= Capacity /\ buckets[t].tokens \in Nat
      BY <2>1 DEF Fits, Bucket
    <3> QED
      BY <1>2, <2>1, <3>1
  <2> QED
    BY <1>1, <2>1, <2>2, RefillFits
<1> QED
  BY <1>3, <1>4

-----------------------------------------------------------------------------
(* Every step keeps the invariant *)

\* A refusal earned stays earned: only later calls are added.
LEMMA EarnedGrows ==
    ASSUME NEW g \in Seq(Nat), NEW t \in Nat, NEW at, Earned(g, at)
    PROVE  Earned(Append(g, t), at)
<1>1. PICK i \in 1..Len(g) :
        /\ i + Capacity - 1 <= Len(g)
        /\ at - Capacity * RefillInterval < g[i]
        /\ \A j \in i..(i + Capacity - 1) : g[j] <= at
  BY DEF Earned
<1>2. Len(Append(g, t)) = Len(g) + 1 /\ \A j \in 1..Len(g) : Append(g, t)[j] = g[j]
  OBVIOUS
<1>3. Len(g) \in Nat /\ Capacity \in Nat \ {0} /\ i \in Nat
  BY BucketAssumption
<1>4. i..(i + Capacity - 1) \subseteq 1..Len(g)
  BY <1>1, <1>3
<1>5. i \in 1..Len(Append(g, t)) /\ i + Capacity - 1 <= Len(Append(g, t))
  BY <1>1, <1>2, <1>3
<1>6. \A j \in i..(i + Capacity - 1) : Append(g, t)[j] <= at
  BY <1>1, <1>2, <1>4
<1>7. at - Capacity * RefillInterval < Append(g, t)[i]
  BY <1>1, <1>2
<1> QED
  BY <1>5, <1>6, <1>7 DEF Earned

\* A call accepted now comes last.
LEMMA OrderGrows ==
    ASSUME NEW g \in Seq(Nat), NEW t \in Nat, InOrder(g, t)
    PROVE  InOrder(Append(g, t), t)
<1>1. Len(Append(g, t)) = Len(g) + 1 /\ Append(g, t)[Len(g) + 1] = t /\ Len(g) \in Nat
  OBVIOUS
<1>2. \A j \in 1..Len(g) : Append(g, t)[j] = g[j]
  OBVIOUS
<1>3. \A i \in 1..(Len(g) + 1) : i \in 1..Len(g) \/ i = Len(g) + 1
  BY <1>1
<1>4. \A i \in 1..(Len(g) + 1) : Append(g, t)[i] <= t
  BY <1>1, <1>2, <1>3 DEF InOrder
<1>5. ASSUME NEW i \in 1..(Len(g) + 1), NEW j \in 1..(Len(g) + 1), i <= j
      PROVE  Append(g, t)[i] <= Append(g, t)[j]
  <2>1. CASE j = Len(g) + 1
    BY <1>1, <1>4, <2>1
  <2>2. CASE j \in 1..Len(g)
    <3>1. i \in 1..Len(g)
      BY <1>5, <2>2
    <3> QED
      BY <1>2, <1>5, <2>2, <3>1 DEF InOrder
  <2> QED
    BY <1>3, <2>1, <2>2
<1> QED
  BY <1>1, <1>4, <1>5 DEF InOrder

\* Every step keeps the invariant.
LEMMA LimiterStep ==
    ASSUME LimiterInv, [Next]_vars
    PROVE  LimiterInv'
<1>0. now \in Nat /\ MaxTime \in Nat
  BY LimiterAssumption DEF LimiterInv, TypeOK
<1>1. CASE Tick
  <2>1. now' = now + 1 /\ now < MaxTime /\ UNCHANGED <<buckets, granted, shed>>
    BY <1>1 DEF Tick
  <2>2. TypeOK'
    BY <1>0, <2>1 DEF LimiterInv, TypeOK
  <2>3. ASSUME RefillInterval > 0, NEW t \in Tools
        PROVE  ToolInv(t)'
    <3>1. ToolInv(t) /\ granted[t] \in Seq(Nat)
      BY <2>3 DEF LimiterInv, TypeOK
    <3>2. InOrder(granted[t], now + 1)
      BY <1>0, <3>1, Elements DEF ToolInv, InOrder
    <3>3. buckets[t] # NoBucket => buckets[t].lastRefill <= now + 1
      <4>1. buckets[t] # NoBucket => buckets[t].lastRefill \in Nat
        BY DEF LimiterInv, TypeOK, Bucket
      <4> QED
        BY <1>0, <3>1, <4>1 DEF ToolInv
    <3> QED
      BY <2>1, <3>1, <3>2, <3>3 DEF ToolInv
  <2> QED
    BY <2>2, <2>3 DEF LimiterInv
<1>2. ASSUME NEW t \in Tools, Grant(t) \/ Shed(t)
      PROVE  LimiterInv'
  <2> DEFINE r == Refill(Entry(t), now)
  <2>1. UNCHANGED now /\ buckets' = [buckets EXCEPT ![t] = Spend(Entry(t), now)]
    BY <1>2 DEF Grant, Shed
  <2>2. Entry(t) \in Bucket
    <3>1. buckets[t] \in Bucket \cup {NoBucket}
      BY DEF LimiterInv, TypeOK
    <3>2. [tokens |-> Capacity, lastRefill |-> now] \in Bucket
      BY <1>0, BucketAssumption DEF Bucket
    <3> QED
      BY <3>1, <3>2 DEF Entry, NewBucket
  <2>3. Spend(Entry(t), now) \in Bucket /\ r \in Bucket
    BY <1>0, <2>2, BucketKept
  <2>4. TypeOK'
    <3>1. now' \in 0..MaxTime /\ buckets' \in [Tools -> Bucket \cup {NoBucket}]
      BY <2>1, <2>3 DEF LimiterInv, TypeOK
    <3>2. granted' \in [Tools -> Seq(Nat)] /\ shed' \in [Tools -> Seq(Nat)]
      <4>1. granted \in [Tools -> Seq(Nat)] /\ shed \in [Tools -> Seq(Nat)]
        BY DEF LimiterInv, TypeOK
      <4>2. Append(granted[t], now) \in Seq(Nat) /\ Append(shed[t], now) \in Seq(Nat)
        BY <1>0, <4>1
      <4> QED
        BY <1>2, <4>1, <4>2 DEF Grant, Shed
    <3> QED
      BY <3>1, <3>2 DEF TypeOK
  <2>5. buckets'[t] = Spend(Entry(t), now) /\ buckets'[t] # NoBucket
    BY <2>1, <2>3, LimiterAssumption DEF LimiterInv, TypeOK
  <2>6. granted[t] \in Seq(Nat) /\ shed[t] \in Seq(Nat)
    BY DEF LimiterInv, TypeOK
  <2>7. Capacity \in Nat \ {0}
    BY BucketAssumption
  <2>8. ASSUME RefillInterval > 0, Grant(t)
        PROVE  ToolInv(t)'
    <3>1. /\ r.tokens > 0 /\ granted'[t] = Append(granted[t], now) /\ shed'[t] = shed[t]
          /\ buckets'[t] = [r EXCEPT !.tokens = @ - 1]
      BY <2>5, <2>8 DEF Grant, MayAcquire, Spend, LimiterInv, TypeOK
    <3>2. /\ Fits(r, granted[t]) /\ r.lastRefill <= now /\ now < r.lastRefill + RefillInterval
          /\ granted[t] = <<>> => r.lastRefill = now
      BY <2>8, EntryFits
    <3> HIDE DEF r
    <3>3. Fits(buckets'[t], granted'[t])
      BY <1>0, <2>3, <2>6, <2>8, <3>1, <3>2, SpendFits
    <3>4. buckets'[t].tokens < Capacity /\ buckets'[t].lastRefill <= now
      BY <2>3, <2>7, <3>1, <3>2 DEF Bucket
    <3>5. InOrder(granted'[t], now)
      BY <1>0, <2>6, <2>8, <3>1, OrderGrows DEF LimiterInv, ToolInv
    <3>6. \A k \in 1..Len(shed'[t]) : Earned(granted'[t], shed'[t][k])
      BY <1>0, <2>6, <2>8, <3>1, EarnedGrows DEF LimiterInv, ToolInv
    <3> QED
      BY <2>1, <2>5, <3>3, <3>4, <3>5, <3>6 DEF ToolInv
  <2>9. ASSUME RefillInterval > 0, Shed(t)
        PROVE  ToolInv(t)'
    <3>1. /\ ~(r.tokens > 0) /\ granted'[t] = granted[t] /\ shed'[t] = Append(shed[t], now)
          /\ buckets'[t] = r
      BY <2>5, <2>9 DEF Shed, MayAcquire, Spend, LimiterInv, TypeOK
    <3>2. Fits(r, granted[t]) /\ r.lastRefill <= now /\ now < r.lastRefill + RefillInterval
      BY <2>9, EntryFits
    <3> HIDE DEF r
    <3>3. r.tokens = 0
      BY <2>3, <3>1 DEF Bucket
    <3>4. ToolInv(t)
      BY <2>9 DEF LimiterInv
    <3>5. Earned(granted[t], now)
      BY <1>0, <2>3, <2>6, <2>9, <3>2, <3>3, <3>4, EmptyIsEarned DEF ToolInv
    <3>6. ASSUME NEW k \in 1..Len(shed'[t])
          PROVE  Earned(granted[t], shed'[t][k])
      <4>1. CASE k \in 1..Len(shed[t])
        BY <2>6, <3>1, <3>4, <4>1 DEF ToolInv
      <4>2. CASE k = Len(shed[t]) + 1
        BY <2>6, <3>1, <3>5, <4>2
      <4> QED
        BY <2>6, <3>1, <4>1, <4>2
    <3>7. buckets'[t].tokens < Capacity
      BY <2>7, <3>1, <3>3
    <3> QED
      BY <2>1, <2>5, <3>1, <3>2, <3>4, <3>6, <3>7 DEF ToolInv
  <2>10. ASSUME RefillInterval > 0, NEW u \in Tools
         PROVE  ToolInv(u)'
    <3>1. CASE u = t
      BY <1>2, <2>8, <2>9, <2>10, <3>1
    <3>2. CASE u # t
      <4>1. buckets'[u] = buckets[u] /\ granted'[u] = granted[u] /\ shed'[u] = shed[u]
        BY <1>2, <2>1, <3>2 DEF Grant, Shed, LimiterInv, TypeOK
      <4>2. ToolInv(u)
        BY <2>10 DEF LimiterInv
      <4> QED
        BY <2>1, <4>1, <4>2 DEF ToolInv
    <3> QED
      BY <3>1, <3>2
  <2> QED
    BY <2>4, <2>10 DEF LimiterInv
<1>3. CASE UNCHANGED vars
  BY <1>3 DEF vars, LimiterInv, TypeOK, ToolInv
<1> QED
  BY <1>1, <1>2, <1>3 DEF Next, TryAcquire

\* The inductive invariant of every tool's bucket and the calls it let through.
THEOREM LimiterCorrect == Spec => []LimiterInv
<1>1. Init => LimiterInv
  BY LimiterAssumption DEF Init, LimiterInv, TypeOK, ToolInv, InOrder
<1>2. LimiterInv /\ [Next]_vars => LimiterInv'
  BY LimiterStep
<1> QED
  BY <1>1, <1>2, PTL DEF Spec

-----------------------------------------------------------------------------
(* What the invariant says of a tool's allowance *)

\* Quotients grow with the dividend.
LEMMA DivGrows ==
    ASSUME NEW a \in Nat, NEW c \in Nat, a <= c, NEW b \in Nat \ {0}
    PROVE  a \div b <= c \div b
<1>1. a \div b \in Nat /\ b * (a \div b) <= a
  BY DivFacts
<1>2. b * (a \div b) \in Nat
  BY <1>1
<1>3. b * (a \div b) <= c
  BY <1>1, <1>2
<1> QED
  BY <1>1, <1>3, DivAtLeast

\* The calls from the i-th on are within the allowance of the window it opens.
LEMMA SinceCall ==
    ASSUME LimiterInv, RefillInterval > 0, NEW t \in Tools, NEW i \in 1..Len(granted[t])
    PROVE  /\ granted[t][i] \in Nat /\ granted[t][i] <= now
           /\ Len(granted[t]) - i + 1
                <= Capacity + (now - granted[t][i]) \div RefillInterval + 1
<1> DEFINE g == granted[t]
           b == buckets[t]
           calls == Len(g) - i + 1
           q == (now - g[i]) \div RefillInterval
<1>1. g \in Seq(Nat) /\ ToolInv(t) /\ b \in Bucket \cup {NoBucket}
  BY DEF LimiterInv, TypeOK
<1>2. b # NoBucket
  BY <1>1 DEF ToolInv
<1>3. PICK m \in Nat : Aged(b, g[i], calls, m)
  BY <1>1, <1>2 DEF ToolInv, Fits
<1>4. /\ b.lastRefill \in Nat /\ b.tokens \in Nat /\ Capacity \in Nat
      /\ RefillInterval \in Nat \ {0} /\ now \in Nat /\ b.lastRefill <= now
  BY <1>1, <1>2, BucketAssumption, LimiterAssumption DEF Bucket, ToolInv, LimiterInv, TypeOK
<1>5. g[i] \in Nat /\ calls \in Nat /\ g[i] <= now
  BY <1>1, Elements DEF ToolInv, InOrder
<1>6. now - g[i] \in Nat
  BY <1>4, <1>5
<1>7. q \in Nat
  BY <1>4, <1>6, DivFacts
<1> HIDE DEF g, b, calls
<1>8. m <= q + 1
  <2>1. CASE m = 0
    BY <1>7, <2>1
  <2>2. CASE m # 0
    <3>1. m - 1 \in Nat
      BY <2>2
    <3>2. RefillInterval * (m - 1) = Span(m) - RefillInterval
      BY <1>4 DEF Span
    <3>3. Span(m) - RefillInterval <= now - g[i]
      <4>1. g[i] < b.lastRefill - Span(m) + RefillInterval
        BY <1>3 DEF Aged
      <4>2. Span(m) \in Nat
        BY SpanType
      <4> HIDE DEF q
      <4> QED
        BY <1>4, <1>5, <4>1, <4>2
    <3>4. m - 1 <= q
      BY <1>4, <1>6, <3>1, <3>2, <3>3, DivAtLeast
    <3> QED
      BY <1>7, <3>4
  <2> QED
    BY <2>1, <2>2
<1>9. calls <= Capacity + q + 1
  <2>1. b.tokens + calls <= Capacity + m
    BY <1>3 DEF Aged
  <2> HIDE DEF q
  <2> QED
    BY <1>4, <1>5, <1>7, <1>8, <2>1
<1> QED
  BY <1>5, <1>9 DEF g, calls

\* No window lets through more than the capacity and its intervals.
LEMMA WindowHolds ==
    ASSUME LimiterInv
    PROVE  WindowBound
<1> SUFFICES ASSUME RefillInterval > 0, NEW t \in Tools, NEW from \in 0..now
             PROVE  Cardinality(Accepted(t, from, now))
                      <= Capacity + (now - from) \div RefillInterval + 1
  BY DEF WindowBound
<1> DEFINE n == Len(granted[t])
           q == Capacity + (now - from) \div RefillInterval + 1
<1>1. /\ n \in Nat /\ now \in Nat /\ from \in Nat /\ now - from \in Nat
      /\ RefillInterval \in Nat \ {0} /\ Capacity \in Nat
  BY BucketAssumption, LimiterAssumption DEF LimiterInv, TypeOK
<1>2. q \in Nat
  BY <1>1, DivFacts
<1>3. ASSUME NEW i \in Accepted(t, from, now)
      PROVE  i \in (n - q + 1)..n
  <2>1. i \in 1..n /\ from <= granted[t][i]
    BY DEF Accepted
  <2>2. /\ granted[t][i] \in Nat /\ granted[t][i] <= now
        /\ n - i + 1 <= Capacity + (now - granted[t][i]) \div RefillInterval + 1
    BY <2>1, SinceCall
  <2>6. now - granted[t][i] \in Nat /\ now - granted[t][i] <= now - from
    <3>1. from <= granted[t][i] /\ granted[t][i] \in Nat /\ granted[t][i] <= now
      BY <2>1, <2>2
    <3> HIDE DEF q, n
    <3> QED
      BY <1>1, <3>1
  <2>3. (now - granted[t][i]) \div RefillInterval <= (now - from) \div RefillInterval
    BY <1>1, <2>6, DivGrows
  <2>4. (now - granted[t][i]) \div RefillInterval \in Nat
        /\ (now - from) \div RefillInterval \in Nat
    BY <1>1, <2>6, DivFacts
  <2>5. n - i + 1 <= q
    BY <1>1, <2>1, <2>2, <2>3, <2>4
  <2> HIDE DEF q, n
  <2> QED
    BY <1>1, <1>2, <2>1, <2>5
<1> HIDE DEF q
<1>4. IsFiniteSet((n - q + 1)..n) /\ Cardinality((n - q + 1)..n) = q
  <2>1. n - q + 1 \in Int /\ n \in Int
    BY <1>1, <1>2
  <2>2. /\ IsFiniteSet((n - q + 1)..n)
        /\ Cardinality((n - q + 1)..n) = IF n - q + 1 > n THEN 0 ELSE n - (n - q + 1) + 1
    BY <2>1, FS_Interval
  <2> HIDE DEF n
  <2> QED
    BY <1>1, <1>2, <2>2
<1>5. Accepted(t, from, now) \subseteq (n - q + 1)..n
  BY <1>3
<1>6. Cardinality(Accepted(t, from, now)) <= q
  BY <1>4, <1>5, FS_Subset
<1> QED
  BY <1>6 DEF q

\* No lifetime does, either.
LEMMA LifetimeHolds ==
    ASSUME LimiterInv
    PROVE  LifetimeBound
<1> SUFFICES ASSUME RefillInterval > 0, NEW t \in Tools, granted[t] # <<>>
             PROVE  Len(granted[t]) <= Capacity + (now - granted[t][1]) \div RefillInterval
  BY DEF LifetimeBound
<1> DEFINE g == granted[t]
           b == buckets[t]
           n == Len(g)
           first == g[1]
           q == (now - first) \div RefillInterval
<1>1. g \in Seq(Nat) /\ ToolInv(t) /\ b \in Bucket \cup {NoBucket}
  BY DEF LimiterInv, TypeOK
<1>2. b # NoBucket
  BY <1>1 DEF ToolInv
<1>3. PICK k \in Nat : Begun(b, first, n, k)
  BY <1>1, <1>2 DEF ToolInv, Fits
<1>4. /\ b.lastRefill \in Nat /\ b.tokens \in Nat /\ Capacity \in Nat
      /\ RefillInterval \in Nat \ {0} /\ now \in Nat /\ b.lastRefill <= now
  BY <1>1, <1>2, BucketAssumption, LimiterAssumption DEF Bucket, ToolInv, LimiterInv, TypeOK
<1>5. first \in Nat /\ n \in Nat /\ first <= now
  BY <1>1, Elements DEF ToolInv, InOrder
<1> HIDE DEF g, b, n, first
<1>6. now - first \in Nat /\ RefillInterval * k <= now - first
  <2>1. b.lastRefill = first + Span(k) /\ Span(k) \in Nat
    BY <1>3, SpanType DEF Begun
  <2>2. Span(k) <= now - first
    BY <1>4, <1>5, <2>1
  <2> QED
    BY <1>4, <1>5, <2>2 DEF Span
<1>7. k <= q /\ q \in Nat
  BY <1>4, <1>6, DivAtLeast, DivFacts
<1>8. b.tokens + n <= Capacity + k
  BY <1>3 DEF Begun
<1> HIDE DEF q
<1>9. n <= Capacity + q
  BY <1>4, <1>5, <1>7, <1>8
<1> QED
  BY <1>9 DEF g, n, q, first

\* AllowanceBound: whatever the order and the instants of the calls, no tool gets more
\* than its capacity and what the window's intervals bring.
THEOREM AllowanceKept == Spec => []AllowanceBound
<1>1. LimiterInv => AllowanceBound
  BY WindowHolds, LifetimeHolds DEF AllowanceBound, LimiterInv
<1> QED
  BY <1>1, LimiterCorrect, PTL

\* A shed call follows a capacity of recent ones.
LEMMA ShedHolds ==
    ASSUME LimiterInv
    PROVE  ShedIsEarned
<1> SUFFICES ASSUME RefillInterval > 0, NEW t \in Tools, NEW k \in 1..Len(shed[t])
             PROVE  LET at == shed[t][k] IN
                      Cardinality(Accepted(t, at - Capacity * RefillInterval + 1, at)) >= Capacity
  BY DEF ShedIsEarned
<1> DEFINE at == shed[t][k]
           g == granted[t]
           all == Capacity * RefillInterval
           S == Accepted(t, at - all + 1, at)
<1>1. /\ g \in Seq(Nat) /\ shed[t] \in Seq(Nat) /\ at \in Nat
      /\ InOrder(g, now) /\ Earned(g, at)
  BY Elements DEF LimiterInv, TypeOK, ToolInv
<1>2. Capacity \in Nat \ {0} /\ all \in Nat /\ Len(g) \in Nat
  BY <1>1, Elements, BucketAssumption
<1> HIDE DEF at, all
<1>3. PICK i \in 1..Len(g) :
        /\ i + Capacity - 1 <= Len(g) /\ at - all < g[i]
        /\ \A j \in i..(i + Capacity - 1) : g[j] <= at
  BY <1>1 DEF Earned, all
<1>4. ASSUME NEW j \in i..(i + Capacity - 1)
      PROVE  j \in S
  <2>1. j \in 1..Len(g) /\ i <= j
    BY <1>2, <1>3
  <2>2. g[i] <= g[j] /\ g[i] \in Nat /\ g[j] \in Nat /\ g[j] <= at
    BY <1>1, <1>3, <2>1, Elements DEF InOrder
  <2>3. at - all + 1 <= g[j]
    <3>1. at - all < g[i]
      BY <1>3
    <3> HIDE DEF g
    <3> QED
      BY <1>1, <1>2, <2>2, <3>1
  <2> QED
    BY <2>1, <2>2, <2>3 DEF Accepted
<1>5. Cardinality(i..(i + Capacity - 1)) = Capacity
  <2> DEFINE last == i + Capacity - 1
  <2>1. i \in Int /\ last \in Int /\ ~(i > last) /\ last - i + 1 = Capacity
    BY <1>2
  <2> HIDE DEF last
  <2>2. Cardinality(i..last) = IF i > last THEN 0 ELSE last - i + 1
    BY <2>1, FS_Interval
  <2> QED
    BY <2>1, <2>2 DEF last
<1>6. IsFiniteSet(S)
  <2>1. IsFiniteSet(1..Len(g))
    BY <1>2, FS_Interval
  <2> QED
    BY <2>1, FS_Subset DEF Accepted
<1> HIDE DEF S
<1>7. Capacity <= Cardinality(S)
  BY <1>4, <1>5, <1>6, FS_Subset
<1>8. Cardinality(S) \in Nat
  BY <1>6, FS_CardinalityType
<1> QED
  BY <1>2, <1>7, <1>8 DEF S, at, all

\* ShedIsEarned: no call is turned away but by a tool that used its allowance, whatever
\* the interval's fractions.
THEOREM ShedsAreEarned == Spec => []ShedIsEarned
<1>1. LimiterInv => ShedIsEarned
  BY ShedHolds
<1> QED
  BY <1>1, LimiterCorrect, PTL
=============================================================================
