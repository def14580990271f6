------------------------- MODULE BridgeDispatchProofs -------------------------
(***************************************************************************)
(* Proofs about BridgeDispatch, for any set of calls, tools, capacities,    *)
(* thresholds and clock bound.  First the operators on one bucket and on    *)
(* the breaker, then the type invariant together with the shape of the      *)
(* device queue, then the audit, resilience and breaker invariants.         *)
(***************************************************************************)
EXTENDS BridgeDispatch, TLAPS, FiniteSetTheorems

-----------------------------------------------------------------------------
(* The values *)

\* Bucket::refill never overfills a bucket nor turns time back before zero.
LEMMA RefillTyped ==
    ASSUME NEW b \in Bucket, NEW t \in Nat
    PROVE  Refill(b, t) \in Bucket
<1> USE BucketAssumption
<1>1. CASE RefillInterval = 0 \/ b.tokens >= Capacity
  BY <1>1 DEF Refill
<1>2. CASE ~(RefillInterval = 0 \/ b.tokens >= Capacity)
  <2> DEFINE n == Intervals(b, t)
  <2>1. RefillInterval \in Nat /\ RefillInterval > 0 /\ b.lastRefill \in Nat
    BY <1>2 DEF Bucket
  <2>2. n \in Nat
    BY <2>1 DEF Intervals
  <2> HIDE DEF n
  <2>3. RefillInterval * (n % CountRange) \in Nat
    <3>1. n % CountRange \in Nat
      BY <2>2
    <3> QED
      BY <2>1, <3>1
  <2>4. b.tokens \in 0..Capacity /\ b.tokens + Lesser(n, Capacity - b.tokens) \in 0..Capacity
    BY <1>2, <2>2 DEF Lesser, Bucket
  <2>5. Refill(b, t) = [tokens     |-> b.tokens + Lesser(n, Capacity - b.tokens),
                        lastRefill |-> b.lastRefill + RefillInterval * (n % CountRange)]
    BY <1>2 DEF Refill, n
  <2> QED
    BY <2>1, <2>3, <2>4, <2>5 DEF Bucket
<1> QED
  BY <1>1, <1>2

\* A tool's first bucket is a bucket.
LEMMA NewBucketTyped ==
    ASSUME NEW t \in Nat
    PROVE  NewBucket(t) \in Bucket
BY BucketAssumption DEF NewBucket, Bucket

\* A spent bucket is a bucket: refilling never passes the capacity.
LEMMA SpendTyped ==
    ASSUME NEW b \in Bucket, NEW t \in Nat
    PROVE  Spend(b, t) \in Bucket
<1> DEFINE r == Refill(b, t)
<1>1. r \in Bucket
  BY RefillTyped
<1> HIDE DEF r
<1>2. Spend(b, t) = IF r.tokens > 0 THEN [r EXCEPT !.tokens = @ - 1] ELSE r
  BY DEF Spend, r
<1> QED
  BY <1>1, <1>2, BucketAssumption DEF Bucket

\* The operations of the breaker, and what each does to the latch, the openness
\* and the failure count.
LEMMA AdmitEffect ==
    ASSUME NEW b \in BreakerState, NEW t \in Nat
    PROVE  /\ Admit(b, t) \in BreakerState
           /\ Admit(b, t).openUntil = b.openUntil
           /\ Admit(b, t).failures = b.failures
           /\ Admit(b, t).halfOpen => b.halfOpen \/ AdmitsTrial(b, t)
           /\ AdmitsTrial(b, t) => ~Closed(b)
BY BreakerAssumption DEF Admit, AdmitsTrial, CooldownOver, Closed, BreakerState

\* record_success closes the breaker, whatever it was.
LEMMA SuccessEffect ==
    ASSUME NEW b \in BreakerState
    PROVE  /\ RecordSuccess(b) \in BreakerState
           /\ Closed(RecordSuccess(b))
           /\ RecordSuccess(b).failures = 0
           /\ ~RecordSuccess(b).halfOpen
BY BreakerAssumption DEF RecordSuccess, Closed, BreakerState

\* trip opens it and clears the latch.
LEMMA TripEffect ==
    ASSUME NEW b \in BreakerState, NEW t \in Nat
    PROVE  /\ Trip(b, t) \in BreakerState
           /\ Trip(b, t).halfOpen = FALSE
           /\ ~Closed(Trip(b, t))
           /\ Trip(b, t).openUntil = t + Cooldown
<1> DEFINE d == t + Cooldown
<1>1. d \in Nat /\ d # NoInstant
  BY BreakerAssumption
<1> HIDE DEF d
<1>2. Trip(b, t) = [b EXCEPT !.openUntil = d, !.halfOpen = FALSE]
  BY DEF Trip, d
<1> QED
  BY <1>1, <1>2 DEF Closed, BreakerState, d

\* record_failure counts on; it opens a closed breaker exactly at the threshold,
\* and either sets a new deadline or leaves the old one of an unlatched breaker.
LEMMA FailureEffect ==
    ASSUME NEW b \in BreakerState, NEW t \in Nat
    PROVE  /\ RecordFailure(b, t) \in BreakerState
           /\ ~RecordFailure(b, t).halfOpen
           /\ Closed(RecordFailure(b, t)) =>
                /\ Closed(b)
                /\ RecordFailure(b, t).failures = b.failures + 1
                /\ b.failures + 1 < FailureThreshold
           /\ Closed(b) /\ ~b.halfOpen /\ ~Closed(RecordFailure(b, t)) =>
                b.failures + 1 >= FailureThreshold
           /\ \/ RecordFailure(b, t).openUntil = t + Cooldown
              \/ RecordFailure(b, t).openUntil = b.openUntil /\ ~b.halfOpen
<1> USE BreakerAssumption
<1>1. FailureThreshold \in Nat
  BY DEF FailureThreshold
<1>2. CASE b.halfOpen
  <2>1. RecordFailure(b, t) = Trip(b, t)
    BY <1>2 DEF RecordFailure
  <2> QED
    BY <1>2, <2>1, TripEffect
<1>3. CASE ~b.halfOpen
  <2> DEFINE k == [b EXCEPT !.failures = @ + 1]
  <2>1. k \in BreakerState /\ k.openUntil = b.openUntil /\ ~k.halfOpen
        /\ k.failures = b.failures + 1
    BY <1>3 DEF BreakerState
  <2> HIDE DEF k
  <2>2. RecordFailure(b, t) = IF k.failures >= FailureThreshold THEN Trip(k, t) ELSE k
    BY <1>3 DEF RecordFailure, k
  <2>3. CASE k.failures >= FailureThreshold
    <3>1. b.failures + 1 >= FailureThreshold
      BY <2>1, <2>3
    <3> QED
      BY <2>1, <2>2, <2>3, <3>1, TripEffect
  <2>4. CASE ~(k.failures >= FailureThreshold)
    BY <2>1, <2>2, <2>4, <1>1, <1>3 DEF Closed, BreakerState
  <2> QED
    BY <2>3, <2>4
<1> QED
  BY <1>2, <1>3

-----------------------------------------------------------------------------
(* Types, and the device queue *)

\* The fair mutex: it queues exactly the calls that wait for the device or use
\* it, each once, and only the one at the head is past its wait.
QueueInv ==
    /\ \A i \in 1..Len(devQueue) : pc[devQueue[i]] \in {"device", "link"}
    /\ \A i, j \in 1..Len(devQueue) : devQueue[i] = devQueue[j] => i = j
    /\ \A i \in 1..Len(devQueue) : pc[devQueue[i]] = "link" => i = 1
    /\ \A c \in Calls : pc[c] \in {"device", "link"} =>
         \E i \in 1..Len(devQueue) : devQueue[i] = c

\* The call on the link is the one that holds the device mutex.
LEMMA LinkHoldsQueue ==
    ASSUME TypeOK, QueueInv, NEW c \in Calls, pc[c] = "link"
    PROVE  devQueue # <<>> /\ Head(devQueue) = c
<1>1. PICK i \in 1..Len(devQueue) : devQueue[i] = c
  BY DEF QueueInv
<1>2. i = 1
  BY <1>1 DEF QueueInv
<1> QED
  BY <1>1, <1>2 DEF TypeOK

\* A call that moves between steps outside the mutex leaves the queue as it is.
LEMMA QueueUntouched ==
    ASSUME TypeOK, QueueInv, NEW c \in Calls, NEW s \in Steps \ {"device", "link"},
           pc[c] \notin {"device", "link"},
           pc' = [pc EXCEPT ![c] = s], UNCHANGED devQueue
    PROVE  QueueInv'
<1>1. \A d \in Calls : pc'[d] = IF d = c THEN s ELSE pc[d]
  BY DEF TypeOK
<1>2. \A i \in 1..Len(devQueue) : devQueue[i] \in Calls /\ devQueue[i] # c
  BY DEF TypeOK, QueueInv
<1> QED
  BY <1>1, <1>2 DEF QueueInv

\* Answering writes one outcome and, for a power tool, one record.
LEMMA FinishTyped ==
    ASSUME TypeOK, NEW c \in Calls, NEW o \in Outcomes, Finish(c, o)
    PROVE  /\ pc' \in [Calls -> Steps]
           /\ reply' \in [Calls -> Outcomes \cup {Unanswered}]
           /\ audit' \in [Calls -> Seq(Outcomes)]
<1>1. pc' \in [Calls -> Steps] /\ reply' \in [Calls -> Outcomes \cup {Unanswered}]
  BY DEF Finish, TypeOK, Steps
<1>2. CASE IsPower(c)
  <2>1. audit' = [audit EXCEPT ![c] = Append(audit[c], Recorded(o))]
    BY <1>2 DEF Finish, Record
  <2>2. Append(audit[c], Recorded(o)) \in Seq(Outcomes)
    <3>1. Recorded(o) \in Outcomes
      BY DEF Recorded, Outcomes, DeviceOutcomes
    <3> QED
      BY <3>1 DEF TypeOK
  <2> QED
    BY <1>1, <2>1, <2>2 DEF TypeOK
<1>3. CASE ~IsPower(c)
  BY <1>1, <1>3 DEF Finish, TypeOK
<1> QED
  BY <1>2, <1>3

\* Types hold, and the mutex's queue names each waiting call exactly once.
THEOREM TypeCorrect == Spec => [](TypeOK /\ QueueInv)
<1>1. Init => TypeOK /\ QueueInv
  BY DispatchAssumption, BreakerAssumption
     DEF Init, TypeOK, QueueInv, Steps, NewBreaker, BreakerState, NoOutage
<1>2. TypeOK /\ QueueInv /\ [Next]_vars => TypeOK' /\ QueueInv'
  <2> SUFFICES ASSUME TypeOK, QueueInv, [Next]_vars
               PROVE  TypeOK' /\ QueueInv'
    OBVIOUS
  <2>1. ASSUME NEW c \in Calls, NEW u \in BOOLEAN, Arrive(c, u)
        PROVE  TypeOK' /\ QueueInv'
    <3>1. CASE u /\ ~AllowUnsafe
      <4>1. Finish(c, "unsafe_opt_in_absent")
        BY <2>1, <3>1 DEF Arrive
      <4>2. TypeOK'
        BY <2>1, <4>1, FinishTyped DEF Arrive, TypeOK, Outcomes, LocalRefusals
      <4>3. QueueInv'
        BY <2>1, <4>1, QueueUntouched DEF Arrive, Finish, Steps
      <4> QED
        BY <4>2, <4>3
    <3>2. CASE ~(u /\ ~AllowUnsafe)
      <4>1. pc' = [pc EXCEPT ![c] = "limit"]
        BY <2>1, <3>2 DEF Arrive
      <4>2. TypeOK'
        BY <2>1, <3>2 DEF Arrive, TypeOK, Steps
      <4>3. QueueInv'
        BY <2>1, <4>1, QueueUntouched DEF Arrive, Steps
      <4> QED
        BY <4>2, <4>3
    <3> QED
      BY <3>1, <3>2
  <2>2. ASSUME NEW c \in Calls, RefuseBuildParams(c)
        PROVE  TypeOK' /\ QueueInv'
    <3>1. TypeOK'
      BY <2>2 DEF RefuseBuildParams, TypeOK, Steps, Outcomes
    <3>2. QueueInv'
      BY <2>2, QueueUntouched DEF RefuseBuildParams, Steps
    <3> QED
      BY <3>1, <3>2
  <2>3. ASSUME NEW c \in Calls, RateLimit(c)
        PROVE  TypeOK' /\ QueueInv'
    <3> DEFINE t == ToolOf[c]
               b == IF buckets[t] = NoBucket THEN NewBucket(now) ELSE buckets[t]
    <3>1. t \in Tools /\ now \in Nat
      BY DispatchAssumption DEF TypeOK
    <3>2. b \in Bucket
      BY <3>1, NewBucketTyped DEF TypeOK
    <3>3. Spend(b, now) \in Bucket
      BY <3>1, <3>2, SpendTyped
    <3>4. buckets' = [buckets EXCEPT ![t] = Spend(b, now)]
      BY <2>3 DEF RateLimit
    <3> HIDE DEF b, t
    <3>5. buckets' \in [Tools -> Bucket \cup {NoBucket}]
      BY <3>1, <3>3, <3>4 DEF TypeOK
    <3>6. CASE pc' = [pc EXCEPT ![c] = "admit"] /\ UNCHANGED <<reply, audit>>
      <4>1. TypeOK'
        BY <2>3, <3>5, <3>6 DEF RateLimit, TypeOK, Steps
      <4>2. QueueInv'
        BY <2>3, <3>6, QueueUntouched DEF RateLimit, Steps
      <4> QED
        BY <4>1, <4>2
    <3>7. CASE Finish(c, "rate_limited")
      <4>1. TypeOK'
        BY <2>3, <3>5, <3>7, FinishTyped DEF RateLimit, TypeOK, Outcomes, LocalRefusals
      <4>2. QueueInv'
        BY <2>3, <3>7, QueueUntouched DEF RateLimit, Finish, Steps
      <4> QED
        BY <4>1, <4>2
    <3> QED
      BY <2>3, <3>6, <3>7 DEF RateLimit
  <2>4. ASSUME NEW c \in Calls, PassBreaker(c)
        PROVE  TypeOK' /\ QueueInv'
    <3>1. breaker' \in BreakerState
      BY <2>4, AdmitEffect DEF PassBreaker, TypeOK
    <3>2. devQueue' \in Seq(Calls) /\ Len(devQueue') = Len(devQueue) + 1
          /\ devQueue'[Len(devQueue) + 1] = c
          /\ \A i \in 1..Len(devQueue) : devQueue'[i] = devQueue[i]
      BY <2>4 DEF PassBreaker, TypeOK
    <3>3. \A i \in 1..Len(devQueue) : devQueue[i] # c /\ devQueue[i] \in Calls
      <4>1. pc[c] = "admit" /\ \A i \in 1..Len(devQueue) : devQueue[i] \in Calls
        BY <2>4 DEF PassBreaker, TypeOK
      <4> QED
        BY <4>1 DEF QueueInv
    <3>4. Len(devQueue) \in Nat
      BY DEF TypeOK
    <3>5. pc' \in [Calls -> Steps] /\ pc'[c] = "device"
          /\ \A d \in Calls : d # c => pc'[d] = pc[d]
      BY <2>4 DEF PassBreaker, TypeOK, Steps
    <3>6. TypeOK'
      BY <2>4, <3>1, <3>2, <3>5 DEF PassBreaker, TypeOK
    <3>7. QueueInv'
      BY <3>2, <3>3, <3>4, <3>5 DEF QueueInv
    <3> QED
      BY <3>6, <3>7
  <2>5. ASSUME NEW c \in Calls, ShortCircuit(c)
        PROVE  TypeOK' /\ QueueInv'
    <3>1. Finish(c, "device_circuit_open")
      BY <2>5 DEF ShortCircuit
    <3>2. TypeOK'
      BY <2>5, <3>1, FinishTyped DEF ShortCircuit, TypeOK, Outcomes, LocalRefusals
    <3>3. QueueInv'
      BY <2>5, <3>1, QueueUntouched DEF ShortCircuit, Finish, Steps
    <3> QED
      BY <3>2, <3>3
  <2>6. ASSUME NEW c \in Calls, WriteCommand(c)
        PROVE  TypeOK' /\ QueueInv'
    <3>1. PICK k \in 1..Len(devQueue) : devQueue[k] = c
      BY <2>6 DEF WriteCommand, QueueInv
    <3>2. Len(devQueue) \in Nat \ {0} /\ Head(devQueue) = devQueue[1]
      BY <3>1 DEF TypeOK
    <3>3. devQueue[1] = c
      BY <2>6, <3>2 DEF WriteCommand
    <3>4. \A i \in 1..Len(devQueue) : devQueue[i] = c => i = 1
      BY <3>2, <3>3 DEF QueueInv
    <3>5. \A d \in Calls : pc'[d] = IF d = c THEN "link" ELSE pc[d]
      BY <2>6 DEF WriteCommand, TypeOK
    <3>6. \A i \in 1..Len(devQueue) : devQueue[i] \in Calls
      BY DEF TypeOK
    <3>7. TypeOK'
      BY <2>6 DEF WriteCommand, TypeOK, Steps
    <3>8. QueueInv'
      BY <2>6, <3>3, <3>4, <3>5, <3>6 DEF WriteCommand, QueueInv
    <3> QED
      BY <3>7, <3>8
  <2>7. ASSUME NEW c \in Calls, NEW r \in DeviceResults, DeviceReturns(c, r)
        PROVE  TypeOK' /\ QueueInv'
    <3>1. devQueue # <<>> /\ Head(devQueue) = c
      BY <2>7, LinkHoldsQueue DEF DeviceReturns
    <3>2. devQueue' \in Seq(Calls) /\ Len(devQueue') = Len(devQueue) - 1
          /\ \A i \in 1..Len(devQueue') : devQueue'[i] = devQueue[i + 1]
      BY <2>7, <3>1 DEF DeviceReturns, TypeOK
    <3>3. Len(devQueue) \in Nat \ {0} /\ devQueue[1] = c
          /\ \A i \in 1..Len(devQueue) : devQueue[i] \in Calls
      BY <3>1 DEF TypeOK
    <3>4. pc' \in [Calls -> Steps] /\ pc'[c] = "record"
          /\ \A d \in Calls : d # c => pc'[d] = pc[d]
      BY <2>7 DEF DeviceReturns, TypeOK, Steps
    <3>5. TypeOK'
      BY <2>7, <3>2, <3>4 DEF DeviceReturns, TypeOK
    <3>6. \A i \in 2..Len(devQueue) : devQueue[i] # c
      BY <3>3 DEF QueueInv
    <3>7. \A i \in 1..Len(devQueue') : i + 1 \in 2..Len(devQueue)
      BY <3>2, <3>3
    <3>8. \A i \in 1..Len(devQueue') : pc'[devQueue'[i]] = "device"
      BY <3>2, <3>3, <3>4, <3>6, <3>7 DEF QueueInv
    <3>9. \A i, j \in 1..Len(devQueue') : devQueue'[i] = devQueue'[j] => i = j
      BY <3>2, <3>3, <3>7 DEF QueueInv
    <3>10. \A d \in Calls : pc'[d] \in {"device", "link"} =>
             \E i \in 1..Len(devQueue') : devQueue'[i] = d
      <4> SUFFICES ASSUME NEW d \in Calls, pc'[d] \in {"device", "link"}
                   PROVE  \E i \in 1..Len(devQueue') : devQueue'[i] = d
        OBVIOUS
      <4>1. d # c /\ pc[d] \in {"device", "link"}
        BY <3>4
      <4>2. PICK k \in 1..Len(devQueue) : devQueue[k] = d
        BY <4>1 DEF QueueInv
      <4>3. k # 1 /\ k - 1 \in 1..Len(devQueue')
        BY <4>1, <4>2, <3>2, <3>3
      <4>4. devQueue'[k - 1] = devQueue[(k - 1) + 1] /\ (k - 1) + 1 = k
        BY <4>2, <4>3, <3>2
      <4> QED
        BY <4>2, <4>3, <4>4
    <3> QED
      BY <3>5, <3>8, <3>9, <3>10 DEF QueueInv
  <2>8. ASSUME NEW c \in Calls, Settle(c)
        PROVE  TypeOK' /\ QueueInv'
    <3>1. PICK o \in DeviceOutcomes : Finish(c, o)
      BY <2>8 DEF Settle, DeviceOutcomes
    <3>2. now \in Nat
      BY DispatchAssumption DEF TypeOK
    <3>6. outage' \in [since : Nat, before : SUBSET Calls]
      BY <2>8, <3>2 DEF Settle, NoOutage, InFlight, Answered, TypeOK
    <3>3. breaker' \in BreakerState /\ failRun' \in Nat
      <4>1. breaker \in BreakerState /\ failRun \in Nat
        BY DEF TypeOK
      <4>2. CASE result[c] = "ok"
        BY <2>8, <4>1, <4>2, SuccessEffect DEF Settle
      <4>3. CASE result[c] # "ok"
        BY <2>8, <3>2, <4>1, <4>3, FailureEffect DEF Settle
      <4> QED
        BY <4>2, <4>3
    <3>4. TypeOK'
      BY <2>8, <3>1, <3>3, <3>6, FinishTyped DEF Settle, TypeOK, Outcomes
    <3>5. QueueInv'
      BY <2>8, <3>1, QueueUntouched DEF Settle, Finish, Steps
    <3> QED
      BY <3>4, <3>5
  <2>9. CASE Tick
    BY <2>9, DispatchAssumption DEF Tick, TypeOK, QueueInv
  <2>10. CASE UNCHANGED vars
    BY <2>10 DEF vars, TypeOK, QueueInv
  <2> QED
    BY <2>1, <2>2, <2>3, <2>4, <2>5, <2>6, <2>7, <2>8, <2>9, <2>10
       DEF Next, SessionOver
<1> QED
  BY <1>1, <1>2, PTL DEF Spec

\* OneCommandOnTheLink: the device mutex keeps the link single-client.
THEOREM LinkIsExclusive == Spec => []OneCommandOnTheLink
<1>1. TypeOK /\ QueueInv => OneCommandOnTheLink
  <2> SUFFICES ASSUME TypeOK, QueueInv PROVE OneCommandOnTheLink
    OBVIOUS
  <2> DEFINE L == {c \in Calls : pc[c] = "link"}
  <2>1. \A c \in L : devQueue # <<>> /\ Head(devQueue) = c
    BY LinkHoldsQueue
  <2>2. L \subseteq {Head(devQueue)}
    BY <2>1
  <2>3. IsFiniteSet({Head(devQueue)}) /\ Cardinality({Head(devQueue)}) = 1
    BY FS_Singleton
  <2>4. Cardinality(L) <= 1
    BY <2>2, <2>3, FS_Subset
  <2> QED
    BY <2>1, <2>4 DEF OneCommandOnTheLink
<1> QED
  BY <1>1, TypeCorrect, PTL

-----------------------------------------------------------------------------
(* Answers, records and commands *)

\* How far a call has come decides what is known of it: an answer exists
\* exactly when it is done, its command was written exactly when it is past
\* the device mutex, and its records agree with its answer.
AnswerInv ==
    \A c \in Calls :
      /\ pc[c] = "done" <=> reply[c] # Unanswered
      /\ pc[c] \in {"idle", "limit", "admit", "device"} => sent[c] = 0
      /\ pc[c] \in {"link", "record"} => sent[c] = 1
      /\ reply[c] \in LocalRefusals \cup {BadParams} => sent[c] = 0
      /\ reply[c] \in DeviceOutcomes => sent[c] = 1
      /\ audit[c] = IF IsPower(c) /\ reply[c] \notin {Unanswered, BadParams}
                    THEN <<Recorded(reply[c])>> ELSE <<>>

\* Answering keeps it, when the outcome fits what was sent.
LEMMA FinishAnswer ==
    ASSUME TypeOK, AnswerInv, NEW c \in Calls, pc[c] # "done",
           NEW o \in LocalRefusals \cup DeviceOutcomes,
           o \in LocalRefusals => sent[c] = 0,
           o \in DeviceOutcomes => sent[c] = 1,
           Finish(c, o), UNCHANGED sent
    PROVE  AnswerInv'
<1>1. o # Unanswered /\ o # BadParams
  BY DEF LocalRefusals, DeviceOutcomes, Unanswered, BadParams, BadOutput
<1>2. o \in LocalRefusals \cup {BadParams} => sent[c] = 0
  BY <1>1
<1>3. reply[c] = Unanswered /\ audit[c] = <<>>
  BY DEF AnswerInv
<1>4. \A d \in Calls : d # c => pc'[d] = pc[d] /\ reply'[d] = reply[d] /\ audit'[d] = audit[d]
  BY DEF Finish, Record, TypeOK
<1>5. pc'[c] = "done" /\ reply'[c] = o
  BY DEF Finish, TypeOK
<1>6. audit'[c] = IF IsPower(c) THEN <<Recorded(o)>> ELSE <<>>
  <2>1. CASE IsPower(c)
    <3>1. audit' = [audit EXCEPT ![c] = Append(audit[c], Recorded(o))]
      BY <2>1 DEF Finish, Record
    <3>2. Append(<<>>, Recorded(o)) = <<Recorded(o)>>
      OBVIOUS
    <3> QED
      BY <2>1, <3>1, <3>2, <1>3 DEF TypeOK
  <2>2. CASE ~IsPower(c)
    BY <2>2, <1>3 DEF Finish
  <2> QED
    BY <2>1, <2>2
<1>7. \A d \in Calls : IsPower(d)' = IsPower(d)
  BY DEF IsPower
<1>8. SUFFICES ASSUME NEW d \in Calls
      PROVE /\ pc'[d] = "done" <=> reply'[d] # Unanswered
            /\ pc'[d] \in {"idle", "limit", "admit", "device"} => sent'[d] = 0
            /\ pc'[d] \in {"link", "record"} => sent'[d] = 1
            /\ reply'[d] \in LocalRefusals \cup {BadParams} => sent'[d] = 0
            /\ reply'[d] \in DeviceOutcomes => sent'[d] = 1
            /\ audit'[d] = IF IsPower(d) /\ reply'[d] \notin {Unanswered, BadParams}
                           THEN <<Recorded(reply'[d])>> ELSE <<>>
  BY DEF AnswerInv, IsPower, Recorded
<1>9. CASE d = c
  BY <1>1, <1>2, <1>5, <1>6, <1>9
<1>10. CASE d # c
  BY <1>4, <1>10 DEF AnswerInv
<1> QED
  BY <1>9, <1>10

\* A step of an unanswered call that neither answers nor sends keeps it.
LEMMA MoveAnswer ==
    ASSUME TypeOK, AnswerInv, NEW c \in Calls, NEW s \in Steps \ {"done"},
           pc[c] # "done", pc' = [pc EXCEPT ![c] = s],
           s \in {"idle", "limit", "admit", "device"} => sent'[c] = 0,
           s \in {"link", "record"} => sent'[c] = 1,
           \A d \in Calls : d # c => sent'[d] = sent[d],
           UNCHANGED <<reply, audit>>
    PROVE  AnswerInv'
<1>1. reply[c] = Unanswered /\ Unanswered \notin LocalRefusals \cup DeviceOutcomes \cup {BadParams}
  BY DEF AnswerInv, LocalRefusals, DeviceOutcomes, Unanswered, BadParams, BadOutput
<1>2. \A d \in Calls : pc'[d] = IF d = c THEN s ELSE pc[d]
  BY DEF TypeOK
<1> QED
  BY <1>1, <1>2 DEF AnswerInv, IsPower

\* A call's place in dispatch determines what it sent, was told and had recorded.
THEOREM Answers == Spec => []AnswerInv
<1>1. Init => AnswerInv
  BY DEF Init, AnswerInv, Unanswered, LocalRefusals, DeviceOutcomes, BadParams, BadOutput
<1>2. TypeOK /\ QueueInv /\ AnswerInv /\ [Next]_vars => AnswerInv'
  <2> SUFFICES ASSUME TypeOK, QueueInv, AnswerInv, [Next]_vars
               PROVE  AnswerInv'
    OBVIOUS
  <2>1. ASSUME NEW c \in Calls, NEW u \in BOOLEAN, Arrive(c, u)
        PROVE  AnswerInv'
    <3>1. pc[c] = "idle" /\ sent[c] = 0 /\ sent' = sent
      BY <2>1 DEF Arrive, AnswerInv
    <3>2. CASE Finish(c, "unsafe_opt_in_absent")
      BY <3>1, <3>2, FinishAnswer DEF LocalRefusals, DeviceOutcomes, BadOutput
    <3>3. CASE pc' = [pc EXCEPT ![c] = "limit"] /\ UNCHANGED <<reply, audit>>
      BY <3>1, <3>3, MoveAnswer DEF Steps
    <3> QED
      BY <2>1, <3>2, <3>3 DEF Arrive
  <2>2. ASSUME NEW c \in Calls, RefuseBuildParams(c)
        PROVE  AnswerInv'
    <3>1. pc[c] = "idle" /\ sent[c] = 0 /\ sent' = sent /\ audit' = audit
      BY <2>2 DEF RefuseBuildParams, AnswerInv
    <3>2. reply[c] = Unanswered /\ audit[c] = <<>>
      BY <3>1 DEF AnswerInv
    <3>3. \A d \in Calls : /\ pc'[d] = IF d = c THEN "done" ELSE pc[d]
                           /\ reply'[d] = IF d = c THEN BadParams ELSE reply[d]
      BY <2>2 DEF RefuseBuildParams, TypeOK
    <3>4. BadParams \notin DeviceOutcomes /\ BadParams # Unanswered
      BY DEF BadParams, DeviceOutcomes, Unanswered, BadOutput
    <3> QED
      BY <3>1, <3>2, <3>3, <3>4 DEF AnswerInv, IsPower
  <2>3. ASSUME NEW c \in Calls, RateLimit(c)
        PROVE  AnswerInv'
    <3>1. pc[c] = "limit" /\ sent[c] = 0 /\ sent' = sent
      BY <2>3 DEF RateLimit, AnswerInv
    <3>2. CASE Finish(c, "rate_limited")
      BY <3>1, <3>2, FinishAnswer DEF LocalRefusals, DeviceOutcomes, BadOutput
    <3>3. CASE pc' = [pc EXCEPT ![c] = "admit"] /\ UNCHANGED <<reply, audit>>
      BY <3>1, <3>3, MoveAnswer DEF Steps
    <3> QED
      BY <2>3, <3>2, <3>3 DEF RateLimit
  <2>4. ASSUME NEW c \in Calls, PassBreaker(c)
        PROVE  AnswerInv'
    <3>1. pc[c] = "admit" /\ sent[c] = 0
      BY <2>4 DEF PassBreaker, AnswerInv
    <3> QED
      BY <2>4, <3>1, MoveAnswer DEF PassBreaker, Steps
  <2>5. ASSUME NEW c \in Calls, ShortCircuit(c)
        PROVE  AnswerInv'
    <3>1. pc[c] = "admit" /\ sent[c] = 0
      BY <2>5 DEF ShortCircuit, AnswerInv
    <3> QED
      BY <2>5, <3>1, FinishAnswer DEF ShortCircuit, LocalRefusals, DeviceOutcomes, BadOutput
  <2>6. ASSUME NEW c \in Calls, WriteCommand(c)
        PROVE  AnswerInv'
    <3>1. pc[c] = "device" /\ sent[c] = 0
      BY <2>6 DEF WriteCommand, AnswerInv
    <3>2. sent'[c] = 1 /\ \A d \in Calls : d # c => sent'[d] = sent[d]
      BY <2>6, <3>1 DEF WriteCommand, TypeOK
    <3> QED
      BY <2>6, <3>1, <3>2, MoveAnswer DEF WriteCommand, Steps
  <2>7. ASSUME NEW c \in Calls, NEW r \in DeviceResults, DeviceReturns(c, r)
        PROVE  AnswerInv'
    <3>1. pc[c] = "link" /\ sent[c] = 1
      BY <2>7 DEF DeviceReturns, AnswerInv
    <3> QED
      BY <2>7, <3>1, MoveAnswer DEF DeviceReturns, Steps
  <2>8. ASSUME NEW c \in Calls, Settle(c)
        PROVE  AnswerInv'
    <3>1. pc[c] = "record" /\ sent[c] = 1 /\ sent' = sent
      BY <2>8 DEF Settle, AnswerInv
    <3>2. PICK o \in DeviceOutcomes : Finish(c, o)
      BY <2>8 DEF Settle, DeviceOutcomes
    <3>3. o \notin LocalRefusals
      BY <3>2 DEF LocalRefusals, DeviceOutcomes, BadOutput
    <3> QED
      BY <3>1, <3>2, <3>3, FinishAnswer
  <2>9. CASE Tick \/ UNCHANGED vars
    BY <2>9 DEF Tick, vars, AnswerInv, IsPower
  <2> QED
    BY <2>1, <2>2, <2>3, <2>4, <2>5, <2>6, <2>7, <2>8, <2>9
       DEF Next, SessionOver
<1> QED
  BY <1>1, <1>2, TypeCorrect, PTL DEF Spec

\* PowerToolsAreAudited, for every set of calls and tools.
THEOREM Audited == Spec => []PowerToolsAreAudited
<1>1. AnswerInv => PowerToolsAreAudited
  BY DEF AnswerInv, PowerToolsAreAudited
<1> QED
  BY <1>1, Answers, PTL

\* RefusedNeverSent: a refusal never reached the device, no call is sent twice.
THEOREM NeverSent == Spec => []RefusedNeverSent
<1>1. TypeOK /\ AnswerInv => RefusedNeverSent
  <2> SUFFICES ASSUME TypeOK, AnswerInv, NEW c \in Calls
               PROVE  /\ sent[c] <= 1
                      /\ reply[c] \in LocalRefusals \cup {BadParams} => sent[c] = 0
                      /\ reply[c] \in DeviceOutcomes => sent[c] = 1
    BY DEF RefusedNeverSent
  <2>1. CASE pc[c] = "done"
    BY <2>1 DEF AnswerInv, TypeOK, Outcomes
  <2>2. CASE pc[c] # "done"
    BY <2>2 DEF AnswerInv, TypeOK, Steps
  <2> QED
    BY <2>1, <2>2
<1> QED
  BY <1>1, Answers, TypeCorrect, PTL

-----------------------------------------------------------------------------
(* The breaker *)

\* Every unresolved trial is a call in flight, a latched breaker is open and
\* has such a trial, and openness agrees with the run of failures.
BreakerInv ==
    /\ \A c \in trials : pc[c] \in {"device", "link", "record"}
    /\ breaker.halfOpen => ~Closed(breaker) /\ trials # {}
    /\ OpenMeansFailureRun

\* A step that leaves the breaker, and the calls in flight, alone.
LEMMA BreakerUntouched ==
    ASSUME TypeOK, BreakerInv, UNCHANGED <<breaker, trials, failRun>>,
           \A c \in trials : pc'[c] \in {"device", "link", "record"}
    PROVE  BreakerInv'
BY DEF BreakerInv, OpenMeansFailureRun, Closed, FailureThreshold

\* Only a call in flight can be a trial, so other calls may move freely.
LEMMA OutsiderMoves ==
    ASSUME TypeOK, BreakerInv, NEW c \in Calls, NEW s \in Steps,
           pc[c] \notin {"device", "link", "record"} \/ s \in {"device", "link", "record"},
           pc' = [pc EXCEPT ![c] = s]
    PROVE  \A d \in trials : pc'[d] \in {"device", "link", "record"}
BY DEF TypeOK, BreakerInv

\* The breaker agrees with the run of failures and with the trials in flight.
THEOREM BreakerCorrect == Spec => []BreakerInv
<1>1. Init => BreakerInv
  BY BreakerAssumption
     DEF Init, BreakerInv, OpenMeansFailureRun, NewBreaker, Closed, FailureThreshold
<1>2. TypeOK /\ BreakerInv /\ [Next]_vars => BreakerInv'
  <2> SUFFICES ASSUME TypeOK, BreakerInv, [Next]_vars
               PROVE  BreakerInv'
    OBVIOUS
  <2>0. breaker \in BreakerState /\ now \in Nat /\ failRun \in Nat /\ trials \subseteq Calls
    BY DispatchAssumption DEF TypeOK
  <2>1. ASSUME NEW c \in Calls, NEW u \in BOOLEAN, Arrive(c, u)
        PROVE  BreakerInv'
    <3>1. PICK s \in Steps : pc' = [pc EXCEPT ![c] = s]
      BY <2>1 DEF Arrive, Finish, Steps
    <3>2. pc[c] \notin {"device", "link", "record"}
      BY <2>1 DEF Arrive
    <3> QED
      BY <2>1, <3>1, <3>2, OutsiderMoves, BreakerUntouched DEF Arrive
  <2>2. ASSUME NEW c \in Calls, RefuseBuildParams(c)
        PROVE  BreakerInv'
    BY <2>2, OutsiderMoves, BreakerUntouched DEF RefuseBuildParams, Steps
  <2>3. ASSUME NEW c \in Calls, RateLimit(c)
        PROVE  BreakerInv'
    <3>1. PICK s \in Steps : pc' = [pc EXCEPT ![c] = s]
      BY <2>3 DEF RateLimit, Finish, Steps
    <3>2. pc[c] \notin {"device", "link", "record"}
      BY <2>3 DEF RateLimit
    <3> QED
      BY <2>3, <3>1, <3>2, OutsiderMoves, BreakerUntouched DEF RateLimit
  <2>4. ASSUME NEW c \in Calls, PassBreaker(c)
        PROVE  BreakerInv'
    <3>1. pc' = [pc EXCEPT ![c] = "device"] /\ failRun' = failRun
          /\ breaker' = Admit(breaker, now)
          /\ trials' = IF AdmitsTrial(breaker, now) THEN trials \cup {c} ELSE trials
      BY <2>4 DEF PassBreaker
    <3>2. \A d \in trials : pc'[d] \in {"device", "link", "record"}
      BY <3>1, OutsiderMoves DEF Steps
    <3>3. pc'[c] = "device"
      BY <3>1 DEF TypeOK
    <3>4. breaker'.openUntil = breaker.openUntil /\ breaker'.failures = breaker.failures
          /\ (breaker'.halfOpen => breaker.halfOpen \/ AdmitsTrial(breaker, now))
          /\ (AdmitsTrial(breaker, now) => ~Closed(breaker))
      BY <2>0, <3>1, AdmitEffect
    <3>5. Closed(breaker)' = Closed(breaker)
      BY <3>4 DEF Closed
    <3>6. OpenMeansFailureRun'
      BY <3>1, <3>4, <3>5 DEF BreakerInv, OpenMeansFailureRun, FailureThreshold
    <3>7. \A d \in trials' : pc'[d] \in {"device", "link", "record"}
      BY <3>1, <3>2, <3>3
    <3>8. breaker'.halfOpen => ~Closed(breaker)' /\ trials' # {}
      BY <3>1, <3>4, <3>5 DEF BreakerInv
    <3> QED
      BY <3>6, <3>7, <3>8 DEF BreakerInv, Closed
  <2>5. ASSUME NEW c \in Calls, ShortCircuit(c)
        PROVE  BreakerInv'
    BY <2>5, OutsiderMoves, BreakerUntouched DEF ShortCircuit, Finish, Steps
  <2>6. ASSUME NEW c \in Calls, WriteCommand(c)
        PROVE  BreakerInv'
    BY <2>6, OutsiderMoves, BreakerUntouched DEF WriteCommand, Steps
  <2>7. ASSUME NEW c \in Calls, NEW r \in DeviceResults, DeviceReturns(c, r)
        PROVE  BreakerInv'
    BY <2>7, OutsiderMoves, BreakerUntouched DEF DeviceReturns, Steps
  <2>8. ASSUME NEW c \in Calls, Settle(c)
        PROVE  BreakerInv'
    <3>1. pc' = [pc EXCEPT ![c] = "done"] /\ trials' = trials \ {c}
      BY <2>8 DEF Settle, Finish
    <3>2. \A d \in trials' : pc'[d] \in {"device", "link", "record"}
      BY <2>0, <3>1 DEF BreakerInv, TypeOK
    <3>3. ~breaker'.halfOpen /\ OpenMeansFailureRun'
      <4>1. CASE result[c] = "ok"
        <5>1. breaker' = RecordSuccess(breaker) /\ failRun' = 0
          BY <2>8, <4>1 DEF Settle
        <5>2. Closed(breaker') /\ breaker'.failures = 0 /\ ~breaker'.halfOpen
          BY <2>0, <5>1, SuccessEffect
        <5>3. 0 < FailureThreshold
          BY BreakerAssumption DEF FailureThreshold
        <5> QED
          BY <5>1, <5>2, <5>3 DEF OpenMeansFailureRun, Closed, FailureThreshold
      <4>2. CASE result[c] # "ok"
        <5>1. breaker' = RecordFailure(breaker, now) /\ failRun' = failRun + 1
          BY <2>8, <4>2 DEF Settle
        <5>2. FailureThreshold \in Nat /\ FailureThreshold' = FailureThreshold
          BY BreakerAssumption DEF FailureThreshold
        <5>3. ~breaker'.halfOpen
          BY <2>0, <5>1, FailureEffect
        <5>4. CASE Closed(breaker')
          <6>1. Closed(breaker) /\ breaker'.failures = breaker.failures + 1
                /\ breaker.failures + 1 < FailureThreshold
            BY <2>0, <5>1, <5>4, FailureEffect
          <6>2. breaker.failures = failRun
            BY <6>1 DEF BreakerInv, OpenMeansFailureRun
          <6> QED
            BY <5>1, <5>2, <5>3, <5>4, <6>1, <6>2 DEF OpenMeansFailureRun, Closed
        <5>5. CASE ~Closed(breaker')
          <6>1. CASE Closed(breaker)
            <7>1. ~breaker.halfOpen /\ breaker.failures = failRun
              BY <6>1 DEF BreakerInv, OpenMeansFailureRun
            <7>2. failRun + 1 >= FailureThreshold
              BY <2>0, <5>1, <5>5, <6>1, <7>1, FailureEffect
            <7> QED
              BY <5>1, <5>2, <5>3, <5>5, <7>2 DEF OpenMeansFailureRun, Closed
          <6>2. CASE ~Closed(breaker)
            <7>1. failRun >= FailureThreshold
              BY <6>2 DEF BreakerInv, OpenMeansFailureRun
            <7> QED
              BY <2>0, <5>1, <5>2, <5>3, <5>5, <7>1 DEF OpenMeansFailureRun, Closed
          <6> QED
            BY <6>1, <6>2
        <5> QED
          BY <5>4, <5>5
      <4> QED
        BY <4>1, <4>2
    <3> QED
      BY <3>2, <3>3 DEF BreakerInv
  <2>9. CASE Tick \/ UNCHANGED vars
    BY <2>9, BreakerUntouched DEF Tick, vars, BreakerInv
  <2> QED
    BY <2>1, <2>2, <2>3, <2>4, <2>5, <2>6, <2>7, <2>8, <2>9
       DEF Next, SessionOver
<1> QED
  BY <1>1, <1>2, TypeCorrect, PTL DEF Spec

\* OpenMeansFailureRun: the breaker opens only on a full run of failures.
THEOREM OpensOnEvidence == Spec => []OpenMeansFailureRun
<1>1. BreakerInv => OpenMeansFailureRun
  BY DEF BreakerInv
<1> QED
  BY <1>1, BreakerCorrect, PTL

\* LatchHasTrial: a half-open breaker always has a call that will resolve it.
THEOREM LatchIsHeld == Spec => []LatchHasTrial
<1>1. TypeOK /\ BreakerInv => LatchHasTrial
  BY DEF TypeOK, BreakerInv, LatchHasTrial, InFlight
<1> QED
  BY <1>1, BreakerCorrect, TypeCorrect, PTL

-----------------------------------------------------------------------------
(* What an outage lets through *)

\* The calls the breaker let through since it opened; every late call is one.
Passed == {c \in Calls \ outage.before :
             pc[c] \in {"device", "link", "record"} \/ sent[c] > 0}

\* Each call let through was a trial, and used up one cooldown: the deadline is a
\* cooldown per trial behind the opening of the breaker, and one further unless a
\* trial is latched.
OutageInv ==
    ~Closed(breaker) =>
      /\ IsFiniteSet(Passed)
      /\ outage.since <= now
      /\ breaker.openUntil <= now + Cooldown
      /\ breaker.halfOpen => /\ breaker.openUntil <= now
                             /\ Cooldown * Cardinality(Passed) <= breaker.openUntil - outage.since
      /\ ~breaker.halfOpen =>
           Cooldown * Cardinality(Passed) + Cooldown <= breaker.openUntil - outage.since

\* Multiplying by a natural number keeps the order.
LEMMA TimesMonotone ==
    ASSUME NEW k \in Nat, NEW m \in Nat, NEW n \in Nat, m <= n
    PROVE  /\ k * m \in Nat /\ k * n \in Nat /\ k * m <= k * n
           /\ k * (n + 1) = k * n + k
<1> DEFINE d == n - m
<1>1. d \in Nat /\ n = m + d
  OBVIOUS
<1> HIDE DEF d
<1>2. k * d \in Nat /\ k * n = k * m + k * d
  BY <1>1
<1> QED
  BY <1>2

\* Fewer calls let through, at the same breaker and no earlier: it still holds.
LEMMA OutageKept ==
    ASSUME TypeOK, TypeOK', OutageInv, Passed' \subseteq Passed, now <= now',
           UNCHANGED <<breaker, outage>>
    PROVE  OutageInv'
<1> SUFFICES ASSUME ~Closed(breaker)
             PROVE  OutageInv'
  BY DEF OutageInv, Closed
<1>1. /\ now \in Nat /\ now' \in Nat /\ Cooldown \in Nat /\ outage.since \in Nat
      /\ breaker.openUntil \in Nat
  BY DispatchAssumption, BreakerAssumption DEF TypeOK, BreakerState, Closed
<1> DEFINE p == Cardinality(Passed)
           q == Cardinality(Passed')
<1>2. IsFiniteSet(Passed') /\ p \in Nat /\ q \in Nat /\ q <= p
  BY FS_Subset, FS_CardinalityType DEF OutageInv
<1> HIDE DEF p, q
<1>3. Cooldown * q \in Nat /\ Cooldown * p \in Nat /\ Cooldown * q <= Cooldown * p
  BY <1>1, <1>2, TimesMonotone
<1>4. /\ outage.since <= now /\ breaker.openUntil <= now + Cooldown
      /\ breaker.halfOpen => /\ breaker.openUntil <= now
                             /\ Cooldown * p <= breaker.openUntil - outage.since
      /\ ~breaker.halfOpen => Cooldown * p + Cooldown <= breaker.openUntil - outage.since
  BY Zenon DEF OutageInv, p
<1>5. /\ outage.since <= now' /\ breaker.openUntil <= now' + Cooldown
      /\ breaker.halfOpen => /\ breaker.openUntil <= now'
                             /\ Cooldown * q <= breaker.openUntil - outage.since
      /\ ~breaker.halfOpen => Cooldown * q + Cooldown <= breaker.openUntil - outage.since
  BY <1>1, <1>3, <1>4
<1> QED
  BY <1>2, <1>5 DEF OutageInv, q

\* A step of a call that the breaker does not let through anew adds none.
LEMMA PassedShrinks ==
    ASSUME TypeOK, NEW c \in Calls, NEW s \in Steps,
           pc' = [pc EXCEPT ![c] = s],
           s \in {"device", "link", "record"} => pc[c] \in {"device", "link", "record"},
           sent'[c] > 0 => sent[c] > 0 \/ pc[c] \in {"device", "link", "record"},
           \A d \in Calls : d # c => sent'[d] = sent[d],
           outage' = outage
    PROVE  Passed' \subseteq Passed
<1>1. \A d \in Calls : pc'[d] = IF d = c THEN s ELSE pc[d]
  BY DEF TypeOK
<1> QED
  BY <1>1 DEF Passed

\* An outage lets nothing through but one trial for every cooldown.
THEOREM OutageCorrect == Spec => []OutageInv
<1>1. Init => OutageInv
  BY DEF Init, OutageInv, NewBreaker, Closed
<1>2. TypeOK /\ TypeOK' /\ AnswerInv /\ BreakerInv /\ OutageInv /\ [Next]_vars => OutageInv'
  <2> SUFFICES ASSUME TypeOK, TypeOK', AnswerInv, BreakerInv, OutageInv, [Next]_vars
               PROVE  OutageInv'
    OBVIOUS
  <2>0. /\ now \in Nat /\ breaker \in BreakerState /\ Cooldown \in Nat
        /\ outage.since \in Nat /\ outage.before \subseteq Calls
        /\ \A c \in Calls : pc[c] \in Steps /\ sent[c] \in Nat
    BY DispatchAssumption, BreakerAssumption DEF TypeOK
  <2>1. ASSUME NEW c \in Calls, NEW u \in BOOLEAN, Arrive(c, u)
        PROVE  OutageInv'
    <3>1. PICK s \in Steps \ {"device", "link", "record"} : pc' = [pc EXCEPT ![c] = s]
      BY <2>1 DEF Arrive, Finish, Steps
    <3>2. UNCHANGED <<breaker, outage, sent, now>>
      BY <2>1 DEF Arrive
    <3>8. Passed' \subseteq Passed
      BY <2>0, <3>1, <3>2, PassedShrinks
    <3>9. now <= now'
      BY <2>0, <3>1, <3>2
    <3> QED
      BY <3>1, <3>2, <3>8, <3>9, OutageKept
  <2>2. ASSUME NEW c \in Calls, RefuseBuildParams(c)
        PROVE  OutageInv'
    <3>1. pc' = [pc EXCEPT ![c] = "done"] /\ UNCHANGED <<breaker, outage, sent, now>>
      BY <2>2 DEF RefuseBuildParams
    <3>8. Passed' \subseteq Passed
      BY <2>0, <3>1, PassedShrinks DEF Steps
    <3>9. now <= now'
      BY <2>0, <3>1
    <3> QED
      BY <3>1, <3>8, <3>9, OutageKept
  <2>3. ASSUME NEW c \in Calls, RateLimit(c)
        PROVE  OutageInv'
    <3>1. PICK s \in Steps \ {"device", "link", "record"} : pc' = [pc EXCEPT ![c] = s]
      BY <2>3 DEF RateLimit, Finish, Steps
    <3>2. UNCHANGED <<breaker, outage, sent, now>>
      BY <2>3 DEF RateLimit
    <3>8. Passed' \subseteq Passed
      BY <2>0, <3>1, <3>2, PassedShrinks
    <3>9. now <= now'
      BY <2>0, <3>1, <3>2
    <3> QED
      BY <3>1, <3>2, <3>8, <3>9, OutageKept
  <2>4. ASSUME NEW c \in Calls, PassBreaker(c)
        PROVE  OutageInv'
    <3>1. /\ pc' = [pc EXCEPT ![c] = "device"] /\ UNCHANGED <<outage, sent, now>>
          /\ breaker' = Admit(breaker, now) /\ Admits(breaker, now)
      BY <2>4 DEF PassBreaker
    <3>2. /\ breaker'.openUntil = breaker.openUntil
          /\ AdmitsTrial(breaker, now) => ~Closed(breaker)
      BY <2>0, <3>1, AdmitEffect
    <3>3. CASE Closed(breaker)
      BY <3>2, <3>3 DEF OutageInv, Closed
    <3>4. CASE ~Closed(breaker)
      <4>1. AdmitsTrial(breaker, now)
        BY <3>1, <3>4 DEF Admits
      <4>2. ~breaker.halfOpen /\ breaker.openUntil <= now /\ breaker.openUntil \in Nat
        BY <2>0, <3>4, <4>1 DEF AdmitsTrial, CooldownOver, BreakerState, Closed
      <4>3. breaker'.halfOpen = TRUE
        BY <2>0, <3>1, <4>1 DEF Admit, BreakerState
      <4> DEFINE p == Cardinality(Passed)
                 q == Cardinality(Passed \cup {c})
                 w == Cardinality(Passed')
      <4>4. \A d \in Calls : pc'[d] = IF d = c THEN "device" ELSE pc[d]
        BY <3>1 DEF TypeOK
      <4>5. Passed' \subseteq Passed \cup {c}
        BY <3>1, <4>4 DEF Passed
      <4>6. /\ IsFiniteSet(Passed') /\ p \in Nat /\ q \in Nat /\ w \in Nat
            /\ w <= q /\ q <= p + 1
        <5>1. IsFiniteSet(Passed) /\ IsFiniteSet(Passed \cup {c})
          BY <3>4, FS_AddElement DEF OutageInv
        <5>2. q = p \/ q = p + 1
          BY <5>1, FS_AddElement
        <5>3. IsFiniteSet(Passed') /\ w <= q
          BY <4>5, <5>1, FS_Subset
        <5> QED
          BY <5>1, <5>2, <5>3, FS_CardinalityType
      <4> HIDE DEF p, q, w
      <4>7. /\ Cooldown * w \in Nat /\ Cooldown * p \in Nat
            /\ Cooldown * w <= Cooldown * p + Cooldown
        <5>1. w <= p + 1 /\ p + 1 \in Nat
          BY <4>6
        <5>2. Cooldown * w \in Nat /\ Cooldown * w <= Cooldown * (p + 1)
          BY <2>0, <4>6, <5>1, TimesMonotone
        <5>3. Cooldown * p \in Nat /\ Cooldown * (p + 1) = Cooldown * p + Cooldown
          BY <2>0, <4>6, p <= p, TimesMonotone
        <5> QED
          BY <5>2, <5>3
      <4>8. /\ outage.since <= now /\ breaker.openUntil <= now + Cooldown
            /\ Cooldown * p + Cooldown <= breaker.openUntil - outage.since
        BY <3>4, <4>2 DEF OutageInv, p
      <4>9. Cooldown * w <= breaker.openUntil - outage.since
        BY <2>0, <4>2, <4>7, <4>8
      <4> QED
        BY <3>1, <3>2, <4>2, <4>3, <4>6, <4>8, <4>9 DEF OutageInv, w
    <3> QED
      BY <3>3, <3>4
  <2>5. ASSUME NEW c \in Calls, ShortCircuit(c)
        PROVE  OutageInv'
    <3>1. pc' = [pc EXCEPT ![c] = "done"] /\ UNCHANGED <<breaker, outage, sent, now>>
      BY <2>5 DEF ShortCircuit, Finish
    <3>8. Passed' \subseteq Passed
      BY <2>0, <3>1, PassedShrinks DEF Steps
    <3>9. now <= now'
      BY <2>0, <3>1
    <3> QED
      BY <3>1, <3>8, <3>9, OutageKept
  <2>6. ASSUME NEW c \in Calls, WriteCommand(c)
        PROVE  OutageInv'
    <3>1. /\ pc' = [pc EXCEPT ![c] = "link"] /\ pc[c] = "device"
          /\ sent' = [sent EXCEPT ![c] = @ + 1] /\ UNCHANGED <<breaker, outage, now>>
      BY <2>6 DEF WriteCommand
    <3>2. \A d \in Calls : d # c => sent'[d] = sent[d]
      BY <3>1 DEF TypeOK
    <3>8. Passed' \subseteq Passed
      BY <2>0, <3>1, <3>2, PassedShrinks DEF Steps
    <3>9. now <= now'
      BY <2>0, <3>1, <3>2
    <3> QED
      BY <3>1, <3>2, <3>8, <3>9, OutageKept
  <2>7. ASSUME NEW c \in Calls, NEW r \in DeviceResults, DeviceReturns(c, r)
        PROVE  OutageInv'
    <3>1. /\ pc' = [pc EXCEPT ![c] = "record"] /\ pc[c] = "link"
          /\ UNCHANGED <<breaker, outage, sent, now>>
      BY <2>7 DEF DeviceReturns
    <3>8. Passed' \subseteq Passed
      BY <2>0, <3>1, PassedShrinks DEF Steps
    <3>9. now <= now'
      BY <2>0, <3>1
    <3> QED
      BY <3>1, <3>8, <3>9, OutageKept
  <2>8. ASSUME NEW c \in Calls, Settle(c)
        PROVE  OutageInv'
    <3>1. /\ pc' = [pc EXCEPT ![c] = "done"] /\ pc[c] = "record"
          /\ UNCHANGED <<sent, now>>
      BY <2>8 DEF Settle, Finish
    <3>2. CASE result[c] = "ok"
      <4>1. Closed(breaker')
        BY <2>0, <2>8, <3>2, SuccessEffect DEF Settle
      <4> QED
        BY <4>1 DEF OutageInv, Closed
    <3>3. CASE result[c] # "ok"
      <4>1. /\ breaker' = RecordFailure(breaker, now)
            /\ outage' = IF Closed(breaker) /\ ~Closed(breaker')
                           THEN [since |-> now, before |-> InFlight \cup Answered]
                           ELSE outage
        BY <2>8, <3>3 DEF Settle
      <4>2. /\ ~breaker'.halfOpen /\ breaker' \in BreakerState
            /\ Closed(breaker') => Closed(breaker)
            /\ \/ breaker'.openUntil = now + Cooldown
               \/ breaker'.openUntil = breaker.openUntil /\ ~breaker.halfOpen
        BY <2>0, <4>1, FailureEffect
      <4>3. CASE Closed(breaker')
        BY <4>3 DEF OutageInv, Closed
      <4>4. CASE ~Closed(breaker') /\ Closed(breaker)
        <5>1. breaker'.openUntil = now + Cooldown
          BY <4>2, <4>4 DEF Closed
        <5>2. outage'.since = now /\ outage'.before = InFlight \cup Answered
          BY <4>1, <4>4
        <5>3. Passed' = {}
          <6> SUFFICES ASSUME NEW d \in Calls, d \notin InFlight \cup Answered
                       PROVE  pc'[d] \notin {"device", "link", "record"} /\ ~(sent'[d] > 0)
            BY <5>2 DEF Passed
          <6>1. pc[d] \in {"idle", "limit", "admit"}
            BY <2>0 DEF InFlight, Answered, Steps
          <6>2. sent[d] = 0
            BY <6>1 DEF AnswerInv
          <6>3. d # c /\ pc'[d] = pc[d] /\ sent'[d] = sent[d]
            BY <3>1, <6>1 DEF TypeOK
          <6> QED
            BY <6>1, <6>2, <6>3
        <5>4. IsFiniteSet(Passed') /\ Cardinality(Passed') = 0
          BY <5>3, FS_EmptySet
        <5>5. Cooldown * Cardinality(Passed') = 0
          BY <2>0, <5>4
        <5>6. 0 + Cooldown <= (now + Cooldown) - now /\ now <= now /\ now + Cooldown <= now + Cooldown
          BY <2>0
        <5>7. outage'.since <= now' /\ breaker'.openUntil <= now' + Cooldown
          BY <3>1, <5>1, <5>2, <5>6
        <5>8. Cooldown * Cardinality(Passed') + Cooldown <= breaker'.openUntil - outage'.since
          BY <5>1, <5>2, <5>5, <5>6
        <5> QED
          BY <4>2, <5>4, <5>7, <5>8 DEF OutageInv
      <4>5. CASE ~Closed(breaker') /\ ~Closed(breaker)
        <5>1. outage' = outage
          BY <4>1, <4>5
        <5>2. Passed' \subseteq Passed
          BY <3>1, <5>1, PassedShrinks DEF Steps
        <5> DEFINE p == Cardinality(Passed)
                   q == Cardinality(Passed')
        <5>3. IsFiniteSet(Passed') /\ p \in Nat /\ q \in Nat /\ q <= p
          BY <4>5, <5>2, FS_Subset, FS_CardinalityType DEF OutageInv
        <5> HIDE DEF p, q
        <5>4. Cooldown * q \in Nat /\ Cooldown * p \in Nat /\ Cooldown * q <= Cooldown * p
          BY <2>0, <5>3, TimesMonotone
        <5>5. breaker.openUntil \in Nat /\ breaker'.openUntil \in Nat
          BY <2>0, <4>2, <4>5 DEF BreakerState, Closed
        <5>6. /\ outage.since <= now /\ breaker.openUntil <= now + Cooldown
              /\ breaker.halfOpen => /\ breaker.openUntil <= now
                                     /\ Cooldown * p <= breaker.openUntil - outage.since
              /\ ~breaker.halfOpen =>
                   Cooldown * p + Cooldown <= breaker.openUntil - outage.since
          BY <4>5, Zenon DEF OutageInv, p
        <5>7. /\ breaker'.openUntil <= now + Cooldown
              /\ Cooldown * q + Cooldown <= breaker'.openUntil - outage.since
          BY <2>0, <4>2, <5>4, <5>5, <5>6
        <5> QED
          BY <3>1, <4>2, <5>1, <5>3, <5>6, <5>7 DEF OutageInv, q
      <4> QED
        BY <4>3, <4>4, <4>5
    <3> QED
      BY <3>2, <3>3
  <2>9. CASE Tick
    <3>1. Passed' = Passed /\ UNCHANGED <<breaker, outage>>
      BY <2>9 DEF Tick, Passed
    <3>2. now <= now'
      BY <2>0, <2>9 DEF Tick
    <3> QED
      BY <3>1, <3>2, OutageKept
  <2>10. CASE UNCHANGED vars
    <3>1. Passed' = Passed /\ UNCHANGED <<breaker, outage, now>>
      BY <2>10 DEF vars, Passed
    <3> QED
      BY <2>0, <3>1, OutageKept
  <2> QED
    BY <2>1, <2>2, <2>3, <2>4, <2>5, <2>6, <2>7, <2>8, <2>9, <2>10
       DEF Next, SessionOver
<1>3. Spec => [](TypeOK /\ AnswerInv /\ BreakerInv)
  BY TypeCorrect, Answers, BreakerCorrect, PTL
<1> QED
  BY <1>1, <1>2, <1>3, PTL DEF Spec

\* OutageIsSpared: of the calls not yet past the breaker when it opened, at most one
\* per cooldown reaches the device.
THEOREM OutageSpared == Spec => []OutageIsSpared
<1>1. TypeOK /\ OutageInv => OutageIsSpared
  <2> SUFFICES ASSUME TypeOK, OutageInv, ~Closed(breaker)
               PROVE  Cooldown * Cardinality(LateCalls) <= now - outage.since
    BY DEF OutageIsSpared
  <2> DEFINE p == Cardinality(Passed)
             q == Cardinality(LateCalls)
  <2>1. LateCalls \subseteq Passed /\ IsFiniteSet(Passed)
    BY DEF LateCalls, Passed, OutageInv
  <2>2. p \in Nat /\ q \in Nat /\ q <= p
    BY <2>1, FS_Subset, FS_CardinalityType
  <2>3. /\ breaker.openUntil <= now + Cooldown
        /\ breaker.halfOpen => /\ breaker.openUntil <= now
                               /\ Cooldown * p <= breaker.openUntil - outage.since
        /\ ~breaker.halfOpen => Cooldown * p + Cooldown <= breaker.openUntil - outage.since
    BY Zenon DEF OutageInv
  <2> HIDE DEF p, q
  <2>4. /\ now \in Nat /\ Cooldown \in Nat /\ outage.since \in Nat
        /\ breaker.openUntil \in Nat
    BY DispatchAssumption, BreakerAssumption DEF TypeOK, BreakerState, Closed
  <2>5. Cooldown * q \in Nat /\ Cooldown * p \in Nat /\ Cooldown * q <= Cooldown * p
    BY <2>2, <2>4, TimesMonotone
  <2>6. Cooldown * q <= now - outage.since
    BY <2>3, <2>4, <2>5
  <2> QED
    BY <2>6 DEF q
<1> QED
  BY <1>1, TypeCorrect, OutageCorrect, PTL
=============================================================================
