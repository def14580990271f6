----------------------------- MODULE RateLimiter -----------------------------
(***************************************************************************)
(* The per-tool rate limiter of the bridge: a map of lazily created token   *)
(* buckets over an injected monotonic clock.  granted and shed are history  *)
(* variables: the instants at which each tool's calls were let through and  *)
(* turned away.                                                             *)
(***************************************************************************)
EXTENDS TokenBucket, Sequences, FiniteSets, FiniteSetsExt

CONSTANTS
    Tools,      \* tool names, the keys of the bucket map
    NoBucket,   \* the key is absent
    MaxTime,    \* bound on the modelled clock
    MaxCalls    \* bound on the calls of all tools together

ASSUME LimiterAssumption ==
    /\ MaxTime \in Nat
    /\ MaxCalls \in Nat
    /\ NoBucket \notin Bucket
    \* fewer intervals than a u32 counts: 136 years of uptime at one a second
    /\ RefillInterval > 0 => MaxTime < RefillInterval * CountRange

VARIABLES
    now,        \* the monotonic clock
    buckets,    \* RateLimiter.buckets
    granted,    \* history: tool -> instants of accepted calls, in order
    shed        \* history: tool -> instants of shed calls, in order

vars == <<now, buckets, granted, shed>>

TypeOK ==
    /\ now \in 0..MaxTime
    /\ buckets \in [Tools -> Bucket \cup {NoBucket}]
    /\ granted \in [Tools -> Seq(Nat)]
    /\ shed \in [Tools -> Seq(Nat)]

Init ==
    /\ now = 0
    /\ buckets = [t \in Tools |-> NoBucket]
    /\ granted = [t \in Tools |-> <<>>]
    /\ shed = [t \in Tools |-> <<>>]

\* entry(tool).or_insert_with(Bucket::new)
Entry(t) == IF buckets[t] = NoBucket THEN NewBucket(now) ELSE buckets[t]

\* try_acquire: a call that spends a token, and one that is shed.
Grant(t) ==
    /\ MayAcquire(Entry(t), now)
    /\ buckets' = [buckets EXCEPT ![t] = Spend(Entry(t), now)]
    /\ granted' = [granted EXCEPT ![t] = Append(@, now)]
    /\ UNCHANGED <<now, shed>>

Shed(t) ==
    /\ ~MayAcquire(Entry(t), now)
    /\ buckets' = [buckets EXCEPT ![t] = Spend(Entry(t), now)]
    /\ shed' = [shed EXCEPT ![t] = Append(@, now)]
    /\ UNCHANGED <<now, granted>>

TryAcquire(t) ==
    /\ FoldSet(LAMBDA u, n : n + Len(granted[u]) + Len(shed[u]), 0, Tools) < MaxCalls
    /\ \/ Grant(t)
       \/ Shed(t)

\* Clock::now is monotonic; calls may arrive any time apart.
Tick ==
    /\ now < MaxTime
    /\ now' = now + 1
    /\ UNCHANGED <<buckets, granted, shed>>

Next == Tick \/ \E t \in Tools : TryAcquire(t)

Spec == Init /\ [][Next]_vars

-----------------------------------------------------------------------------
(* Properties *)

\* The accepted calls of a tool at an instant from..to.
Accepted(t, from, to) ==
    {i \in 1..Len(granted[t]) : from <= granted[t][i] /\ granted[t][i] <= to}

\* No burst beats the bucket: in every window ending now, a tool gets at most
\* its capacity plus one token per whole interval of the window, plus one for
\* the fraction carried into it (refill keeps the fraction on purpose).
WindowBound ==
    RefillInterval > 0 =>
      \A t \in Tools : \A from \in 0..now :
        Cardinality(Accepted(t, from, now))
          <= Capacity + (now - from) \div RefillInterval + 1

\* Counted from its first call a tool gets no fractional bonus: exactly the
\* initial burst and one token per whole interval, at most.
LifetimeBound ==
    RefillInterval > 0 =>
      \A t \in Tools : granted[t] # <<>> =>
        Len(granted[t])
          <= Capacity + (now - granted[t][1]) \div RefillInterval

\* No tool gets more than its allowance, over any window and over its life.
AllowanceBound == TypeOK /\ WindowBound /\ LifetimeBound

\* A call is shed only when its tool really used its allowance: the Capacity
\* intervals before the refusal hold at least Capacity accepted calls.  A
\* refill that lost fractions of an interval would shed a tool that calls
\* no faster than the refill rate.
ShedIsEarned ==
    RefillInterval > 0 =>
      \A t \in Tools : \A k \in 1..Len(shed[t]) :
        LET at == shed[t][k] IN
          Cardinality(Accepted(t, at - Capacity * RefillInterval + 1, at)) >= Capacity
==============================================================================
