------------------------------- MODULE Breaker -------------------------------
(***************************************************************************)
(* The circuit breaker of bridge/src/breaker.rs as operations on a value.   *)
(* BridgeDispatch holds one such value behind the bridge's breaker mutex    *)
(* and applies Admit, RecordSuccess and RecordFailure to it, each under its *)
(* own acquisition of the lock.                                             *)
(***************************************************************************)
EXTENDS Integers

CONSTANTS
    Threshold,  \* the failure_threshold argument of Breaker::new
    Cooldown,   \* clock units an open breaker refuses for
    NoInstant   \* open_until = None

ASSUME BreakerAssumption ==
    /\ Threshold \in Nat
    /\ Cooldown \in Nat
    /\ NoInstant \notin Nat

BreakerState == [failures : Nat, openUntil : Nat \cup {NoInstant}, halfOpen : BOOLEAN]

\* Breaker::new clamps the threshold to at least one failure.
FailureThreshold == IF Threshold < 1 THEN 1 ELSE Threshold

NewBreaker == [failures |-> 0, openUntil |-> NoInstant, halfOpen |-> FALSE]

\* Breaker::state
Closed(b) == b.openUntil = NoInstant
CooldownOver(b, t) == b.openUntil # NoInstant /\ t >= b.openUntil

\* Breaker::admit: a closed breaker admits; an open one admits a trial when its
\* cooldown is over and no trial is latched.
AdmitsTrial(b, t) == ~b.halfOpen /\ CooldownOver(b, t)
Admits(b, t) == Closed(b) \/ AdmitsTrial(b, t)
Admit(b, t) == IF AdmitsTrial(b, t) THEN [b EXCEPT !.halfOpen = TRUE] ELSE b

\* Faulty variants: a success that does not reset the count, a trip that leaves
\* the half-open latch set, one that does not start another cooldown.
SuccessKeepsCount(b) == [b EXCEPT !.openUntil = NoInstant, !.halfOpen = FALSE]
TripKeepsLatch(b, t) == [b EXCEPT !.openUntil = t + Cooldown]
TripKeepsDeadline(b, t) ==
    [b EXCEPT !.openUntil = IF Closed(b) THEN t + Cooldown ELSE @, !.halfOpen = FALSE]

\* Breaker::record_success
RecordSuccess(b) == [failures |-> 0, openUntil |-> NoInstant, halfOpen |-> FALSE]

\* Breaker::trip
Trip(b, t) == [b EXCEPT !.openUntil = t + Cooldown, !.halfOpen = FALSE]

\* Breaker::record_failure: the failure of a half-open breaker trips at once and
\* is not counted; otherwise it counts, and trips from the threshold on.
RecordFailure(b, t) ==
    IF b.halfOpen THEN Trip(b, t)
    ELSE LET counted == [b EXCEPT !.failures = @ + 1] IN
         IF counted.failures >= FailureThreshold THEN Trip(counted, t) ELSE counted
==============================================================================
