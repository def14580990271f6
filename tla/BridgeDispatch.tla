---------------------------- MODULE BridgeDispatch ----------------------------
(***************************************************************************)
(* The bridge's tool-call path, bridge/src/server.rs: dispatch, run_build   *)
(* and the unsafe-exec gate.  MCP calls run as concurrent tasks over one    *)
(* device; every .await on a lock or on the device link is a point where    *)
(* another task may run, and is a separate step here.  The device and its   *)
(* link are the environment: a command that was written is answered ok,     *)
(* answered with an error, or the link fails under it.                      *)
(***************************************************************************)
EXTENDS TokenBucket, Breaker, Sequences, FiniteSets

CONSTANTS
    Calls,          \* the tool calls of one MCP session
    Tools,          \* tool names
    ToolOf,         \* the tool each call names
    PowerTools,     \* tools whose calls go through round_trip_power
    BuildTools,     \* generated build tools, run by run_build
    ExecTool,       \* win32_exec, the one tool with the unsafe bypass
    AllowUnsafe,    \* --allow-unsafe-exec was given
    NoBucket,       \* the limiter holds no bucket of that tool
    MaxTime         \* bound on the modelled clock

ASSUME DispatchAssumption ==
    /\ ToolOf \in [Calls -> Tools]
    /\ PowerTools \subseteq Tools
    /\ BuildTools \subseteq PowerTools
    /\ ExecTool \in PowerTools \ BuildTools
    /\ AllowUnsafe \in BOOLEAN
    /\ NoBucket \notin Bucket
    /\ MaxTime \in Nat

\* audit::Outcome, and the two answers of run_build that are none: parameters it
\* refuses before the resilience path, and the output of a tool that ran that it
\* cannot parse or encode, told to the client after the call was recorded as relayed.
LocalRefusals == {"rate_limited", "device_circuit_open", "unsafe_opt_in_absent"}
BadOutput == "bad_output"
DeviceOutcomes == {"relayed", "device_error", BadOutput}
Unanswered == "unanswered"
BadParams == "bad_params"
Outcomes == LocalRefusals \cup DeviceOutcomes \cup {BadParams}

\* What dev.call can return: Ok with status ok, Ok with status error, Err.
DeviceResults == {"ok", "error", "unreachable"}
NoResult == "none"

VARIABLES
    now,        \* the monotonic clock
    pc,         \* call -> the .await the call is parked at
    buckets,    \* Inner.limiter: tool -> token bucket
    breaker,    \* Inner.breaker
    devQueue,   \* Inner.device: the fair mutex, holder first, waiters behind
    result,     \* call -> what dev.call returned to it
    reply,      \* call -> the outcome of the answer the client got
    audit,      \* call -> the audit records written for it
    sent,       \* history: call -> commands of it written to the link
    trials,     \* history: calls admitted as a half-open trial, unrecorded
    failRun,    \* history: failures recorded since the last recorded success
    outage      \* history: when the breaker last opened, and the calls then past it

vars == <<now, pc, buckets, breaker, devQueue, result, reply, audit,
          sent, trials, failRun, outage>>

Steps == {"idle", "limit", "admit", "device", "link", "record", "done"}
IsPower(c) == ToolOf[c] \in PowerTools
InFlight == {c \in Calls : pc[c] \in {"device", "link", "record"}}
Answered == {c \in Calls : pc[c] = "done"}
NoOutage == [since |-> 0, before |-> {}]

TypeOK ==
    /\ now \in 0..MaxTime
    /\ pc \in [Calls -> Steps]
    /\ buckets \in [Tools -> Bucket \cup {NoBucket}]
    /\ breaker \in BreakerState
    /\ devQueue \in Seq(Calls)
    /\ result \in [Calls -> DeviceResults \cup {NoResult}]
    /\ reply \in [Calls -> Outcomes \cup {Unanswered}]
    /\ audit \in [Calls -> Seq(Outcomes)]
    /\ sent \in [Calls -> Nat]
    /\ trials \subseteq Calls
    /\ failRun \in Nat
    /\ outage \in [since : Nat, before : SUBSET Calls]

Init ==
    /\ now = 0
    /\ pc = [c \in Calls |-> "idle"]
    /\ buckets = [t \in Tools |-> NoBucket]
    /\ breaker = NewBreaker
    /\ devQueue = <<>>
    /\ result = [c \in Calls |-> NoResult]
    /\ reply = [c \in Calls |-> Unanswered]
    /\ audit = [c \in Calls |-> <<>>]
    /\ sent = [c \in Calls |-> 0]
    /\ trials = {}
    /\ failRun = 0
    /\ outage = NoOutage

\* AuditLog::record.  The record of a relayed build is written before its output
\* is looked at.
Recorded(outcome) == IF outcome = BadOutput THEN "relayed" ELSE outcome
Record(c, outcome) == audit' = [audit EXCEPT ![c] = Append(@, Recorded(outcome))]

\* Faulty variant of Finish: the record is forgotten.
FinishUnaudited(c, outcome) ==
    /\ pc' = [pc EXCEPT ![c] = "done"]
    /\ reply' = [reply EXCEPT ![c] = outcome]
    /\ UNCHANGED audit

\* Answer the client; a power tool's answer is audited in the same step.
Finish(c, outcome) ==
    /\ pc' = [pc EXCEPT ![c] = "done"]
    /\ reply' = [reply EXCEPT ![c] = outcome]
    /\ IF IsPower(c) THEN Record(c, outcome) ELSE UNCHANGED audit

-----------------------------------------------------------------------------
\* The client calls a tool.  win32_exec first decides unsafe_gate.
Arrive(c, unsafeRequested) ==
    /\ pc[c] = "idle"
    /\ unsafeRequested => ToolOf[c] = ExecTool
    /\ IF unsafeRequested /\ ~AllowUnsafe
         THEN Finish(c, "unsafe_opt_in_absent")
         ELSE /\ pc' = [pc EXCEPT ![c] = "limit"]
              /\ UNCHANGED <<reply, audit>>
    /\ UNCHANGED <<now, buckets, breaker, devQueue, result, sent, trials, failRun, outage>>

\* run_build answers parameters it cannot turn into an argv, with no record.
RefuseBuildParams(c) ==
    /\ pc[c] = "idle"
    /\ ToolOf[c] \in BuildTools
    /\ pc' = [pc EXCEPT ![c] = "done"]
    /\ reply' = [reply EXCEPT ![c] = BadParams]
    /\ UNCHANGED <<now, buckets, breaker, devQueue, result, audit, sent, trials, failRun, outage>>

\* (1) limiter.lock().await.try_acquire(tool)
RateLimit(c) ==
    /\ pc[c] = "limit"
    /\ LET t == ToolOf[c]
           b == IF buckets[t] = NoBucket THEN NewBucket(now) ELSE buckets[t]
       IN /\ buckets' = [buckets EXCEPT ![t] = Spend(b, now)]
          /\ IF MayAcquire(b, now)
               THEN /\ pc' = [pc EXCEPT ![c] = "admit"]
                    /\ UNCHANGED <<reply, audit>>
               ELSE Finish(c, "rate_limited")
    /\ UNCHANGED <<now, breaker, devQueue, result, sent, trials, failRun, outage>>

\* (2) breaker.lock().await.admit(), then the call joins the device mutex.
PassBreaker(c) ==
    /\ pc[c] = "admit"
    /\ Admits(breaker, now)
    /\ breaker' = Admit(breaker, now)
    /\ trials' = IF AdmitsTrial(breaker, now) THEN trials \cup {c} ELSE trials
    /\ pc' = [pc EXCEPT ![c] = "device"]
    /\ devQueue' = Append(devQueue, c)
    /\ UNCHANGED <<now, buckets, result, reply, audit, sent, failRun, outage>>

ShortCircuit(c) ==
    /\ pc[c] = "admit"
    /\ ~Admits(breaker, now)
    /\ Finish(c, "device_circuit_open")
    /\ UNCHANGED <<now, buckets, breaker, devQueue, result, sent, trials, failRun, outage>>

\* Faulty variants: the link is used without the mutex; a lost link sends the
\* call back to the breaker; a lost link is waited for without end.
WriteUnlocked(c) ==
    /\ pc[c] = "device"
    /\ pc' = [pc EXCEPT ![c] = "link"]
    /\ sent' = [sent EXCEPT ![c] = @ + 1]
    /\ UNCHANGED <<now, buckets, breaker, devQueue, result, reply, audit, trials, failRun, outage>>

ReturnAndRetry(c, r) ==
    /\ pc[c] = "link"
    /\ result' = [result EXCEPT ![c] = r]
    /\ pc' = [pc EXCEPT ![c] = IF r = "unreachable" THEN "admit" ELSE "record"]
    /\ devQueue' = Tail(devQueue)
    /\ UNCHANGED <<now, buckets, breaker, reply, audit, sent, trials, failRun, outage>>

ReturnAndReconnect(c, r) ==
    /\ pc[c] = "link"
    /\ IF r = "unreachable"
         THEN /\ result' = [result EXCEPT ![c] = IF @ = r THEN NoResult ELSE r]
              /\ UNCHANGED <<pc, devQueue>>
         ELSE /\ result' = [result EXCEPT ![c] = r]
              /\ pc' = [pc EXCEPT ![c] = "record"]
              /\ devQueue' = Tail(devQueue)
    /\ UNCHANGED <<now, buckets, breaker, reply, audit, sent, trials, failRun, outage>>

\* (3) The call at the head holds the device and writes its command line.
WriteCommand(c) ==
    /\ pc[c] = "device"
    /\ c = Head(devQueue)
    /\ pc' = [pc EXCEPT ![c] = "link"]
    /\ sent' = [sent EXCEPT ![c] = @ + 1]
    /\ UNCHANGED <<now, buckets, breaker, devQueue, result, reply, audit, trials, failRun, outage>>

\* dev.call returns (an answer, or the link failed); the guard is dropped.
DeviceReturns(c, r) ==
    /\ pc[c] = "link"
    /\ result' = [result EXCEPT ![c] = r]
    /\ pc' = [pc EXCEPT ![c] = "record"]
    /\ devQueue' = Tail(devQueue)
    /\ UNCHANGED <<now, buckets, breaker, reply, audit, sent, trials, failRun, outage>>

\* breaker.lock().await.record_success() / record_failure(), audit, answer.
Settle(c) ==
    /\ pc[c] = "record"
    /\ IF result[c] = "ok"
         THEN /\ breaker' = RecordSuccess(breaker)
              /\ failRun' = 0
              /\ outage' = NoOutage
              /\ \/ Finish(c, "relayed")
                 \/ ToolOf[c] \in BuildTools /\ Finish(c, BadOutput)
         ELSE /\ breaker' = RecordFailure(breaker, now)
              /\ failRun' = failRun + 1
              /\ outage' = IF Closed(breaker) /\ ~Closed(breaker')
                             THEN [since |-> now, before |-> InFlight \cup Answered]
                             ELSE outage
              /\ Finish(c, "device_error")
    /\ result' = [result EXCEPT ![c] = NoResult]
    /\ trials' = trials \ {c}
    /\ UNCHANGED <<now, buckets, devQueue, sent>>

Tick ==
    /\ now < MaxTime
    /\ now' = now + 1
    /\ UNCHANGED <<pc, buckets, breaker, devQueue, result, reply, audit,
                   sent, trials, failRun, outage>>

\* Every call of the session is answered: the bridge waits for the client.
SessionOver ==
    /\ \A c \in Calls : pc[c] = "done"
    /\ UNCHANGED vars

Next ==
    \/ \E c \in Calls :
         \/ \E u \in BOOLEAN : Arrive(c, u)
         \/ RefuseBuildParams(c)
         \/ RateLimit(c)
         \/ PassBreaker(c)
         \/ ShortCircuit(c)
         \/ WriteCommand(c)
         \/ \E r \in DeviceResults : DeviceReturns(c, r)
         \/ Settle(c)
    \/ Tick
    \/ SessionOver

Spec == Init /\ [][Next]_vars

\* The executor polls every runnable task, and the device answers each command
\* or its link fails: the bridge itself has no timeout on dev.call.
TaskStep(c) ==
    \/ RateLimit(c) \/ PassBreaker(c) \/ ShortCircuit(c)
    \/ WriteCommand(c) \/ Settle(c)
    \/ \E r \in DeviceResults : DeviceReturns(c, r)

FairSpec == Spec /\ \A c \in Calls : WF_vars(TaskStep(c))

-----------------------------------------------------------------------------
(* Properties *)

\* PowerToolsAreAudited: once a power call that reached the resilience path is
\* answered it has exactly one record, with the outcome the client was told (or
\* relayed, when the client was told that the output of a build cannot be read);
\* nothing is recorded before the answer, nor ever for a read-only tool.
PowerToolsAreAudited ==
    \A c \in Calls :
      audit[c] = IF IsPower(c) /\ reply[c] \notin {Unanswered, BadParams}
                 THEN <<Recorded(reply[c])>> ELSE <<>>

\* BridgeResilience: a local refusal never touched the device, a device outcome
\* stands for exactly one command written, and no call is sent twice.
RefusedNeverSent ==
    \A c \in Calls :
      /\ sent[c] <= 1
      /\ reply[c] \in LocalRefusals \cup {BadParams} => sent[c] = 0
      /\ reply[c] \in DeviceOutcomes => sent[c] = 1

\* The device is single-client-sequential: a command is on the link only while
\* its call holds the device mutex, and the mutex queues each call once.
OneCommandOnTheLink ==
    /\ Cardinality({c \in Calls : pc[c] = "link"}) <= 1
    /\ \A c \in Calls : pc[c] = "link" => devQueue # <<>> /\ Head(devQueue) = c

\* The breaker opens only on evidence: whenever it is open, every device
\* outcome since the last success was a failure and there were at least
\* FailureThreshold of them; while closed there were fewer.
OpenMeansFailureRun ==
    IF Closed(breaker)
      THEN failRun < FailureThreshold /\ breaker.failures = failRun
      ELSE failRun >= FailureThreshold

\* A latched half-open breaker always has a call in flight whose outcome will
\* release it: the latch can never be left behind with nobody to clear it.
LatchHasTrial ==
    breaker.halfOpen => /\ ~Closed(breaker)
                        /\ \E c \in trials : c \in InFlight

\* An open breaker spares the device.  The calls it had let through still wait for
\* the mutex and reach the device during the outage, their answers moving deadline
\* and latch under the trials; but of all the other calls, however many come and
\* whatever the trials and the stale answers do, at most one per elapsed cooldown
\* has been written to the link since the breaker opened.
LateCalls == {c \in Calls \ outage.before : sent[c] > 0}
OutageIsSpared ==
    ~Closed(breaker) => Cooldown * Cardinality(LateCalls) <= now - outage.since

\* Every call the client makes is answered, whatever the device does.
EveryCallAnswered == \A c \in Calls : pc[c] = "limit" ~> pc[c] = "done"

\* "one trial call is admitted (HalfOpen)" and "A trial is already in flight;
\* do not admit a second": at most one unresolved trial at a time.
SingleTrial == Cardinality(trials) <= 1
==============================================================================
