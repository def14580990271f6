----------------------------- MODULE ExecCapture -----------------------------
(***************************************************************************)
(* One run of ExecOpRun (src/exec_ops.c): spawn a child, capture its two    *)
(* output streams, enforce the timeout, report.  The server thread, its two *)
(* reader threads, the child and a process the child may leave behind run   *)
(* concurrently.  Output is counted in units; a pipe holds PipeCap of them  *)
(* and a capture buffer BufSize.  One PumpPipe call is one step: whatever   *)
(* the child writes during it is found by the next call.                    *)
(***************************************************************************)
EXTENDS Integers, FiniteSets

CONSTANTS
    Hosts,      \* capability records of g_features the run may meet
    PipeCap,    \* units an anonymous pipe buffers
    BufSize,    \* units the caller's capture buffer holds (the output cap)
    MaxOutput,  \* bound on the units the child writes to one stream
    Forks       \* the child may leave a process that inherits its pipe ends

ASSUME CaptureAssumption ==
    /\ Hosts \subseteq [threads : BOOLEAN, jobs : BOOLEAN, ctrl : BOOLEAN]
    /\ PipeCap \in Nat \ {0}
    /\ BufSize \in Nat \ {0}
    /\ MaxOutput \in Nat
    /\ Forks \in BOOLEAN

Streams == {"out", "err"}
PipeEnds == {"inRd", "inWr", "outRd", "outWr", "errRd", "errWr"}
WriteEnd(s) == IF s = "out" THEN "outWr" ELSE "errWr"
Handles == PipeEnds \cup {"process", "thread", "job"}

VARIABLES
    host,       \* g_features, fixed for the run
    is16,       \* binaryType is BIN_NE16 or BIN_MZ, fixed for the run
    capped,     \* the requested job limits, a subset of {"mem", "cpu"}
    pc,         \* where the server thread is
    handles,    \* kernel handles the server holds
    child,      \* the child process
    death,      \* history: what really ended the child ("late": itself, overdue)
    exitCode,   \* class of the child's exit code
    heir,       \* a process of the child's still holds the write ends
    written,    \* history: stream -> units the child wrote
    pipe,       \* stream -> units in the pipe
    captured,   \* stream -> units in the capture buffer
    truncated,  \* stream -> the truncation flag
    reader,     \* stream -> its reader thread
    expired,    \* timeoutMs elapsed since the spawn
    killedBy,   \* the local killedBy
    leftOrphan, \* the local leftOrphan
    result      \* what ExecOpRun returned

vars == <<host, is16, capped, pc, handles, child, death, exitCode, heir, written,
          pipe, captured, truncated, reader, expired, killedBy, leftOrphan, result>>
env == <<host, is16, capped>>
flow == <<written, pipe, captured, truncated, reader>>
fate == <<child, death, exitCode, heir>>
verdict == <<killedBy, leftOrphan, result>>

ServerSteps == {"pipes", "isolate", "spawn", "job", "feed", "pump", "checkExit",
                "checkTimeout", "break", "grace", "kill", "drain", "threads",
                "wait", "reap", "joinOut", "joinErr", "collect",
                "failSpawn", "failPipes", "done"}
NoResult == [outcome |-> "none"]
Results == [outcome : {"report"}, timedOut : BOOLEAN, stillActive : BOOLEAN,
            killedBy : {"none", "timeout", "ctrl_break", "cpu_cap", "memory_cap"}]

TypeOK ==
    /\ host \in Hosts /\ is16 \in BOOLEAN /\ capped \subseteq {"mem", "cpu"}
    /\ pc \in ServerSteps
    /\ handles \subseteq Handles
    /\ child \in {"none", "suspended", "running", "dying", "exited"}
    /\ death \in {"none", "self", "late", "ctrl_break", "terminated"}
    /\ exitCode \in {"none", "zero", "nonzero", "quota", "still_active"}
    /\ heir \in BOOLEAN /\ expired \in BOOLEAN /\ leftOrphan \in BOOLEAN
    /\ written \in [Streams -> 0..MaxOutput]
    /\ pipe \in [Streams -> 0..PipeCap]
    /\ captured \in [Streams -> 0..BufSize]
    /\ truncated \in [Streams -> BOOLEAN]
    /\ reader \in [Streams -> {"none", "running", "ended"}]
    /\ killedBy \in {"none", "timeout", "ctrl_break"}
    /\ result \in Results \cup {NoResult, [outcome |-> "error"]}

Init ==
    /\ host \in Hosts
    /\ is16 \in BOOLEAN
    /\ capped \in SUBSET {"mem", "cpu"}
    /\ pc = "pipes"
    /\ handles = {}
    /\ child = "none" /\ death = "none" /\ exitCode = "none" /\ heir = FALSE
    /\ written = [s \in Streams |-> 0]
    /\ pipe = [s \in Streams |-> 0]
    /\ captured = [s \in Streams |-> 0]
    /\ truncated = [s \in Streams |-> FALSE]
    /\ reader = [s \in Streams |-> "none"]
    /\ expired = FALSE
    /\ killedBy = "none" /\ leftOrphan = FALSE
    /\ result = NoResult

UseThreads == host.threads /\ ~is16
Alive == child \in {"suspended", "running", "dying"}

\* The read end reports end of file: nothing buffered and no writer left.
AtEof(s) == pipe[s] = 0 /\ ~Alive /\ ~heir /\ WriteEnd(s) \notin handles

Goto(step) == pc' = step

-----------------------------------------------------------------------------
(* Setting up the run *)

\* CreatePipe three times; a failure leaves the pipes made before it.
CreatePipes ==
    /\ pc = "pipes"
    /\ \/ handles' = PipeEnds /\ Goto("isolate")
       \/ handles' \in {{}, {"inRd", "inWr"}, {"inRd", "inWr", "outRd", "outWr"}}
          /\ Goto("failPipes")
    /\ UNCHANGED <<env, fate, flow, expired, verdict>>

\* ClearHandleInherit on the three parent ends, fail closed.
IsolateParentEnds ==
    /\ pc = "isolate"
    /\ Goto("spawn") \/ Goto("failPipes")
    /\ UNCHANGED <<env, handles, fate, flow, expired, verdict>>

\* CreateProcess; suspended when a job is to be assigned first.
Spawn ==
    /\ pc = "spawn"
    /\ \/ /\ handles' = handles \cup {"process", "thread"}
          /\ child' = IF host.jobs THEN "suspended" ELSE "running"
          /\ Goto(IF host.jobs THEN "job" ELSE "feed")
       \/ Goto("failSpawn") /\ UNCHANGED <<handles, child>>
    /\ UNCHANGED <<env, death, exitCode, heir, flow, expired, verdict>>

\* Faulty variant of AssignJob: the failure path forgets the child's handles.
AssignJobLeaking ==
    /\ pc = "job"
    /\ \/ /\ handles' = handles \cup {"job"}
          /\ child' = "running"
          /\ Goto("feed")
          /\ UNCHANGED <<death, exitCode>>
       \/ /\ UNCHANGED handles
          /\ child' = "exited" /\ death' = "terminated" /\ exitCode' = "nonzero"
          /\ Goto("failSpawn")
    /\ UNCHANGED <<env, heir, flow, expired, verdict>>

\* SetUpJob; on failure the suspended child is terminated and forgotten.
AssignJob ==
    /\ pc = "job"
    /\ \/ /\ handles' = handles \cup {"job"}
          /\ child' = "running"
          /\ Goto("feed")
          /\ UNCHANGED <<death, exitCode>>
       \/ /\ handles' = handles \ {"process", "thread"}
          /\ child' = "exited" /\ death' = "terminated" /\ exitCode' = "nonzero"
          /\ Goto("failSpawn")
    /\ UNCHANGED <<env, heir, flow, expired, verdict>>

\* Close the child's ends, write stdin (at most a pipe buffer), close stdin.
FeedStdin ==
    /\ pc = "feed"
    /\ handles' = handles \ {"inRd", "outWr", "errWr", "inWr"}
    /\ Goto(IF UseThreads THEN "threads" ELSE "pump")
    /\ UNCHANGED <<env, fate, flow, expired, verdict>>

\* fail_spawn / fail_pipes: close every pipe end still open, return 0.
Fail ==
    /\ pc \in {"failSpawn", "failPipes"}
    /\ handles' = handles \ PipeEnds
    /\ result' = [outcome |-> "error"]
    /\ Goto("done")
    /\ UNCHANGED <<env, fate, flow, expired, killedBy, leftOrphan>>
-----------------------------------------------------------------------------
(* Moving output *)

Lesser(a, b) == IF a < b THEN a ELSE b
Room(s) == BufSize - captured[s]

\* What reaches the buffer when everything in the streams' pipes is offered to
\* it.  PumpPipe leaves the excess in the pipe, a reader thread discards it;
\* either way the stream is marked truncated.
Take(S, discards) ==
    /\ captured' = [s \in Streams |-> IF s \in S
                      THEN captured[s] + Lesser(pipe[s], Room(s)) ELSE captured[s]]
    /\ truncated' = [s \in Streams |->
                      truncated[s] \/ (s \in S /\ pipe[s] > Room(s))]
    /\ pipe' = [s \in Streams |-> IF s \notin S THEN pipe[s]
                      ELSE IF discards THEN 0 ELSE pipe[s] - Lesser(pipe[s], Room(s))]

\* ReaderThread, one ReadFile: it blocks until data or end of file.
ReaderReads(s) ==
    /\ reader[s] = "running" /\ pipe[s] > 0
    /\ Take({s}, TRUE)
    /\ UNCHANGED <<env, pc, handles, fate, written, reader, expired, verdict>>

ReaderEnds(s) ==
    /\ reader[s] = "running" /\ AtEof(s)
    /\ reader' = [reader EXCEPT ![s] = "ended"]
    /\ UNCHANGED <<env, pc, handles, fate, written, pipe, captured, truncated,
                   expired, verdict>>

-----------------------------------------------------------------------------
(* The polling capture loop *)

Pump ==
    /\ pc = "pump"
    /\ Take(Streams, FALSE)
    /\ Goto("checkExit")
    /\ UNCHANGED <<env, handles, fate, written, reader, expired, verdict>>

\* GetExitCodeProcess: code 259 cannot be told from a running child.
ReadsStillActive == child # "exited" \/ exitCode = "still_active"

\* Faulty variant of CheckExit: no last drain once the child has exited.
CheckExitUndrained ==
    /\ pc = "checkExit"
    /\ Goto(IF ReadsStillActive THEN "checkTimeout" ELSE "collect")
    /\ UNCHANGED <<env, handles, fate, flow, expired, verdict>>

CheckExit ==
    /\ pc = "checkExit"
    /\ Goto(IF ReadsStillActive THEN "checkTimeout" ELSE "drain")
    /\ UNCHANGED <<env, handles, fate, flow, expired, verdict>>

\* Faulty variant of BeginTerminate: the VDM exemption (Q12) is forgotten.
TerminateAny ==
    /\ Goto(IF host.ctrl THEN "break" ELSE "kill")
    /\ UNCHANGED leftOrphan

\* TimeoutTerminate, entered: a 16-bit child is left running (Q12), any other
\* is broken or killed.
BeginTerminate ==
    IF is16 THEN leftOrphan' = TRUE /\ Goto("drain")
    ELSE /\ Goto(IF host.ctrl THEN "break" ELSE "kill")
         /\ UNCHANGED leftOrphan

\* Faulty variant of CheckTimeout: the clock is never compared.
TimeoutNever ==
    /\ pc = "checkTimeout"
    /\ Goto("pump")
    /\ UNCHANGED <<env, handles, fate, flow, expired, verdict>>

CheckTimeout ==
    /\ pc = "checkTimeout"
    /\ IF expired THEN BeginTerminate
       ELSE Goto("pump") /\ UNCHANGED leftOrphan
    /\ UNCHANGED <<env, handles, fate, flow, expired, killedBy, result>>

FinalDrain ==
    /\ pc = "drain"
    /\ Take(Streams, FALSE)
    /\ Goto("collect")
    /\ UNCHANGED <<env, handles, fate, written, reader, expired, verdict>>

-----------------------------------------------------------------------------
(* The threaded capture *)

\* Both CreateThread results go unchecked: a stream may end up with no reader.
StartReaders ==
    /\ pc = "threads"
    /\ reader' \in [Streams -> {"none", "running"}]
    /\ Goto("wait")
    /\ UNCHANGED <<env, handles, fate, written, pipe, captured, truncated,
                   expired, verdict>>

\* WaitForSingleObject(hProcess, timeoutMs)
WaitChild ==
    /\ pc = "wait"
    /\ \/ child = "exited" /\ Goto("joinOut") /\ UNCHANGED leftOrphan
       \/ child # "exited" /\ expired /\ BeginTerminate
    /\ UNCHANGED <<env, handles, fate, flow, expired, killedBy, result>>

\* WaitForSingleObject(hProcess, INFINITE) after the kill
Reap ==
    /\ pc = "reap"
    /\ child = "exited"
    /\ Goto("joinOut")
    /\ UNCHANGED <<env, handles, fate, flow, expired, verdict>>

\* WaitForSingleObject(reader thread, INFINITE), one stream after the other
JoinReader ==
    /\ \/ pc = "joinOut" /\ reader["out"] # "running" /\ Goto("joinErr")
       \/ pc = "joinErr" /\ reader["err"] # "running" /\ Goto("collect")
    /\ UNCHANGED <<env, handles, fate, flow, expired, verdict>>

-----------------------------------------------------------------------------
(* TimeoutTerminate, continued *)

AfterKill == IF UseThreads THEN "reap" ELSE "drain"

\* GenerateConsoleCtrlEvent(CTRL_BREAK_EVENT): delivered, or refused.
SendBreak ==
    /\ pc = "break"
    /\ Goto("grace") \/ Goto("kill")
    /\ UNCHANGED <<env, handles, fate, flow, expired, verdict>>

\* One second for the child to go by itself.
GraceWait ==
    /\ pc = "grace"
    /\ IF child = "exited" THEN killedBy' = "ctrl_break" /\ Goto(AfterKill)
       ELSE Goto("kill") /\ UNCHANGED killedBy
    /\ UNCHANGED <<env, handles, fate, flow, expired, leftOrphan, result>>

Kill ==
    /\ pc = "kill"
    /\ killedBy' = "timeout"
    /\ IF child = "running" THEN child' = "dying" /\ death' = "terminated"
       ELSE UNCHANGED <<child, death>>
    /\ Goto(AfterKill)
    /\ UNCHANGED <<env, handles, exitCode, heir, flow, expired, leftOrphan, result>>

-----------------------------------------------------------------------------
(* Reporting *)

\* The job-limit heuristic over the exit code.
Attributed ==
    IF killedBy # "none" \/ "job" \notin handles \/ exitCode = "zero" THEN killedBy
    ELSE IF "cpu" \in capped /\ (exitCode = "quota" \/ "mem" \notin capped) THEN "cpu_cap"
    ELSE IF "mem" \in capped /\ exitCode = "quota" THEN "memory_cap"
    ELSE "none"

Collect ==
    /\ pc = "collect"
    /\ IF leftOrphan
         THEN /\ result' = [outcome |-> "report", timedOut |-> FALSE,
                            stillActive |-> TRUE, killedBy |-> "none"]
              /\ handles' = handles \ {"thread", "outRd", "errRd"}
         ELSE /\ result' = [outcome |-> "report", stillActive |-> FALSE,
                            timedOut |-> Attributed \in {"timeout", "ctrl_break"},
                            killedBy |-> Attributed]
              /\ handles' = handles \ {"thread", "process", "job", "outRd", "errRd"}
    /\ Goto("done")
    /\ UNCHANGED <<env, fate, flow, expired, killedBy, leftOrphan>>

-----------------------------------------------------------------------------
(* The child, what it leaves behind, and the clock *)

Running == child = "running" /\ pc # "done"

ChildWrites(s) ==
    /\ Running
    /\ written[s] < MaxOutput /\ pipe[s] < PipeCap
    /\ written' = [written EXCEPT ![s] = @ + 1]
    /\ pipe' = [pipe EXCEPT ![s] = @ + 1]
    /\ UNCHANGED <<env, pc, handles, fate, captured, truncated, reader, expired, verdict>>

Ends(cause, code) ==
    /\ child' = "exited" /\ exitCode' = code
    /\ death' = cause
    /\ UNCHANGED <<env, pc, handles, heir, flow, expired, verdict>>

\* By itself, or at the CPU limit of its job; in either case nobody told it to.
ByItself == IF expired THEN "late" ELSE "self"
ChildExits(code) == Running /\ Ends(ByItself, code)
CpuLimitKills == /\ Running /\ "job" \in handles /\ "cpu" \in capped
                 /\ Ends(ByItself, "quota")
BreakEndsChild == Running /\ pc = "grace" /\ Ends("ctrl_break", "nonzero")
ChildDies == child = "dying" /\ Ends(death, "nonzero")

ChildForks ==
    /\ Forks /\ Running /\ ~heir
    /\ heir' = TRUE
    /\ UNCHANGED <<env, pc, handles, child, death, exitCode, flow, expired, verdict>>

HeirExits ==
    /\ heir /\ pc # "done"
    /\ heir' = FALSE
    /\ UNCHANGED <<env, pc, handles, child, death, exitCode, flow, expired, verdict>>

Expire ==
    /\ "process" \in handles /\ pc \notin {"job", "feed", "done"} /\ ~expired
    /\ expired' = TRUE
    /\ UNCHANGED <<env, pc, handles, fate, flow, verdict>>

\* The run is over; ExecDomain takes it from here.
RunOver == pc = "done" /\ UNCHANGED vars

Server ==
    \/ CreatePipes \/ IsolateParentEnds \/ Spawn \/ AssignJob \/ FeedStdin \/ Fail
    \/ Pump \/ CheckExit \/ CheckTimeout \/ FinalDrain
    \/ StartReaders \/ WaitChild \/ Reap \/ JoinReader
    \/ SendBreak \/ GraceWait \/ Kill \/ Collect

Child ==
    \/ \E s \in Streams : ChildWrites(s)
    \/ \E code \in {"zero", "nonzero", "quota", "still_active"} : ChildExits(code)
    \/ CpuLimitKills \/ BreakEndsChild \/ ChildDies \/ ChildForks \/ HeirExits

Next ==
    \/ Server
    \/ \E s \in Streams : ReaderReads(s) \/ ReaderEnds(s)
    \/ Child
    \/ Expire
    \/ RunOver

Spec == Init /\ [][Next]_vars

\* The threads of the server are scheduled, time passes, and a process that was
\* terminated dies.  Nothing is assumed of a child that nobody terminates, nor
\* of a process it leaves behind.
FairSpec ==
    /\ Spec
    /\ WF_vars(Server)
    /\ \A s \in Streams : WF_vars(ReaderReads(s) \/ ReaderEnds(s))
    /\ WF_vars(Expire)
    /\ WF_vars(ChildDies)

-----------------------------------------------------------------------------
(* Properties *)

Reported == result.outcome = "report"

\* Every pipe, process, thread and job handle is closed on every path out,
\* early failures included; the one exception is a still_active result, which
\* hands over the process handle.  On a host with job objects the job handle of
\* that orphan is left open too, though the local that names it is gone and the
\* comment at exec_ops.c:644 says there is none: what is open is known to the last
\* handle, the lost one included.
LostJob == IF host.jobs THEN {"job"} ELSE {}
HandlesAccounted ==
    pc = "done" =>
      handles = IF Reported /\ result.stillActive THEN {"process"} \cup LostJob ELSE {}

\* A child that ended by itself and is not reported as timed out lost nothing:
\* each stream holds its output up to the cap, and is marked truncated exactly
\* when there was more.  (A stream whose reader thread could not be created is
\* the exception the code has.)
OutputComplete ==
    Reported /\ ~result.timedOut /\ ~result.stillActive =>
      \A s \in Streams : (UseThreads => reader[s] = "ended") =>
        /\ captured[s] = Lesser(written[s], BufSize)
        /\ truncated[s] = (written[s] > BufSize)

\* Nothing is invented or reordered between child and buffer: what is captured
\* or buffered never exceeds what was written, and a stream not marked
\* truncated has lost nothing at any moment of the run.
NothingLostUnmarked ==
    \A s \in Streams :
      /\ captured[s] + pipe[s] <= written[s]
      /\ ~truncated[s] => captured[s] + pipe[s] = written[s]

\* What the client is given is what the child wrote, to the last byte of the cap.
CaptureSound == TypeOK /\ OutputComplete /\ NothingLostUnmarked

\* The abstract process of this run.  A child that never left CREATE_SUSPENDED
\* did not run; one being terminated is as good as killed.
AbstractProcess ==
    IF child \in {"none", "suspended"} \/ pc = "failSpawn" \/ result.outcome = "error"
      THEN "unborn"
    ELSE IF death \in {"ctrl_break", "terminated"} THEN "killed"
    ELSE IF death = "late" THEN "overran"
    ELSE IF child = "exited" THEN "ended"
    ELSE "running"

AbstractAnswer ==
    IF result.outcome # "report" THEN result.outcome
    ELSE IF result.stillActive THEN "left_running"
    ELSE IF result.timedOut THEN "timed_out"
    ELSE "completed"

Promise == INSTANCE ExecPromise WITH
    vdm <- is16, polled <- ~UseThreads, process <- AbstractProcess,
    late <- expired, answer <- AbstractAnswer

\* ExecOpRun keeps what process-ops promises, but for the two ways in which a child
\* that nobody killed is reported as timed out: it implements ExecPromise.
KeepsPromise == Promise!Spec

\* Every run returns, whatever its child does, unless a process the child left
\* behind keeps a write end open.
ReturnsOrHeirHolds == pc = "pipes" ~> pc = "done" \/ heir

\* "Execution is never unbounded": every run returns.
RunReturns == pc = "pipes" ~> pc = "done"
==============================================================================
