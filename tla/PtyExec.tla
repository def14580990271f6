------------------------------- MODULE PtyExec -------------------------------
(***************************************************************************)
(* ExecDomain with its pseudo-console runs told step by step (pty_exec.c):  *)
(* PtyExecRun makes two pipes and a console over them, spawns the child,    *)
(* starts one reader thread, waits, closes the console and joins the reader.*)
(* The server, the reader, the child and the console host run concurrently, *)
(* and every resource the run takes has two faces: what the server holds    *)
(* (held) and what its local variables say it holds (locals).               *)
(*                                                                         *)
(* The stdin bytes are at most one pipe buffer (EXEC_STDIN_MAX), so writing *)
(* them before the reader runs cannot block, and is no step here.           *)
(***************************************************************************)
EXTENDS ExecDomain

CONSTANTS
    PipeCap,    \* units the output pipe buffers
    BufSize,    \* units the capture buffer holds (the output cap)
    MaxOutput,  \* bound on the units a child writes
    CloseWaits  \* what ClosePseudoConsole may do: wait for the console host or not

ASSUME PtyAssumption ==
    /\ PipeCap \in Nat \ {0}
    /\ BufSize \in Nat /\ MaxOutput \in Nat
    /\ CloseWaits \subseteq BOOLEAN /\ CloseWaits # {}

Pipes == {"inRd", "inWr", "outRd", "outWr"}
Resources == Pipes \cup {"hPC", "attr", "cmd", "process", "thread", "reader"}

VARIABLES
    waits,      \* this Windows: ClosePseudoConsole waits
    pc,         \* where PtyExecRun is; "idle" outside it
    reaped,     \* history: the orphan the poll of this request dropped
    locals,     \* resources the local variables name
    held,       \* resources the server really holds
    misclosed,  \* history: something was closed that was not open
    console,    \* the console host
    written,    \* history: units the child and the console wrote
    output,     \* units in the output pipe
    captured, truncated,    \* rctx.len, rctx.truncated
    reader,     \* the reader thread
    expired,    \* timeoutMs has elapsed
    timedOut    \* result->timed_out

flow == <<written, output, captured, truncated>>
run == <<console, reader, expired, timedOut>>
own == <<locals, held, misclosed>>
ptyVars == <<waits, pc, reaped, own, run, flow>>
domain == <<handled, orphan, open, ended259, reply>>
allVars == <<vars, ptyVars>>

Steps == {"idle", "pipes", "console", "prepare", "spawn", "reader", "wait", "reap",
          "close", "closing", "join", "collect", "release"}

PtyTypeOK ==
    /\ waits \in CloseWaits
    /\ pc \in Steps
    /\ reaped \in Requests \cup {NoOrphan}
    /\ locals \subseteq Resources /\ held \subseteq Resources
    /\ misclosed \in BOOLEAN
    /\ console \in {"none", "alive", "closing", "gone"}
    /\ written \in Nat /\ output \in 0..PipeCap
    /\ captured \in 0..BufSize /\ truncated \in BOOLEAN
    /\ reader \in {"none", "running", "ended"}
    /\ expired \in BOOLEAN /\ timedOut \in BOOLEAN

PtyInit ==
    /\ Init
    /\ waits \in CloseWaits
    /\ pc = "idle" /\ reaped = NoOrphan
    /\ locals = {} /\ held = {} /\ misclosed = FALSE
    /\ console = "none" /\ reader = "none"
    /\ written = 0 /\ output = 0 /\ captured = 0 /\ truncated = FALSE
    /\ expired = FALSE /\ timedOut = FALSE

-----------------------------------------------------------------------------
(* Requests *)

Current == handled + 1
Child == proc[Current]
Goto(step) == pc' = step /\ UNCHANGED <<waits, reaped>>

Open(S) == locals' = locals \cup S /\ held' = held \cup S /\ UNCHANGED misclosed
Close(S) ==
    /\ locals' = locals \ S /\ held' = held \ S
    /\ misclosed' = (misclosed \/ ~(S \subseteq held))

\* A request that is no pseudo-console run is one step of ExecDomain.
PlainRequest ==
    /\ pc = "idle"
    /\ handled < MaxRequests
    /\ LET r == handled + 1 IN
         \/ Busy(r)
         \/ Refuse(r)
         \/ \E is16, late \in BOOLEAN : RunToEnd(r, FALSE, is16, late)
         \/ LeaveOrphan(r)
    /\ UNCHANGED ptyVars

\* Faulty variant of Enter: a pseudo-console run does not wait for the busy domain.
EnterUnpolled ==
    /\ pc = "idle"
    /\ handled < MaxRequests
    /\ HasPty
    /\ reaped' = orphan
    /\ orphan' = NoOrphan /\ open' = StillOpen
    /\ pc' = "pipes"
    /\ UNCHANGED <<handled, proc, ended259, reply, waits, own, run, flow>>

\* The poll finds no child running and reaps; PtyExecRun is entered.
Enter ==
    /\ pc = "idle"
    /\ handled < MaxRequests
    /\ ~Blocked /\ HasPty
    /\ reaped' = orphan
    /\ orphan' = NoOrphan /\ open' = StillOpen
    /\ pc' = "pipes"
    /\ UNCHANGED <<handled, proc, ended259, reply, waits, own, run, flow>>

\* PtyExecRun returns and HandleExec answers.
Return(text) ==
    /\ Answer(Current, text)
    /\ pc' = "idle" /\ reaped' = NoOrphan
    /\ console' = "none" /\ reader' = "none"
    /\ written' = 0 /\ output' = 0 /\ captured' = 0 /\ truncated' = FALSE
    /\ expired' = FALSE /\ timedOut' = FALSE
    /\ UNCHANGED <<orphan, open, proc, ended259, waits>>

-----------------------------------------------------------------------------
(* Setting up *)

\* CreatePipe twice; when one fails, the other's ends are closed again.
CreatePipes ==
    /\ pc = "pipes"
    /\ \/ Open(Pipes) /\ Goto("console") /\ UNCHANGED <<domain, proc, run, flow>>
       \/ Return("refused") /\ UNCHANGED own

\* Faulty variant of CreateConsole: the closed ends stay in their variables.
CreateConsoleKeeping ==
    /\ pc = "console"
    /\ \/ /\ locals' = locals \cup {"hPC"}
          /\ held' = (held \ {"inRd", "outWr"}) \cup {"hPC"}
          /\ console' = "alive"
          /\ Goto("prepare")
          /\ UNCHANGED <<misclosed, reader, expired, timedOut>>
       \/ Goto("release") /\ UNCHANGED <<own, run>>
    /\ UNCHANGED <<domain, proc, flow>>

\* The console takes the child's ends over; ours are closed and forgotten.
CreateConsole ==
    /\ pc = "console"
    /\ \/ /\ locals' = (locals \ {"inRd", "outWr"}) \cup {"hPC"}
          /\ held' = (held \ {"inRd", "outWr"}) \cup {"hPC"}
          /\ console' = "alive"
          /\ Goto("prepare")
          /\ UNCHANGED <<misclosed, reader, expired, timedOut>>
       \/ Goto("release") /\ UNCHANGED <<own, run>>
    /\ UNCHANGED <<domain, proc, flow>>

\* The attribute list is sized, allocated, initialised (or freed again) and set;
\* the command line is copied.
Prepare ==
    /\ pc = "prepare"
    /\ \/ Open({"attr", "cmd"}) /\ Goto("spawn")
       \/ \E S \in {{}, {"attr"}} : Open(S) /\ Goto("close")
    /\ UNCHANGED <<domain, proc, run, flow>>

Spawn ==
    /\ pc = "spawn"
    /\ \/ /\ Open({"process", "thread"}) /\ Goto("reader")
          /\ proc' = [proc EXCEPT ![Current] = "running"]
       \/ Goto("close") /\ UNCHANGED <<own, proc>>
    /\ UNCHANGED <<domain, run, flow>>

\* TerminateProcess does nothing to a child that has ended.
Terminate == proc' = [proc EXCEPT ![Current] = IF @ = "running" THEN "dying" ELSE @]

\* Without a reader the run is given up.
StartReader ==
    /\ pc = "reader"
    /\ \/ Open({"reader"}) /\ reader' = "running" /\ Goto("wait") /\ UNCHANGED proc
       \/ Terminate /\ Goto("close") /\ UNCHANGED <<own, reader>>
    /\ UNCHANGED <<domain, console, expired, timedOut, flow>>

-----------------------------------------------------------------------------
(* Waiting, closing, reporting *)

\* WaitForSingleObject(hProcess, timeoutMs); past it any child is terminated,
\* a 16-bit one too.
WaitChild ==
    /\ pc = "wait"
    /\ \/ Child = "ended" /\ Goto("close") /\ UNCHANGED <<proc, timedOut>>
       \/ Child # "ended" /\ expired /\ Terminate /\ timedOut' = TRUE /\ Goto("reap")
    /\ UNCHANGED <<domain, own, console, reader, expired, flow>>

\* Faulty variant of Reap: the killed child is not waited for.
ReapUnawaited ==
    /\ pc = "reap"
    /\ Goto("close")
    /\ UNCHANGED <<domain, proc, own, run, flow>>

Reap ==
    /\ pc = "reap"
    /\ Child = "ended"
    /\ Goto("close")
    /\ UNCHANGED <<domain, proc, own, run, flow>>

\* ClosePseudoConsole
ClosePC ==
    /\ pc = "close"
    /\ Close({"hPC"})
    /\ console' = "closing"
    /\ Goto("closing")
    /\ UNCHANGED <<domain, proc, reader, expired, timedOut, flow>>

ClosePCReturns ==
    /\ pc = "closing"
    /\ waits => console = "gone"
    /\ Goto(IF "reader" \in locals THEN "join" ELSE "release")
    /\ UNCHANGED <<domain, proc, own, run, flow>>

JoinReader ==
    /\ pc = "join"
    /\ reader = "ended"
    /\ Goto("collect")
    /\ UNCHANGED <<domain, proc, own, run, flow>>

\* The success path closes what is left by name.
Collect ==
    /\ pc = "collect"
    /\ Close({"reader", "attr", "cmd", "process", "thread", "inWr", "outRd"})
    /\ Return(IF timedOut THEN "timed out" ELSE "ok")

\* The cleanup label closes what the variables still name.
Release ==
    /\ pc = "release"
    /\ Close(locals)
    /\ Return("refused")

-----------------------------------------------------------------------------
(* The others *)

Running == pc # "idle" /\ Child = "running"

ChildWrites ==
    /\ Running
    /\ written < MaxOutput /\ output < PipeCap
    /\ written' = written + 1 /\ output' = output + 1
    /\ UNCHANGED <<vars, waits, pc, reaped, own, run, captured, truncated>>

\* The console host goes once it has put its last frame into the pipe.
ConsoleExits ==
    /\ console = "closing" /\ output < PipeCap
    /\ console' = "gone"
    /\ written' = written + 1 /\ output' = output + 1
    /\ UNCHANGED <<vars, waits, pc, reaped, own, reader, expired, timedOut, captured, truncated>>

Lesser(a, b) == IF a < b THEN a ELSE b

\* Faulty variant of ReaderReads: the thread stops at a full buffer.
ReaderStops ==
    /\ reader = "running" /\ output > 0 /\ captured < BufSize
    /\ captured' = Lesser(captured + output, BufSize)
    /\ truncated' = (truncated \/ output > BufSize - captured)
    /\ output' = 0
    /\ UNCHANGED <<vars, waits, pc, reaped, own, run, written>>

\* ReaderThread goes on reading past a full buffer, and marks what it drops.
ReaderReads ==
    /\ reader = "running" /\ output > 0
    /\ captured' = Lesser(captured + output, BufSize)
    /\ truncated' = (truncated \/ output > BufSize - captured)
    /\ output' = 0
    /\ UNCHANGED <<vars, waits, pc, reaped, own, run, written>>

ReaderEnds ==
    /\ reader = "running" /\ output = 0 /\ console = "gone"
    /\ reader' = "ended"
    /\ UNCHANGED <<vars, waits, pc, reaped, own, console, expired, timedOut, flow>>

Expire ==
    /\ pc = "wait" /\ ~expired
    /\ expired' = TRUE
    /\ UNCHANGED <<vars, waits, pc, reaped, own, console, reader, timedOut, flow>>

\* Nobody asks for the code of a child that is waited for.
ProcessEnds(r) ==
    /\ ChildEnds(r)
    /\ pc # "idle" /\ r = Current => UNCHANGED ended259
    /\ UNCHANGED ptyVars

Server ==
    \/ CreatePipes \/ CreateConsole \/ Prepare \/ Spawn \/ StartReader
    \/ WaitChild \/ Reap \/ ClosePC \/ ClosePCReturns \/ JoinReader
    \/ Collect \/ Release

PtyNext ==
    \/ PlainRequest \/ Enter
    \/ Server
    \/ ChildWrites \/ ConsoleExits
    \/ ReaderReads \/ ReaderEnds
    \/ Expire
    \/ \E r \in Requests : ProcessEnds(r)

PtySpec == PtyInit /\ [][PtyNext]_allVars

\* The two threads are scheduled, time passes, a terminated process dies and a
\* console host that can write its last frame goes.  Nothing is assumed of the
\* child, nor that a request comes.
PtyFairSpec ==
    /\ PtySpec
    /\ WF_allVars(Server)
    /\ WF_allVars(ReaderReads \/ ReaderEnds)
    /\ WF_allVars(ConsoleExits)
    /\ WF_allVars(Expire)
    /\ WF_allVars(\E r \in Requests : proc[r] = "dying" /\ ProcessEnds(r))

-----------------------------------------------------------------------------
(* Properties *)

\* Whatever fails on the way, a run closes each handle, the console and both
\* blocks of memory exactly once ("release whatever was acquired, every handle
\* once"), and a run that gets as far as its report has all of the console's
\* output up to the cap, marked truncated exactly when there was more.
PtySound ==
    /\ TypeOK /\ PtyTypeOK
    /\ ~misclosed
    /\ pc = "idle" => held = {}
    /\ pc = "collect" => /\ captured = Lesser(written, BufSize)
                         /\ truncated = (written > BufSize)

\* What ExecDomain sees of a run: nothing, until it is answered.
Domain == INSTANCE ExecDomain WITH
    orphan <- IF pc = "idle" THEN orphan ELSE reaped,
    open <- IF pc = "idle" THEN open ELSE {reaped} \ {NoOrphan},
    proc <- IF pc = "idle" THEN proc ELSE [proc EXCEPT ![Current] = "none"]

\* A pseudo-console run, told step by step, is one of the requests ExecDomain
\* knows: it leaves no orphan, nor a child that nobody terminated.
DomainHolds == Domain!Spec

\* Nobody reads the console, and its host waits to be read.
Jammed == reader = "none" /\ output = PipeCap /\ pc = "closing" /\ waits

\* Every pseudo-console run returns by its timeout, whatever the child does,
\* unless there was no reader thread to empty the console's pipe.
PtyReturns == pc = "pipes" ~> (pc = "idle" \/ []Jammed)
=============================================================================
