------------------------------ MODULE ExecDomain ------------------------------
(***************************************************************************)
(* HandleExec over a sequence of exec and ptyExec requests (mcp-w32s.c):    *)
(* the busy domain around the one 16-bit child a run may leave behind.      *)
(* The server is single-threaded, so a request is one step; between and     *)
(* during requests the children end on their own.  ExecCapture shows what   *)
(* one run does inside that step.                                           *)
(***************************************************************************)
EXTENDS Integers, FiniteSets

CONSTANTS
    MaxRequests,    \* bound on the requests of the behaviour
    HasPty          \* has_create_pseudo_console

ASSUME DomainAssumption ==
    /\ MaxRequests \in Nat
    /\ HasPty \in BOOLEAN

Requests == 1..MaxRequests
NoOrphan == 0

VARIABLES
    handled,    \* requests handled so far; the next one is handled + 1
    orphan,     \* g_orphanHandle: the request whose child it names, or NoOrphan
    open,       \* requests whose process handle the server holds
    proc,       \* request -> its child process
    ended259,   \* requests whose child ended with exit code STILL_ACTIVE
    reply       \* request -> its answer

vars == <<handled, orphan, open, proc, ended259, reply>>

TypeOK ==
    /\ handled \in 0..MaxRequests
    /\ orphan \in Requests \cup {NoOrphan}
    /\ open \subseteq Requests
    /\ proc \in [Requests -> {"none", "running", "dying", "ended"}]
    /\ ended259 \subseteq Requests
    /\ reply \in [Requests -> {"none", "busy", "refused", "ok", "timed out"}]

Init ==
    /\ handled = 0
    /\ orphan = NoOrphan
    /\ open = {}
    /\ proc = [r \in Requests |-> "none"]
    /\ ended259 = {}
    /\ reply = [r \in Requests |-> "none"]

\* GetExitCodeProcess on the retained handle says STILL_ACTIVE.
ReadsStillActive(r) == proc[r] \in {"running", "dying"} \/ r \in ended259

\* 1. The busy domain, polled at the head of every request.
Blocked == orphan # NoOrphan /\ ReadsStillActive(orphan)

Answer(r, text) ==
    /\ handled' = r
    /\ reply' = [reply EXCEPT ![r] = text]

Busy(r) ==
    /\ Blocked
    /\ Answer(r, "busy")
    /\ UNCHANGED <<orphan, open, proc, ended259>>

\* Faulty variant of StillOpen: the reap does not close the handle.
StillOpenUnreaped == open

\* A request that passes the poll first reaps an orphan it found exited.
StillOpen == open \ {orphan}

\* 2-7, 9. The name, stdin, pty, catalog, length and spawn checks can each turn
\* the request away, after the reap.
Refuse(r) ==
    /\ ~Blocked
    /\ orphan' = NoOrphan /\ open' = StillOpen
    /\ Answer(r, "refused")
    /\ UNCHANGED <<proc, ended259>>

\* 10. ExecOpRun or PtyExecRun reports a child that ended, or was ended.
RunToEnd(r, isPty, is16, timedOut) ==
    /\ ~Blocked
    /\ isPty => HasPty
    /\ timedOut => isPty \/ ~is16
    /\ orphan' = NoOrphan /\ open' = StillOpen
    /\ proc' = [proc EXCEPT ![r] = "ended"]
    /\ Answer(r, IF timedOut THEN "timed out" ELSE "ok")
    /\ UNCHANGED ended259

\* ExecOpRun hands back a 16-bit child past its timeout: the new orphan.
LeaveOrphan(r) ==
    /\ ~Blocked
    /\ orphan' = r
    /\ open' = StillOpen \cup {r}
    /\ proc' = [proc EXCEPT ![r] = "running"]
    /\ Answer(r, "timed out")
    /\ UNCHANGED ended259

\* PtyExecRun terminates a child it cannot read from, without waiting for it.
GiveUp(r) ==
    /\ ~Blocked /\ HasPty
    /\ orphan' = NoOrphan /\ open' = StillOpen
    /\ \E state \in {"dying", "ended"} : proc' = [proc EXCEPT ![r] = state]
    /\ Answer(r, "refused")
    /\ UNCHANGED ended259

Request ==
    /\ handled < MaxRequests
    /\ LET r == handled + 1 IN
         \/ Busy(r)
         \/ GiveUp(r)
         \/ Refuse(r)
         \/ \E isPty, is16, timedOut \in BOOLEAN : RunToEnd(r, isPty, is16, timedOut)
         \/ LeaveOrphan(r)

\* A child left running ends by itself, with an exit code of its own choosing.
ChildEnds(r) ==
    /\ proc[r] \in {"running", "dying"}
    /\ proc' = [proc EXCEPT ![r] = "ended"]
    /\ ended259' \in {ended259, ended259 \cup {r}}
    /\ proc[r] = "dying" => ended259' = ended259
    /\ UNCHANGED <<handled, orphan, open, reply>>

Next == Request \/ \E r \in Requests : ChildEnds(r)

Spec == Init /\ [][Next]_vars

-----------------------------------------------------------------------------
(* Properties *)

\* The server holds the orphan's process handle and no other between requests:
\* a new orphan never overwrites one that was not reaped and closed.
OnlyOrphanHandle == open = IF orphan = NoOrphan THEN {} ELSE {orphan}

\* One busy domain: only the orphan's child can still be running when a request
\* is done; another is at most dying.
OnlyOrphanRuns == \A r \in Requests : proc[r] = "running" => r = orphan

\* No request of either kind spawns while an earlier child, one that nobody
\* terminated, still runs.
AdmissionIsExclusive ==
    [][\A r \in Requests : proc[r] = "none" /\ proc'[r] # "none" =>
          \A q \in Requests : proc[q] # "running"]_vars
==============================================================================
