----------------------------- MODULE ExecPromise -----------------------------
(***************************************************************************)
(* What one exec run promises its caller, after specs/process-ops.allium:   *)
(* a process runs only once it was spawned, leaves the running state once,  *)
(* is killed only past its deadline and never when it is a 16-bit child,    *)
(* and the single answer agrees with how the process stands when it is      *)
(* given.  Two actions, MissTheEnd and BeatTheKill, are weaker than that    *)
(* document, which has timed_out strictly mean killed: they say exactly     *)
(* when the code reports a process as timed out that nobody killed.         *)
(* ExecCapture implements this specification.                               *)
(***************************************************************************)
VARIABLES
    vdm,        \* the child is 16-bit and shares its VDM
    polled,     \* the process is polled for its exit code, not waited for
    process,    \* "unborn", "running", "ended" by itself in time, "overran": ended
                \* by itself after the deadline, or "killed"
    late,       \* the deadline has passed
    answer      \* what the caller was told

vars == <<vdm, polled, process, late, answer>>

Init ==
    /\ vdm \in BOOLEAN /\ polled \in BOOLEAN
    /\ process = "unborn"
    /\ late = FALSE
    /\ answer = "none"

Start ==
    /\ process = "unborn" /\ answer = "none"
    /\ process' = "running"
    /\ UNCHANGED <<vdm, polled, late, answer>>

Deadline ==
    /\ process # "unborn" /\ answer = "none"
    /\ late' = TRUE
    /\ UNCHANGED <<vdm, polled, process, answer>>

End ==
    /\ process = "running" /\ answer = "none"
    /\ process' = IF late THEN "overran" ELSE "ended"
    /\ UNCHANGED <<vdm, polled, late, answer>>

Kill ==
    /\ process = "running" /\ answer = "none"
    /\ late /\ ~vdm
    /\ process' = "killed"
    /\ UNCHANGED <<vdm, polled, late, answer>>

\* The request is refused: nothing was started.
Refuse ==
    /\ process = "unborn" /\ answer = "none"
    /\ answer' = "error"
    /\ UNCHANGED <<vdm, polled, process, late>>

\* The process ended by itself and its result is reported.
Complete ==
    /\ process \in {"ended", "overran"} /\ answer = "none"
    /\ answer' = "completed"
    /\ UNCHANGED <<vdm, polled, process, late>>

\* Too late: the process was killed.
TimeOut ==
    /\ process = "killed" /\ answer = "none"
    /\ answer' = "timed_out"
    /\ UNCHANGED <<vdm, polled, process, late>>

\* The process ended by itself after its deadline, before the kill that was on its way.
BeatTheKill ==
    /\ process = "overran" /\ ~vdm /\ answer = "none"
    /\ answer' = "timed_out"
    /\ UNCHANGED <<vdm, polled, process, late>>

\* The process ended in time, but the last poll came before that, or its exit code
\* cannot be told from a running process; never when its end is waited for.
MissTheEnd ==
    /\ process = "ended" /\ polled /\ late /\ ~vdm /\ answer = "none"
    /\ answer' = "timed_out"
    /\ UNCHANGED <<vdm, polled, process, late>>

\* Too late for a 16-bit child: it is left to run (it may end meanwhile).
Leave ==
    /\ process \in {"running", "ended", "overran"} /\ late /\ vdm /\ answer = "none"
    /\ answer' = "left_running"
    /\ UNCHANGED <<vdm, polled, process, late>>

Next ==
    \/ Start \/ Deadline \/ End \/ Kill
    \/ Refuse \/ Complete \/ TimeOut \/ BeatTheKill \/ MissTheEnd \/ Leave

Spec == Init /\ [][Next]_vars
==============================================================================
