--------------------------- MODULE ExecCaptureProofs ---------------------------
(***************************************************************************)
(* Proofs about one run of ExecOpRun, on any host, for pipes and buffers of  *)
(* any size and any output: what the run holds is determined by where it is, *)
(* a unit of output is in the pipe, in the buffer or marked as cut off, and  *)
(* the report agrees with how the child stands.                              *)
(***************************************************************************)
EXTENDS ExecCapture, TLAPS

\* The steps of a run that has a child and captures its output.
Threaded == {"threads", "wait", "reap", "joinOut", "joinErr"}
Polled == {"pump", "checkExit", "checkTimeout", "drain"}
Terminating == {"break", "grace", "kill"}
AfterStart == {"wait", "reap", "joinOut", "joinErr", "break", "grace", "kill", "collect", "done"}
Capturing == Threaded \cup Polled \cup Terminating \cup {"collect"}
InRun == pc \in Capturing \cup {"feed"} \/ Reported

Job == IF host.jobs THEN {"job"} ELSE {}

\* Where the run is determines the handles it holds.
HandleInv ==
    /\ pc = "pipes" => handles = {}
    /\ pc \in {"isolate", "spawn", "failSpawn"} => handles = PipeEnds
    /\ pc = "failPipes" => handles \subseteq PipeEnds
    /\ pc = "job" => host.jobs /\ handles = PipeEnds \cup {"process", "thread"}
    /\ pc = "feed" => handles = PipeEnds \cup {"process", "thread"} \cup Job
    /\ pc \in Capturing => handles = {"process", "thread", "outRd", "errRd"} \cup Job
    /\ pc = "done" => handles = IF Reported /\ leftOrphan THEN {"process"} \cup Job ELSE {}

\* How the child stands, and what can have ended it.
FateInv ==
    /\ pc \in {"pipes", "isolate", "spawn", "failPipes"} => child = "none"
    /\ pc = "job" => child = "suspended"
    /\ pc = "failSpawn" => child \in {"none", "exited"}
    /\ InRun => child \in {"running", "dying", "exited"}
    /\ child \in {"none", "suspended", "running"} => death = "none"
    /\ child = "dying" => death = "terminated"
    /\ child = "exited" => death # "none"
    /\ InRun /\ death = "terminated" => killedBy = "timeout"
    /\ InRun /\ death = "ctrl_break" => pc = "grace" \/ killedBy = "ctrl_break"
    /\ death = "late" => expired
    /\ UseThreads /\ (pc \in Terminating \/ killedBy # "none") => death # "self"

\* Only a 32-bit child past its deadline is killed, only a 16-bit one is left; the capture
\* ends when the child has ended, unless it was killed or left.
VerdictInv ==
    /\ pc \in Threaded => UseThreads
    /\ pc \in Polled => ~UseThreads
    /\ pc \in Terminating => expired /\ ~is16
    /\ killedBy # "none" =>
         /\ expired /\ ~is16 /\ child \in {"dying", "exited"}
         /\ pc \in {"reap", "drain", "joinOut", "joinErr", "collect", "done"}
    /\ leftOrphan =>
         expired /\ is16 /\ killedBy = "none" /\ pc \in {"drain", "collect", "done"}
    /\ pc \in {"reap", "drain", "joinOut", "joinErr", "collect"} \/ Reported =>
         leftOrphan \/ killedBy # "none" \/ child = "exited"
    /\ pc # "done" => result = NoResult
    /\ pc = "done" => result # NoResult
    /\ Reported => result.stillActive = leftOrphan /\ result.timedOut = (killedBy # "none")

\* Every unit written is in the pipe, in the buffer, or cut off from a full buffer.
BalanceInv ==
    \A s \in Streams :
      /\ captured[s] + pipe[s] <= written[s]
      /\ ~truncated[s] => captured[s] + pipe[s] = written[s]
      /\ truncated[s] => captured[s] = BufSize /\ written[s] > BufSize

\* A reader that ended has emptied its pipe for good; so has the last poll.
ReaderInv ==
    \A s \in Streams :
      /\ reader[s] # "none" => UseThreads /\ pc \in AfterStart /\ InRun
      /\ reader[s] = "ended" => child = "exited" /\ pipe[s] = 0
      /\ (pc = "collect" \/ Reported) /\ ~UseThreads /\ ~leftOrphan =>
           truncated[s] \/ pipe[s] = 0

CaptureInv ==
    /\ TypeOK
    /\ HandleInv
    /\ FateInv
    /\ VerdictInv
    /\ BalanceInv
    /\ ReaderInv

-----------------------------------------------------------------------------
(* Facts about the streams *)

\* The constants as numbers.
LEMMA Sizes == PipeCap \in Nat /\ BufSize \in Nat /\ MaxOutput \in Nat
BY CaptureAssumption

\* What the invariant says of one stream, as numbers.
LEMMA StreamFacts ==
    ASSUME CaptureInv, NEW s \in Streams
    PROVE  /\ written[s] \in 0..MaxOutput /\ pipe[s] \in 0..PipeCap /\ captured[s] \in 0..BufSize
           /\ written[s] \in Nat /\ pipe[s] \in Nat /\ captured[s] \in Nat
           /\ captured[s] <= BufSize /\ Room(s) \in Nat
           /\ captured[s] + pipe[s] <= written[s]
           /\ ~truncated[s] => captured[s] + pipe[s] = written[s]
           /\ truncated[s] => captured[s] = BufSize /\ written[s] > BufSize
<1>1. written[s] \in 0..MaxOutput /\ pipe[s] \in 0..PipeCap /\ captured[s] \in 0..BufSize
  BY DEF CaptureInv, TypeOK
<1>2. /\ written[s] \in Nat /\ pipe[s] \in Nat /\ captured[s] \in Nat
      /\ captured[s] <= BufSize /\ BufSize - captured[s] \in Nat
  BY <1>1, Sizes
<1> QED
  BY <1>1, <1>2 DEF CaptureInv, BalanceInv, Room

\* Moving output loses no unit unmarked; what is offered is taken, left or cut off.
LEMMA TakeKeeps ==
    ASSUME CaptureInv, NEW S \in SUBSET Streams, NEW discards \in BOOLEAN,
           Take(S, discards), UNCHANGED written
    PROVE  /\ BalanceInv'
           /\ pipe' \in [Streams -> 0..PipeCap] /\ captured' \in [Streams -> 0..BufSize]
           /\ truncated' \in [Streams -> BOOLEAN]
           /\ \A s \in Streams :
                /\ truncated[s] => truncated'[s]
                /\ pipe[s] = 0 => pipe'[s] = 0
                /\ s \in S => truncated'[s] \/ pipe'[s] = 0
<1>1. ASSUME NEW s \in Streams
      PROVE  /\ captured'[s] = IF s \in S THEN captured[s] + Lesser(pipe[s], Room(s)) ELSE captured[s]
             /\ pipe'[s] = IF s \notin S THEN pipe[s]
                           ELSE IF discards THEN 0 ELSE pipe[s] - Lesser(pipe[s], Room(s))
  BY DEF Take
<1>5. ASSUME NEW s \in Streams
      PROVE  truncated'[s] = (truncated[s] \/ (s \in S /\ pipe[s] > Room(s)))
  BY Zenon DEF Take
<1>2. ASSUME NEW s \in Streams
      PROVE  /\ captured'[s] + pipe'[s] <= written'[s]
             /\ ~truncated'[s] => captured'[s] + pipe'[s] = written'[s]
             /\ truncated'[s] => captured'[s] = BufSize /\ written'[s] > BufSize
             /\ pipe'[s] \in 0..PipeCap /\ captured'[s] \in 0..BufSize
             /\ truncated[s] => truncated'[s]
             /\ pipe[s] = 0 => pipe'[s] = 0
             /\ s \in S => truncated'[s] \/ pipe'[s] = 0
  <2> DEFINE p == pipe[s]
             c == captured[s]
             w == written[s]
  <2>1. /\ p \in 0..PipeCap /\ c \in 0..BufSize /\ w \in Nat
        /\ p \in Nat /\ c \in Nat /\ c <= BufSize /\ c + p <= w
        /\ ~truncated[s] => c + p = w
        /\ truncated[s] => c = BufSize /\ w > BufSize
    BY StreamFacts
  <2>2. Room(s) = BufSize - c /\ written'[s] = w
    BY DEF Room
  <2>3. CASE s \notin S
    BY <1>1, <1>5, <2>1, <2>2, <2>3
  <2>4. CASE s \in S /\ p > Room(s)
    <3>1. Lesser(p, Room(s)) = BufSize - c
      BY <2>1, <2>2, <2>4, Sizes DEF Lesser
    <3>6. c + (BufSize - c) = BufSize /\ BufSize < c + p
      BY <2>1, <2>2, <2>4, Sizes
    <3>7. captured'[s] = BufSize
      BY <1>1, <2>4, <3>1, <3>6
    <3>8. truncated'[s]
      BY <1>5, <2>4, Zenon
    <3>2. captured'[s] = BufSize /\ truncated'[s] /\ BufSize < c + p
      BY <3>6, <3>7, <3>8
    <3>3. pipe'[s] = 0 \/ pipe'[s] = p - (BufSize - c)
      BY <1>1, <2>4, <3>1
    <3>4. pipe'[s] \in 0..PipeCap /\ captured'[s] + pipe'[s] <= w /\ w > BufSize
      BY <2>1, <3>2, <3>3, Sizes
    <3>5. p # 0 /\ captured'[s] \in 0..BufSize
      BY <2>1, <2>2, <2>4, <3>2, Sizes
    <3> QED
      BY <2>2, <3>2, <3>4, <3>5
  <2>5. CASE s \in S /\ ~(p > Room(s))
    <3>1. Lesser(p, Room(s)) = p
      BY <2>1, <2>2, <2>5, Sizes DEF Lesser
    <3>4. p - p = 0
      BY <2>1
    <3>5. captured'[s] = c + p /\ pipe'[s] = 0
      BY <1>1, <2>5, <3>1, <3>4
    <3>6. truncated'[s] <=> truncated[s]
      BY <1>5, <2>5, Zenon
    <3>2. captured'[s] = c + p /\ (truncated'[s] <=> truncated[s]) /\ pipe'[s] = 0
      BY <3>5, <3>6
    <3>3. c + p \in 0..BufSize /\ 0 \in 0..PipeCap /\ c + p + 0 = c + p
          /\ (c = BufSize => c + p = BufSize)
      BY <2>1, <2>2, <2>5, Sizes
    <3> QED
      BY <2>1, <2>2, <3>2, <3>3
  <2> QED
    BY <2>3, <2>4, <2>5
<1>3. truncated' \in [Streams -> BOOLEAN]
  BY DEF Take
<1>4. pipe' = [s \in Streams |-> pipe'[s]] /\ captured' = [s \in Streams |-> captured'[s]]
  BY DEF Take
<1> QED
  BY <1>2, <1>3, <1>4 DEF BalanceInv

-----------------------------------------------------------------------------
(* Every step of the server thread keeps the invariant *)

LEMMA CreatePipesKeeps ==
    ASSUME CaptureInv, CreatePipes
    PROVE  CaptureInv'
<1> USE DEF Capturing, Threaded, Polled, Terminating, AfterStart, InRun, Reported, NoResult
<1>1. pc = "pipes" /\ pc' \in {"isolate", "failPipes"} /\ handles' \subseteq PipeEnds
      /\ (pc' = "isolate" => handles' = PipeEnds)
      /\ UNCHANGED <<env, fate, flow, expired, verdict>>
  BY DEF CreatePipes, Goto, PipeEnds
<1>2. TypeOK'
  BY <1>1 DEF CaptureInv, TypeOK, ServerSteps, env, fate, flow, verdict, Handles, PipeEnds
<1>3. HandleInv'
  BY <1>1 DEF CaptureInv, TypeOK, HandleInv, Job, env, fate, flow, verdict, PipeEnds
<1>4. FateInv'
  BY <1>1 DEF CaptureInv, TypeOK, FateInv, VerdictInv, UseThreads, env, fate, flow, verdict
<1>5. VerdictInv'
  BY <1>1 DEF CaptureInv, TypeOK, VerdictInv, FateInv, UseThreads, env, fate, flow, verdict
<1>6. BalanceInv'
  BY <1>1 DEF CaptureInv, BalanceInv, flow
<1>7. ReaderInv'
  BY <1>1 DEF CaptureInv, TypeOK, ReaderInv, VerdictInv, FateInv, UseThreads, env, fate, flow, verdict
<1> QED
  BY <1>2, <1>3, <1>4, <1>5, <1>6, <1>7 DEF CaptureInv

LEMMA IsolateParentEndsKeeps ==
    ASSUME CaptureInv, IsolateParentEnds
    PROVE  CaptureInv'
<1> USE DEF Capturing, Threaded, Polled, Terminating, AfterStart, InRun, Reported, NoResult
<1>1. pc = "isolate" /\ pc' \in {"spawn", "failPipes"}
      /\ UNCHANGED <<env, handles, fate, flow, expired, verdict>>
  BY DEF IsolateParentEnds, Goto
<1>2. TypeOK'
  BY <1>1 DEF CaptureInv, TypeOK, ServerSteps, env, fate, flow, verdict, Handles, PipeEnds
<1>3. HandleInv'
  BY <1>1 DEF CaptureInv, TypeOK, HandleInv, Job, env, fate, flow, verdict, PipeEnds
<1>4. FateInv'
  BY <1>1 DEF CaptureInv, TypeOK, FateInv, VerdictInv, UseThreads, env, fate, flow, verdict
<1>5. VerdictInv'
  BY <1>1 DEF CaptureInv, TypeOK, VerdictInv, FateInv, UseThreads, env, fate, flow, verdict
<1>6. BalanceInv'
  BY <1>1 DEF CaptureInv, BalanceInv, flow
<1>7. ReaderInv'
  BY <1>1 DEF CaptureInv, TypeOK, ReaderInv, VerdictInv, FateInv, UseThreads, env, fate, flow, verdict
<1> QED
  BY <1>2, <1>3, <1>4, <1>5, <1>6, <1>7 DEF CaptureInv

LEMMA SpawnKeeps ==
    ASSUME CaptureInv, Spawn
    PROVE  CaptureInv'
<1> USE DEF Capturing, Threaded, Polled, Terminating, AfterStart, InRun, Reported, NoResult
<1>1. pc = "spawn" /\ UNCHANGED <<env, death, exitCode, heir, flow, expired, verdict>>
      /\ \/ /\ handles' = handles \cup {"process", "thread"}
            /\ \/ host.jobs /\ child' = "suspended" /\ pc' = "job"
               \/ ~host.jobs /\ child' = "running" /\ pc' = "feed"
         \/ pc' = "failSpawn" /\ UNCHANGED <<handles, child>>
  BY DEF Spawn, Goto
<1>2. TypeOK'
  <2>1. /\ handles' \subseteq Handles /\ pc' \in ServerSteps
        /\ child' \in {"none", "suspended", "running", "dying", "exited"}
    BY <1>1 DEF CaptureInv, TypeOK, Handles, ServerSteps
  <2>2. UNCHANGED <<env, death, exitCode, heir, flow, expired, verdict>>
    BY <1>1
  <2> QED
    BY <2>1, <2>2 DEF CaptureInv, TypeOK, env, flow, verdict
<1>3. HandleInv'
  BY <1>1 DEF CaptureInv, TypeOK, HandleInv, Job, env, flow, verdict, PipeEnds
<1>4. FateInv'
  BY <1>1 DEF CaptureInv, TypeOK, FateInv, VerdictInv, UseThreads, env, flow, verdict
<1>5. VerdictInv'
  BY <1>1 DEF CaptureInv, TypeOK, VerdictInv, FateInv, UseThreads, env, flow, verdict
<1>6. BalanceInv'
  BY <1>1 DEF CaptureInv, BalanceInv, flow
<1>7. ReaderInv'
  BY <1>1 DEF CaptureInv, TypeOK, ReaderInv, VerdictInv, FateInv, UseThreads, env, flow, verdict
<1> QED
  BY <1>2, <1>3, <1>4, <1>5, <1>6, <1>7 DEF CaptureInv

LEMMA AssignJobKeeps ==
    ASSUME CaptureInv, AssignJob
    PROVE  CaptureInv'
<1> USE DEF Capturing, Threaded, Polled, Terminating, AfterStart, InRun, Reported, NoResult
<1>1. pc = "job" /\ UNCHANGED <<env, heir, flow, expired, verdict>>
      /\ \/ /\ handles' = handles \cup {"job"} /\ child' = "running" /\ pc' = "feed"
            /\ UNCHANGED <<death, exitCode>>
         \/ /\ handles' = handles \ {"process", "thread"} /\ pc' = "failSpawn"
            /\ child' = "exited" /\ death' = "terminated" /\ exitCode' = "nonzero"
  BY DEF AssignJob, Goto
<1>2. TypeOK'
  <2>1. /\ handles' \subseteq Handles /\ pc' \in ServerSteps
        /\ child' \in {"none", "suspended", "running", "dying", "exited"}
        /\ death' \in {"none", "self", "late", "ctrl_break", "terminated"}
        /\ exitCode' \in {"none", "zero", "nonzero", "quota", "still_active"}
    BY <1>1 DEF CaptureInv, TypeOK, Handles, ServerSteps
  <2>2. UNCHANGED <<env, heir, flow, expired, verdict>>
    BY <1>1
  <2> QED
    BY <2>1, <2>2 DEF CaptureInv, TypeOK, env, flow, verdict
<1>3. HandleInv'
  BY <1>1 DEF CaptureInv, TypeOK, HandleInv, Job, env, flow, verdict, PipeEnds
<1>4. FateInv'
  BY <1>1 DEF CaptureInv, TypeOK, FateInv, VerdictInv, UseThreads, env, flow, verdict
<1>5. VerdictInv'
  BY <1>1 DEF CaptureInv, TypeOK, VerdictInv, FateInv, UseThreads, env, flow, verdict
<1>6. BalanceInv'
  BY <1>1 DEF CaptureInv, BalanceInv, flow
<1>7. ReaderInv'
  BY <1>1 DEF CaptureInv, TypeOK, ReaderInv, VerdictInv, FateInv, UseThreads, env, flow, verdict
<1> QED
  BY <1>2, <1>3, <1>4, <1>5, <1>6, <1>7 DEF CaptureInv

LEMMA FeedStdinKeeps ==
    ASSUME CaptureInv, FeedStdin
    PROVE  CaptureInv'
<1> USE DEF Capturing, Threaded, Polled, Terminating, AfterStart, InRun, Reported, NoResult
<1>1. pc = "feed" /\ handles' = handles \ {"inRd", "outWr", "errWr", "inWr"}
      /\ UNCHANGED <<env, fate, flow, expired, verdict>>
      /\ \/ UseThreads /\ pc' = "threads"
         \/ ~UseThreads /\ pc' = "pump"
  BY DEF FeedStdin, Goto
<1>2. TypeOK'
  BY <1>1 DEF CaptureInv, TypeOK, ServerSteps, env, fate, flow, verdict, Handles, PipeEnds
<1>3. HandleInv'
  BY <1>1 DEF CaptureInv, TypeOK, HandleInv, Job, env, fate, flow, verdict, PipeEnds
<1>4. FateInv'
  BY <1>1 DEF CaptureInv, TypeOK, FateInv, VerdictInv, UseThreads, env, fate, flow, verdict
<1>5. VerdictInv'
  BY <1>1 DEF CaptureInv, TypeOK, VerdictInv, FateInv, UseThreads, env, fate, flow, verdict
<1>6. BalanceInv'
  BY <1>1 DEF CaptureInv, BalanceInv, flow
<1>7. ReaderInv'
  BY <1>1 DEF CaptureInv, TypeOK, ReaderInv, VerdictInv, FateInv, UseThreads, env, fate, flow, verdict
<1> QED
  BY <1>2, <1>3, <1>4, <1>5, <1>6, <1>7 DEF CaptureInv

LEMMA FailKeeps ==
    ASSUME CaptureInv, Fail
    PROVE  CaptureInv'
<1> USE DEF Capturing, Threaded, Polled, Terminating, AfterStart, InRun, Reported, NoResult
<1>1. pc \in {"failSpawn", "failPipes"} /\ handles' = handles \ PipeEnds
      /\ result' = [outcome |-> "error"] /\ pc' = "done"
      /\ UNCHANGED <<env, fate, flow, expired, killedBy, leftOrphan>>
  BY DEF Fail, Goto
<1>2. TypeOK'
  BY <1>1 DEF CaptureInv, TypeOK, ServerSteps, env, fate, flow, Handles, PipeEnds, Results
<1>3. HandleInv'
  BY <1>1 DEF CaptureInv, TypeOK, HandleInv, Job, env, fate, flow, PipeEnds
<1>4. FateInv'
  BY <1>1 DEF CaptureInv, TypeOK, FateInv, VerdictInv, UseThreads, env, fate, flow
<1>5. VerdictInv'
  BY <1>1 DEF CaptureInv, TypeOK, VerdictInv, FateInv, UseThreads, env, fate, flow
<1>6. BalanceInv'
  BY <1>1 DEF CaptureInv, BalanceInv, flow
<1>7. ReaderInv'
  BY <1>1 DEF CaptureInv, TypeOK, ReaderInv, VerdictInv, FateInv, UseThreads, env, fate, flow
<1> QED
  BY <1>2, <1>3, <1>4, <1>5, <1>6, <1>7 DEF CaptureInv

LEMMA PumpKeeps ==
    ASSUME CaptureInv, Pump
    PROVE  CaptureInv'
<1> USE DEF Capturing, Threaded, Polled, Terminating, AfterStart, InRun, Reported, NoResult
<1>1. pc = "pump" /\ Take(Streams, FALSE) /\ pc' = "checkExit"
      /\ UNCHANGED <<env, handles, fate, written, reader, expired, verdict>>
  BY DEF Pump, Goto
<1>8. /\ BalanceInv' /\ pipe' \in [Streams -> 0..PipeCap] /\ captured' \in [Streams -> 0..BufSize]
      /\ truncated' \in [Streams -> BOOLEAN]
      /\ \A s \in Streams : /\ pipe[s] = 0 => pipe'[s] = 0
                            /\ truncated'[s] \/ pipe'[s] = 0
  BY <1>1, TakeKeeps
<1>2. TypeOK'
  BY <1>1, <1>8 DEF CaptureInv, TypeOK, ServerSteps, env, fate, verdict, Handles, PipeEnds
<1>3. HandleInv'
  BY <1>1 DEF CaptureInv, TypeOK, HandleInv, Job, env, fate, verdict, PipeEnds
<1>4. FateInv'
  BY <1>1 DEF CaptureInv, TypeOK, FateInv, VerdictInv, UseThreads, env, fate, verdict
<1>5. VerdictInv'
  BY <1>1 DEF CaptureInv, TypeOK, VerdictInv, FateInv, UseThreads, env, fate, verdict
<1>6. BalanceInv'
  BY <1>8
<1>7. ReaderInv'
  BY <1>1, <1>8 DEF CaptureInv, TypeOK, ReaderInv, VerdictInv, FateInv, UseThreads, env, fate, verdict
<1> QED
  BY <1>2, <1>3, <1>4, <1>5, <1>6, <1>7 DEF CaptureInv

LEMMA FinalDrainKeeps ==
    ASSUME CaptureInv, FinalDrain
    PROVE  CaptureInv'
<1> USE DEF Capturing, Threaded, Polled, Terminating, AfterStart, InRun, Reported, NoResult
<1>1. pc = "drain" /\ Take(Streams, FALSE) /\ pc' = "collect"
      /\ UNCHANGED <<env, handles, fate, written, reader, expired, verdict>>
  BY DEF FinalDrain, Goto
<1>8. /\ BalanceInv' /\ pipe' \in [Streams -> 0..PipeCap] /\ captured' \in [Streams -> 0..BufSize]
      /\ truncated' \in [Streams -> BOOLEAN]
      /\ \A s \in Streams : /\ pipe[s] = 0 => pipe'[s] = 0
                            /\ truncated'[s] \/ pipe'[s] = 0
  BY <1>1, TakeKeeps
<1>2. TypeOK'
  BY <1>1, <1>8 DEF CaptureInv, TypeOK, ServerSteps, env, fate, verdict, Handles, PipeEnds
<1>3. HandleInv'
  BY <1>1 DEF CaptureInv, TypeOK, HandleInv, Job, env, fate, verdict, PipeEnds
<1>4. FateInv'
  BY <1>1 DEF CaptureInv, TypeOK, FateInv, VerdictInv, UseThreads, env, fate, verdict
<1>5. VerdictInv'
  BY <1>1 DEF CaptureInv, TypeOK, VerdictInv, FateInv, UseThreads, env, fate, verdict
<1>6. BalanceInv'
  BY <1>8
<1>7. ReaderInv'
  BY <1>1, <1>8 DEF CaptureInv, TypeOK, ReaderInv, VerdictInv, FateInv, UseThreads, env, fate, verdict
<1> QED
  BY <1>2, <1>3, <1>4, <1>5, <1>6, <1>7 DEF CaptureInv

LEMMA CheckExitKeeps ==
    ASSUME CaptureInv, CheckExit
    PROVE  CaptureInv'
<1> USE DEF Capturing, Threaded, Polled, Terminating, AfterStart, InRun, Reported, NoResult
<1>1. pc = "checkExit" /\ UNCHANGED <<env, handles, fate, flow, expired, verdict>>
      /\ \/ pc' = "checkTimeout"
         \/ pc' = "drain" /\ child = "exited"
  BY DEF CheckExit, Goto, ReadsStillActive
<1>2. TypeOK'
  BY <1>1 DEF CaptureInv, TypeOK, ServerSteps, env, fate, flow, verdict, Handles, PipeEnds
<1>3. HandleInv'
  BY <1>1 DEF CaptureInv, TypeOK, HandleInv, Job, env, fate, flow, verdict, PipeEnds
<1>4. FateInv'
  BY <1>1 DEF CaptureInv, TypeOK, FateInv, VerdictInv, UseThreads, env, fate, flow, verdict
<1>5. VerdictInv'
  BY <1>1 DEF CaptureInv, TypeOK, VerdictInv, FateInv, UseThreads, env, fate, flow, verdict
<1>6. BalanceInv'
  BY <1>1 DEF CaptureInv, BalanceInv, flow
<1>7. ReaderInv'
  BY <1>1 DEF CaptureInv, TypeOK, ReaderInv, VerdictInv, FateInv, UseThreads, env, fate, flow, verdict
<1> QED
  BY <1>2, <1>3, <1>4, <1>5, <1>6, <1>7 DEF CaptureInv

LEMMA CheckTimeoutKeeps ==
    ASSUME CaptureInv, CheckTimeout
    PROVE  CaptureInv'
<1> USE DEF Capturing, Threaded, Polled, Terminating, AfterStart, InRun, Reported, NoResult
<1>1. pc = "checkTimeout" /\ UNCHANGED <<env, handles, fate, flow, expired, killedBy, result>>
      /\ \/ expired /\ is16 /\ leftOrphan' = TRUE /\ pc' = "drain"
         \/ expired /\ ~is16 /\ pc' \in {"break", "kill"} /\ UNCHANGED leftOrphan
         \/ pc' = "pump" /\ UNCHANGED leftOrphan
  BY DEF CheckTimeout, Goto, BeginTerminate
<1>2. TypeOK'
  <2>1. pc' \in ServerSteps /\ leftOrphan' \in BOOLEAN
    BY <1>1 DEF CaptureInv, TypeOK, ServerSteps
  <2>2. UNCHANGED <<env, handles, fate, flow, expired, killedBy, result>>
    BY <1>1
  <2> QED
    BY <2>1, <2>2 DEF CaptureInv, TypeOK, env, fate, flow
<1>3. HandleInv'
  BY <1>1 DEF CaptureInv, TypeOK, HandleInv, Job, env, fate, flow, PipeEnds
<1>4. FateInv'
  BY <1>1 DEF CaptureInv, TypeOK, FateInv, VerdictInv, UseThreads, env, fate, flow
<1>5. VerdictInv'
  BY <1>1 DEF CaptureInv, TypeOK, VerdictInv, FateInv, UseThreads, env, fate, flow
<1>6. BalanceInv'
  BY <1>1 DEF CaptureInv, BalanceInv, flow
<1>7. ReaderInv'
  BY <1>1 DEF CaptureInv, TypeOK, ReaderInv, VerdictInv, FateInv, UseThreads, env, fate, flow
<1> QED
  BY <1>2, <1>3, <1>4, <1>5, <1>6, <1>7 DEF CaptureInv

LEMMA StartReadersKeeps ==
    ASSUME CaptureInv, StartReaders
    PROVE  CaptureInv'
<1> USE DEF Capturing, Threaded, Polled, Terminating, AfterStart, InRun, Reported, NoResult
<1>1. pc = "threads" /\ reader' \in [Streams -> {"none", "running"}] /\ pc' = "wait"
      /\ UNCHANGED <<env, handles, fate, written, pipe, captured, truncated, expired, verdict>>
  BY DEF StartReaders, Goto
<1>2. TypeOK'
  BY <1>1 DEF CaptureInv, TypeOK, ServerSteps, env, fate, verdict, Handles, PipeEnds
<1>3. HandleInv'
  BY <1>1 DEF CaptureInv, TypeOK, HandleInv, Job, env, fate, verdict, PipeEnds
<1>4. FateInv'
  BY <1>1 DEF CaptureInv, TypeOK, FateInv, VerdictInv, UseThreads, env, fate, verdict
<1>5. VerdictInv'
  BY <1>1 DEF CaptureInv, TypeOK, VerdictInv, FateInv, UseThreads, env, fate, verdict
<1>6. BalanceInv'
  BY <1>1 DEF CaptureInv, BalanceInv, flow
<1>7. ReaderInv'
  BY <1>1 DEF CaptureInv, TypeOK, ReaderInv, VerdictInv, FateInv, UseThreads, env, fate, verdict
<1> QED
  BY <1>2, <1>3, <1>4, <1>5, <1>6, <1>7 DEF CaptureInv

LEMMA WaitChildKeeps ==
    ASSUME CaptureInv, WaitChild
    PROVE  CaptureInv'
<1> USE DEF Capturing, Threaded, Polled, Terminating, AfterStart, InRun, Reported, NoResult
<1>1. pc = "wait" /\ UNCHANGED <<env, handles, fate, flow, expired, killedBy, result>>
      /\ ~is16 /\ UNCHANGED leftOrphan
      /\ \/ child = "exited" /\ pc' = "joinOut"
         \/ child # "exited" /\ expired /\ pc' \in {"break", "kill"}
  BY DEF WaitChild, Goto, BeginTerminate, CaptureInv, VerdictInv, UseThreads
<1>2. TypeOK'
  BY <1>1 DEF CaptureInv, TypeOK, ServerSteps, env, fate, flow, Handles, PipeEnds
<1>3. HandleInv'
  BY <1>1 DEF CaptureInv, TypeOK, HandleInv, Job, env, fate, flow, PipeEnds
<1>4. FateInv'
  BY <1>1 DEF CaptureInv, TypeOK, FateInv, VerdictInv, UseThreads, env, fate, flow
<1>5. VerdictInv'
  BY <1>1 DEF CaptureInv, TypeOK, VerdictInv, FateInv, UseThreads, env, fate, flow
<1>6. BalanceInv'
  BY <1>1 DEF CaptureInv, BalanceInv, flow
<1>7. ReaderInv'
  BY <1>1 DEF CaptureInv, TypeOK, ReaderInv, VerdictInv, FateInv, UseThreads, env, fate, flow
<1> QED
  BY <1>2, <1>3, <1>4, <1>5, <1>6, <1>7 DEF CaptureInv

LEMMA ReapKeeps ==
    ASSUME CaptureInv, Reap
    PROVE  CaptureInv'
<1> USE DEF Capturing, Threaded, Polled, Terminating, AfterStart, InRun, Reported, NoResult
<1>1. pc = "reap" /\ child = "exited" /\ pc' = "joinOut"
      /\ UNCHANGED <<env, handles, fate, flow, expired, verdict>>
  BY DEF Reap, Goto
<1>2. TypeOK'
  BY <1>1 DEF CaptureInv, TypeOK, ServerSteps, env, fate, flow, verdict, Handles, PipeEnds
<1>3. HandleInv'
  BY <1>1 DEF CaptureInv, TypeOK, HandleInv, Job, env, fate, flow, verdict, PipeEnds
<1>4. FateInv'
  BY <1>1 DEF CaptureInv, TypeOK, FateInv, VerdictInv, UseThreads, env, fate, flow, verdict
<1>5. VerdictInv'
  BY <1>1 DEF CaptureInv, TypeOK, VerdictInv, FateInv, UseThreads, env, fate, flow, verdict
<1>6. BalanceInv'
  BY <1>1 DEF CaptureInv, BalanceInv, flow
<1>7. ReaderInv'
  BY <1>1 DEF CaptureInv, TypeOK, ReaderInv, VerdictInv, FateInv, UseThreads, env, fate, flow, verdict
<1> QED
  BY <1>2, <1>3, <1>4, <1>5, <1>6, <1>7 DEF CaptureInv

LEMMA JoinReaderKeeps ==
    ASSUME CaptureInv, JoinReader
    PROVE  CaptureInv'
<1> USE DEF Capturing, Threaded, Polled, Terminating, AfterStart, InRun, Reported, NoResult
<1>1. /\ \/ pc = "joinOut" /\ pc' = "joinErr"
         \/ pc = "joinErr" /\ pc' = "collect"
      /\ UNCHANGED <<env, handles, fate, flow, expired, verdict>>
  BY DEF JoinReader, Goto
<1>2. TypeOK'
  BY <1>1 DEF CaptureInv, TypeOK, ServerSteps, env, fate, flow, verdict, Handles, PipeEnds
<1>3. HandleInv'
  BY <1>1 DEF CaptureInv, TypeOK, HandleInv, Job, env, fate, flow, verdict, PipeEnds
<1>4. FateInv'
  BY <1>1 DEF CaptureInv, TypeOK, FateInv, VerdictInv, UseThreads, env, fate, flow, verdict
<1>5. VerdictInv'
  BY <1>1 DEF CaptureInv, TypeOK, VerdictInv, FateInv, UseThreads, env, fate, flow, verdict
<1>6. BalanceInv'
  BY <1>1 DEF CaptureInv, BalanceInv, flow
<1>7. ReaderInv'
  BY <1>1 DEF CaptureInv, TypeOK, ReaderInv, VerdictInv, FateInv, UseThreads, env, fate, flow, verdict
<1> QED
  BY <1>2, <1>3, <1>4, <1>5, <1>6, <1>7 DEF CaptureInv

LEMMA SendBreakKeeps ==
    ASSUME CaptureInv, SendBreak
    PROVE  CaptureInv'
<1> USE DEF Capturing, Threaded, Polled, Terminating, AfterStart, InRun, Reported, NoResult
<1>1. pc = "break" /\ pc' \in {"grace", "kill"}
      /\ UNCHANGED <<env, handles, fate, flow, expired, verdict>>
  BY DEF SendBreak, Goto
<1>2. TypeOK'
  BY <1>1 DEF CaptureInv, TypeOK, ServerSteps, env, fate, flow, verdict, Handles, PipeEnds
<1>3. HandleInv'
  BY <1>1 DEF CaptureInv, TypeOK, HandleInv, Job, env, fate, flow, verdict, PipeEnds
<1>4. FateInv'
  BY <1>1 DEF CaptureInv, TypeOK, FateInv, VerdictInv, UseThreads, env, fate, flow, verdict
<1>5. VerdictInv'
  BY <1>1 DEF CaptureInv, TypeOK, VerdictInv, FateInv, UseThreads, env, fate, flow, verdict
<1>6. BalanceInv'
  BY <1>1 DEF CaptureInv, BalanceInv, flow
<1>7. ReaderInv'
  BY <1>1 DEF CaptureInv, TypeOK, ReaderInv, VerdictInv, FateInv, UseThreads, env, fate, flow, verdict
<1> QED
  BY <1>2, <1>3, <1>4, <1>5, <1>6, <1>7 DEF CaptureInv

LEMMA GraceWaitKeeps ==
    ASSUME CaptureInv, GraceWait
    PROVE  CaptureInv'
<1> USE DEF Capturing, Threaded, Polled, Terminating, AfterStart, InRun, Reported, NoResult
<1>1. pc = "grace" /\ UNCHANGED <<env, handles, fate, flow, expired, leftOrphan, result>>
      /\ \/ child = "exited" /\ killedBy' = "ctrl_break" /\ pc' = AfterKill
         \/ child # "exited" /\ pc' = "kill" /\ UNCHANGED killedBy
  BY DEF GraceWait, Goto
<1>2. TypeOK'
  BY <1>1 DEF CaptureInv, TypeOK, ServerSteps, env, fate, flow, AfterKill, Handles, PipeEnds
<1>3. HandleInv'
  BY <1>1 DEF CaptureInv, TypeOK, HandleInv, Job, env, fate, flow, AfterKill, PipeEnds
<1>4. FateInv'
  BY <1>1 DEF CaptureInv, TypeOK, FateInv, VerdictInv, UseThreads, env, fate, flow, AfterKill
<1>5. VerdictInv'
  BY <1>1 DEF CaptureInv, TypeOK, VerdictInv, FateInv, UseThreads, env, fate, flow, AfterKill
<1>6. BalanceInv'
  BY <1>1 DEF CaptureInv, BalanceInv, flow
<1>7. ReaderInv'
  BY <1>1 DEF CaptureInv, TypeOK, ReaderInv, VerdictInv, FateInv, UseThreads, env, fate, flow, AfterKill
<1> QED
  BY <1>2, <1>3, <1>4, <1>5, <1>6, <1>7 DEF CaptureInv

LEMMA KillKeeps ==
    ASSUME CaptureInv, Kill
    PROVE  CaptureInv'
<1> USE DEF Capturing, Threaded, Polled, Terminating, AfterStart, InRun, Reported, NoResult
<1>1. pc = "kill" /\ killedBy' = "timeout" /\ pc' = AfterKill
      /\ UNCHANGED <<env, handles, exitCode, heir, flow, expired, leftOrphan, result>>
      /\ \/ child = "running" /\ child' = "dying" /\ death' = "terminated"
         \/ child # "running" /\ UNCHANGED <<child, death>>
  BY DEF Kill, Goto
<1>2. TypeOK'
  BY <1>1 DEF CaptureInv, TypeOK, ServerSteps, env, flow, AfterKill, Handles, PipeEnds
<1>3. HandleInv'
  BY <1>1 DEF CaptureInv, TypeOK, HandleInv, Job, env, flow, AfterKill, PipeEnds
<1>4. FateInv'
  BY <1>1 DEF CaptureInv, TypeOK, FateInv, VerdictInv, UseThreads, env, flow, AfterKill
<1>5. VerdictInv'
  BY <1>1 DEF CaptureInv, TypeOK, VerdictInv, FateInv, UseThreads, env, flow, AfterKill
<1>6. BalanceInv'
  BY <1>1 DEF CaptureInv, BalanceInv, flow
<1>7. ReaderInv'
  BY <1>1 DEF CaptureInv, TypeOK, ReaderInv, VerdictInv, FateInv, UseThreads, env, flow, AfterKill
<1> QED
  BY <1>2, <1>3, <1>4, <1>5, <1>6, <1>7 DEF CaptureInv

\* A report is a result.
LEMMA ReportTyped ==
    ASSUME NEW t \in BOOLEAN, NEW a \in BOOLEAN,
           NEW k \in {"none", "timeout", "ctrl_break", "cpu_cap", "memory_cap"}
    PROVE  [outcome |-> "report", timedOut |-> t, stillActive |-> a, killedBy |-> k] \in Results
<1>1. CASE t = TRUE
  BY <1>1 DEF Results
<1>2. CASE t = FALSE
  BY <1>2 DEF Results
<1> QED
  BY <1>1, <1>2

LEMMA CollectKeeps ==
    ASSUME CaptureInv, Collect
    PROVE  CaptureInv'
<1> USE DEF Capturing, Threaded, Polled, Terminating, AfterStart, InRun, Reported, NoResult
<1>1. pc = "collect" /\ pc' = "done"
      /\ UNCHANGED <<env, fate, flow, expired, killedBy, leftOrphan>>
      /\ \/ /\ leftOrphan
            /\ result' = [outcome |-> "report", timedOut |-> FALSE,
                          stillActive |-> TRUE, killedBy |-> "none"]
            /\ handles' = handles \ {"thread", "outRd", "errRd"}
         \/ /\ ~leftOrphan
            /\ result' = [outcome |-> "report", stillActive |-> FALSE,
                          timedOut |-> Attributed \in {"timeout", "ctrl_break"},
                          killedBy |-> Attributed]
            /\ handles' = handles \ {"thread", "process", "job", "outRd", "errRd"}
  BY DEF Collect, Goto
<1>8. /\ Attributed \in {"none", "timeout", "ctrl_break", "cpu_cap", "memory_cap"}
      /\ Attributed \in {"timeout", "ctrl_break"} <=> killedBy # "none"
  BY DEF Attributed, CaptureInv, TypeOK
<1>2. TypeOK'
  <2>1. handles' \subseteq Handles /\ pc' \in ServerSteps
    BY <1>1 DEF CaptureInv, TypeOK, Handles, ServerSteps
  <2>2. result' \in Results
    <3>2. CASE leftOrphan
      BY <1>1, <3>2, ReportTyped
    <3>3. CASE ~leftOrphan /\ Attributed \in {"timeout", "ctrl_break"}
      <4>1. result' = [outcome |-> "report", stillActive |-> FALSE,
                       timedOut |-> TRUE, killedBy |-> Attributed]
        <5>1. (Attributed \in {"timeout", "ctrl_break"}) = TRUE
          BY <3>3
        <5> QED
          BY <1>1, <3>3, <5>1
      <4> QED
        BY <1>8, <4>1, ReportTyped
    <3>4. CASE ~leftOrphan /\ ~(Attributed \in {"timeout", "ctrl_break"})
      <4>1. result' = [outcome |-> "report", stillActive |-> FALSE,
                       timedOut |-> FALSE, killedBy |-> Attributed]
        <5>1. (Attributed \in {"timeout", "ctrl_break"}) = FALSE
          BY <3>4
        <5> QED
          BY <1>1, <3>4, <5>1
      <4> QED
        BY <1>8, <4>1, ReportTyped
    <3> QED
      BY <3>2, <3>3, <3>4
  <2>3. UNCHANGED <<env, fate, flow, expired, killedBy, leftOrphan>>
    BY <1>1
  <2> QED
    BY <2>1, <2>2, <2>3 DEF CaptureInv, TypeOK, env, fate, flow
<1>3. HandleInv'
  BY <1>1 DEF CaptureInv, TypeOK, HandleInv, Job, env, fate, flow, Attributed, PipeEnds
<1>4. FateInv'
  BY <1>1 DEF CaptureInv, TypeOK, FateInv, VerdictInv, UseThreads, env, fate, flow, Attributed
<1>5. VerdictInv'
  <2>1. result'.outcome = "report" /\ result' # NoResult
    BY <1>1
  <2>2. /\ leftOrphan => expired /\ is16 /\ killedBy = "none"
        /\ killedBy # "none" => expired /\ ~is16 /\ child \in {"dying", "exited"}
        /\ leftOrphan \/ killedBy # "none" \/ child = "exited"
        /\ leftOrphan \in BOOLEAN
    BY <1>1 DEF CaptureInv, VerdictInv, TypeOK
  <2>3. result'.stillActive = leftOrphan
    <3>1. CASE leftOrphan
      <4>1. result'.stillActive = TRUE /\ leftOrphan = TRUE
        BY <1>1, <2>2, <3>1
      <4> QED
        BY <4>1
    <3>2. CASE ~leftOrphan
      <4>1. result'.stillActive = FALSE /\ leftOrphan = FALSE
        BY <1>1, <2>2, <3>2
      <4> QED
        BY <4>1
    <3> QED
      BY <3>1, <3>2
  <2>4. result'.timedOut = (killedBy # "none")
    <3>1. CASE leftOrphan
      <4>1. result'.timedOut = FALSE
        BY <1>1, <3>1
      <4>2. killedBy = "none"
        BY <2>2, <3>1
      <4> QED
        BY <4>1, <4>2
    <3>2. CASE ~leftOrphan
      <4>1. result'.timedOut = (Attributed \in {"timeout", "ctrl_break"})
        BY <1>1, <3>2
      <4> QED
        BY <1>8, <4>1
    <3> QED
      BY <3>1, <3>2
  <2>5. pc' = "done" /\ UNCHANGED <<env, fate, expired, killedBy, leftOrphan>>
    BY <1>1
  <2> QED
    BY <2>1, <2>2, <2>3, <2>4, <2>5 DEF VerdictInv, env, fate
<1>6. BalanceInv'
  BY <1>1 DEF CaptureInv, BalanceInv, flow
<1>7. ReaderInv'
  BY <1>1 DEF CaptureInv, TypeOK, ReaderInv, VerdictInv, FateInv, UseThreads, env, fate, flow, Attributed
<1> QED
  BY <1>2, <1>3, <1>4, <1>5, <1>6, <1>7 DEF CaptureInv

-----------------------------------------------------------------------------
(* Every step of a reader, of the child, of its heir and of the clock does, too *)

LEMMA ReaderReadsKeeps ==
    ASSUME CaptureInv, NEW s \in Streams, ReaderReads(s)
    PROVE  CaptureInv'
<1> USE DEF Capturing, Threaded, Polled, Terminating, AfterStart, InRun, Reported, NoResult
<1>1. /\ reader[s] = "running" /\ Take({s}, TRUE)
      /\ UNCHANGED <<env, pc, handles, fate, written, reader, expired, verdict>>
  BY DEF ReaderReads, Goto
<1>8. /\ BalanceInv' /\ pipe' \in [Streams -> 0..PipeCap] /\ captured' \in [Streams -> 0..BufSize]
      /\ truncated' \in [Streams -> BOOLEAN]
      /\ \A u \in Streams : /\ truncated[u] => truncated'[u]
                            /\ pipe[u] = 0 => pipe'[u] = 0
  BY <1>1, TakeKeeps
<1>2. TypeOK'
  BY <1>1, <1>8 DEF CaptureInv, TypeOK, ServerSteps, env, fate, verdict, Handles, PipeEnds
<1>3. HandleInv'
  BY <1>1 DEF CaptureInv, TypeOK, HandleInv, Job, env, fate, verdict, PipeEnds
<1>4. FateInv'
  BY <1>1 DEF CaptureInv, TypeOK, FateInv, VerdictInv, UseThreads, env, fate, verdict
<1>5. VerdictInv'
  BY <1>1 DEF CaptureInv, TypeOK, VerdictInv, FateInv, UseThreads, env, fate, verdict
<1>6. BalanceInv'
  BY <1>8
<1>7. ReaderInv'
  BY <1>1, <1>8 DEF CaptureInv, TypeOK, ReaderInv, VerdictInv, FateInv, UseThreads, env, fate, verdict
<1> QED
  BY <1>2, <1>3, <1>4, <1>5, <1>6, <1>7 DEF CaptureInv

LEMMA ReaderEndsKeeps ==
    ASSUME CaptureInv, NEW s \in Streams, ReaderEnds(s)
    PROVE  CaptureInv'
<1> USE DEF Capturing, Threaded, Polled, Terminating, AfterStart, InRun, Reported, NoResult
<1>1. /\ reader[s] = "running" /\ reader' = [reader EXCEPT ![s] = "ended"]
      /\ pipe[s] = 0 /\ child \notin {"suspended", "running", "dying"}
      /\ UNCHANGED <<env, pc, handles, fate, written, pipe, captured, truncated, expired, verdict>>
  BY DEF ReaderEnds, Goto, AtEof, Alive
<1>2. TypeOK'
  BY <1>1 DEF CaptureInv, TypeOK, ServerSteps, env, fate, verdict, Handles, PipeEnds
<1>3. HandleInv'
  BY <1>1 DEF CaptureInv, TypeOK, HandleInv, Job, env, fate, verdict, PipeEnds
<1>4. FateInv'
  BY <1>1 DEF CaptureInv, TypeOK, FateInv, VerdictInv, UseThreads, env, fate, verdict
<1>5. VerdictInv'
  BY <1>1 DEF CaptureInv, TypeOK, VerdictInv, FateInv, UseThreads, env, fate, verdict
<1>6. BalanceInv'
  BY <1>1 DEF CaptureInv, BalanceInv, flow
<1>7. ReaderInv'
  BY <1>1 DEF CaptureInv, TypeOK, ReaderInv, VerdictInv, FateInv, UseThreads, env, fate, verdict
<1> QED
  BY <1>2, <1>3, <1>4, <1>5, <1>6, <1>7 DEF CaptureInv

LEMMA ChildWritesKeeps ==
    ASSUME CaptureInv, NEW s \in Streams, ChildWrites(s)
    PROVE  CaptureInv'
<1> USE DEF Capturing, Threaded, Polled, Terminating, AfterStart, InRun, Reported, NoResult
<1>1. /\ child = "running" /\ pc # "done" /\ pipe[s] < PipeCap /\ written[s] < MaxOutput
      /\ written' = [written EXCEPT ![s] = @ + 1] /\ pipe' = [pipe EXCEPT ![s] = @ + 1]
      /\ UNCHANGED <<env, pc, handles, fate, captured, truncated, reader, expired, verdict>>
  BY DEF ChildWrites, Goto, Running
<1>2. TypeOK'
  <2>1. pipe' \in [Streams -> 0..PipeCap] /\ written' \in [Streams -> 0..MaxOutput]
    <3>1. pipe[s] + 1 \in 0..PipeCap /\ written[s] + 1 \in 0..MaxOutput
      BY <1>1, StreamFacts, Sizes
    <3> QED
      BY <1>1, <3>1 DEF CaptureInv, TypeOK
  <2>2. UNCHANGED <<env, pc, handles, fate, captured, truncated, reader, expired, verdict>>
    BY <1>1
  <2> QED
    BY <2>1, <2>2 DEF CaptureInv, TypeOK, env, fate, verdict
<1>3. HandleInv'
  BY <1>1 DEF CaptureInv, TypeOK, HandleInv, Job, env, fate, verdict, PipeEnds
<1>4. FateInv'
  BY <1>1 DEF CaptureInv, TypeOK, FateInv, VerdictInv, UseThreads, env, fate, verdict
<1>5. VerdictInv'
  BY <1>1 DEF CaptureInv, TypeOK, VerdictInv, FateInv, UseThreads, env, fate, verdict
<1>6. BalanceInv'
  BY <1>1, StreamFacts DEF CaptureInv, TypeOK, BalanceInv
<1>7. ReaderInv'
  BY <1>1 DEF CaptureInv, TypeOK, ReaderInv, VerdictInv, FateInv, UseThreads, env, fate, verdict
<1> QED
  BY <1>2, <1>3, <1>4, <1>5, <1>6, <1>7 DEF CaptureInv

\* The child ends by itself, by its job's limit, by the break or by the kill.
LEMMA EndsKeeps ==
    ASSUME CaptureInv, NEW cause, NEW code \in {"zero", "nonzero", "quota", "still_active"},
           Ends(cause, code),
           \/ child = "running" /\ pc # "done" /\ cause = ByItself
           \/ child = "running" /\ pc = "grace" /\ cause = "ctrl_break"
           \/ child = "dying" /\ cause = death
    PROVE  CaptureInv'
<1> USE DEF Capturing, Threaded, Polled, Terminating, AfterStart, InRun, Reported, NoResult
<1>1. /\ child' = "exited" /\ exitCode' = code /\ death' = cause
      /\ UNCHANGED <<env, pc, handles, heir, flow, expired, verdict>>
      /\ pc \notin {"pipes", "isolate", "spawn", "failPipes", "job", "failSpawn"}
  BY DEF Ends, CaptureInv, FateInv
<1>2. TypeOK'
  BY <1>1 DEF CaptureInv, TypeOK, FateInv, ByItself, env, flow, verdict
<1>3. HandleInv'
  BY <1>1 DEF CaptureInv, TypeOK, HandleInv, Job, env, verdict
<1>4. FateInv'
  BY <1>1 DEF CaptureInv, TypeOK, ByItself, FateInv, VerdictInv, UseThreads, env, verdict
<1>5. VerdictInv'
  BY <1>1 DEF CaptureInv, TypeOK, VerdictInv, FateInv, UseThreads, env, verdict
<1>6. BalanceInv'
  BY <1>1 DEF CaptureInv, BalanceInv, flow
<1>7. ReaderInv'
  BY <1>1 DEF CaptureInv, TypeOK, ReaderInv, VerdictInv, FateInv, UseThreads, env, flow, verdict
<1> QED
  BY <1>2, <1>3, <1>4, <1>5, <1>6, <1>7 DEF CaptureInv

LEMMA HeirKeeps ==
    ASSUME CaptureInv, ChildForks \/ HeirExits
    PROVE  CaptureInv'
<1> USE DEF Capturing, Threaded, Polled, Terminating, AfterStart, InRun, Reported, NoResult
<1>1. /\ heir' \in BOOLEAN
      /\ UNCHANGED <<env, pc, handles, child, death, exitCode, flow, expired, verdict>>
  BY DEF ChildForks, HeirExits
<1>2. TypeOK'
  BY <1>1 DEF CaptureInv, TypeOK, ServerSteps, env, flow, verdict, Handles, PipeEnds
<1>3. HandleInv'
  BY <1>1 DEF CaptureInv, TypeOK, HandleInv, Job, env, flow, verdict, PipeEnds
<1>4. FateInv'
  BY <1>1 DEF CaptureInv, TypeOK, FateInv, VerdictInv, UseThreads, env, flow, verdict
<1>5. VerdictInv'
  BY <1>1 DEF CaptureInv, TypeOK, VerdictInv, FateInv, UseThreads, env, flow, verdict
<1>6. BalanceInv'
  BY <1>1 DEF CaptureInv, BalanceInv, flow
<1>7. ReaderInv'
  BY <1>1 DEF CaptureInv, TypeOK, ReaderInv, VerdictInv, FateInv, UseThreads, env, flow, verdict
<1> QED
  BY <1>2, <1>3, <1>4, <1>5, <1>6, <1>7 DEF CaptureInv

LEMMA ExpireKeeps ==
    ASSUME CaptureInv, Expire
    PROVE  CaptureInv'
<1> USE DEF Capturing, Threaded, Polled, Terminating, AfterStart, InRun, Reported, NoResult
<1>1. /\ expired' = TRUE
      /\ UNCHANGED <<env, pc, handles, fate, flow, verdict>>
  BY DEF Expire, Goto
<1>2. TypeOK'
  BY <1>1 DEF CaptureInv, TypeOK, ServerSteps, env, fate, flow, verdict, Handles, PipeEnds
<1>3. HandleInv'
  BY <1>1 DEF CaptureInv, TypeOK, HandleInv, Job, env, fate, flow, verdict, PipeEnds
<1>4. FateInv'
  BY <1>1 DEF CaptureInv, TypeOK, FateInv, VerdictInv, UseThreads, env, fate, flow, verdict
<1>5. VerdictInv'
  BY <1>1 DEF CaptureInv, TypeOK, VerdictInv, FateInv, UseThreads, env, fate, flow, verdict
<1>6. BalanceInv'
  BY <1>1 DEF CaptureInv, BalanceInv, flow
<1>7. ReaderInv'
  BY <1>1 DEF CaptureInv, TypeOK, ReaderInv, VerdictInv, FateInv, UseThreads, env, fate, flow, verdict
<1> QED
  BY <1>2, <1>3, <1>4, <1>5, <1>6, <1>7 DEF CaptureInv

\* Every step of anyone keeps the invariant.
LEMMA CaptureStep ==
    ASSUME CaptureInv, [Next]_vars
    PROVE  CaptureInv'
<1>1. CASE Server
  BY <1>1, CreatePipesKeeps, IsolateParentEndsKeeps, SpawnKeeps, AssignJobKeeps,
     FeedStdinKeeps, FailKeeps, PumpKeeps, CheckExitKeeps, CheckTimeoutKeeps,
     FinalDrainKeeps, StartReadersKeeps, WaitChildKeeps, ReapKeeps, JoinReaderKeeps,
     SendBreakKeeps, GraceWaitKeeps, KillKeeps, CollectKeeps DEF Server
<1>2. CASE Child
  <2>1. ASSUME NEW code \in {"zero", "nonzero", "quota", "still_active"}, ChildExits(code)
        PROVE  CaptureInv'
    BY <2>1, EndsKeeps DEF ChildExits, Running
  <2>2. CASE CpuLimitKills \/ BreakEndsChild \/ ChildDies
    BY <2>2, EndsKeeps DEF CpuLimitKills, BreakEndsChild, ChildDies, Running
  <2> QED
    BY <1>2, <2>1, <2>2, ChildWritesKeeps, HeirKeeps DEF Child
<1>3. CASE UNCHANGED vars
  <2>1. TypeOK' /\ BalanceInv'
    BY <1>3 DEF CaptureInv, TypeOK, BalanceInv, vars
  <2>2. HandleInv' /\ FateInv' /\ VerdictInv' /\ ReaderInv'
    BY <1>3 DEF CaptureInv, HandleInv, FateInv, VerdictInv, ReaderInv, Job, UseThreads,
                InRun, Reported, vars
  <2> QED
    BY <2>1, <2>2 DEF CaptureInv
<1> QED
  BY <1>1, <1>2, <1>3, ReaderReadsKeeps, ReaderEndsKeeps, ExpireKeeps DEF Next, RunOver

\* The inductive invariant of a run, on any host and against any child.
THEOREM CaptureCorrect == Spec => []CaptureInv
<1>1. Init => CaptureInv
  <2> SUFFICES ASSUME Init
               PROVE  CaptureInv
    OBVIOUS
  <2>1. 0 \in 0..PipeCap /\ 0 \in 0..BufSize /\ 0 \in 0..MaxOutput /\ 0 + 0 = 0 /\ 0 <= 0
    BY Sizes
  <2>3. /\ written \in [Streams -> 0..MaxOutput] /\ pipe \in [Streams -> 0..PipeCap]
        /\ captured \in [Streams -> 0..BufSize] /\ truncated \in [Streams -> BOOLEAN]
        /\ reader \in [Streams -> {"none", "running", "ended"}]
    BY <2>1 DEF Init
  <2>4. TypeOK
    BY <2>3 DEF Init, TypeOK, ServerSteps
  <2>5. BalanceInv
    BY <2>1 DEF Init, BalanceInv
  <2>2. HandleInv /\ FateInv /\ VerdictInv /\ ReaderInv
    BY DEF Init, HandleInv, FateInv, VerdictInv, ReaderInv, InRun, Reported, NoResult,
           Capturing, Threaded, Polled, Terminating
  <2> QED
    BY <2>2, <2>4, <2>5 DEF CaptureInv
<1>2. CaptureInv /\ [Next]_vars => CaptureInv'
  BY CaptureStep
<1> QED
  BY <1>1, <1>2, PTL DEF Spec

-----------------------------------------------------------------------------
(* What the client is given, and what the run leaves open *)

\* With nothing left in the pipe, what was captured is what was written, up to the cap.
LEMMA Balanced ==
    ASSUME NEW b \in Nat, NEW c \in Nat, NEW p \in Nat, NEW w \in Nat, NEW t,
           c <= b, c + p <= w, ~t => c + p = w, t => c = b /\ w > b, t \/ p = 0
    PROVE  c = Lesser(w, b) /\ (t <=> w > b)
<1>1. CASE t
  BY <1>1 DEF Lesser
<1>2. CASE ~t
  <2>1. c = w /\ ~(w > b)
    BY <1>2
  <2> QED
    BY <1>2, <2>1 DEF Lesser
<1> QED
  BY <1>1, <1>2

\* What a report holds of a child that ended by itself is all it wrote, or marked.
LEMMA ReportIsComplete ==
    ASSUME CaptureInv
    PROVE  OutputComplete
<1> SUFFICES ASSUME Reported, ~result.timedOut, ~result.stillActive,
                    NEW s \in Streams, UseThreads => reader[s] = "ended"
             PROVE  /\ captured[s] = Lesser(written[s], BufSize)
                    /\ truncated[s] = (written[s] > BufSize)
  BY DEF OutputComplete
<1>1. killedBy = "none" /\ ~leftOrphan
  <2>1. result.stillActive = leftOrphan /\ result.timedOut = (killedBy # "none")
    BY DEF CaptureInv, VerdictInv
  <2> QED
    BY <2>1, Zenon
<1>2. truncated[s] \/ pipe[s] = 0
  BY <1>1 DEF CaptureInv, ReaderInv
<1>3. captured[s] = Lesser(written[s], BufSize) /\ (truncated[s] <=> written[s] > BufSize)
  <2>1. /\ written[s] \in Nat /\ pipe[s] \in Nat /\ captured[s] \in Nat
        /\ captured[s] <= BufSize /\ captured[s] + pipe[s] <= written[s]
        /\ ~truncated[s] => captured[s] + pipe[s] = written[s]
        /\ truncated[s] => captured[s] = BufSize /\ written[s] > BufSize
    BY StreamFacts
  <2> QED
    BY <1>2, <2>1, Sizes, Balanced
<1>4. truncated[s] \in BOOLEAN
  BY DEF CaptureInv, TypeOK
<1>5. (written[s] > BufSize) \in BOOLEAN
  OBVIOUS
<1>6. truncated[s] = (written[s] > BufSize)
  BY <1>3, <1>4, <1>5
<1> QED
  BY <1>3, <1>6

\* CaptureSound: what ExecOpRun reports of a child that ended by itself is what the child
\* wrote, up to the cap, with the truncation flag exactly when there was more; and at no
\* moment of any run has a stream lost a unit without being marked.
THEOREM CaptureIsSound == Spec => []CaptureSound
<1>1. CaptureInv => CaptureSound
  BY ReportIsComplete DEF CaptureInv, BalanceInv, CaptureSound, NothingLostUnmarked
<1> QED
  BY <1>1, CaptureCorrect, PTL

\* HandlesAccounted: every path out of ExecOpRun closes every handle it opened, but for
\* the process that a still_active report hands over and, on a host with job objects,
\* the orphan's job, which it hands to nobody.
THEOREM OpenHandles == Spec => []HandlesAccounted
<1>1. CaptureInv => HandlesAccounted
  <2> SUFFICES ASSUME CaptureInv, pc = "done"
               PROVE  handles = IF Reported /\ result.stillActive
                                  THEN {"process"} \cup LostJob ELSE {}
    BY DEF HandlesAccounted
  <2>1. handles = IF Reported /\ leftOrphan THEN {"process"} \cup Job ELSE {}
    BY DEF CaptureInv, HandleInv
  <2>2. Reported => (result.stillActive <=> leftOrphan)
    BY DEF CaptureInv, VerdictInv
  <2> QED
    BY <2>1, <2>2 DEF Job, LostJob
<1> QED
  BY <1>1, CaptureCorrect, PTL

-----------------------------------------------------------------------------
(* The run keeps its promise: every step is one of ExecPromise, or is not seen *)

\* The abstract process, read off the invariant.
LEMMA ProcessIs ==
    ASSUME CaptureInv
    PROVE  /\ pc # "done" => AbstractAnswer = "none" /\ result.outcome = "none"
           /\ pc \in {"pipes", "isolate", "spawn", "job", "failSpawn", "failPipes"} =>
                AbstractProcess = "unborn"
           /\ pc \in Capturing \cup {"feed"} =>
                /\ child = "running" => AbstractProcess = "running"
                /\ child = "dying" => AbstractProcess = "killed"
                /\ child = "exited" => AbstractProcess \in {"ended", "overran", "killed"}
                /\ child = "exited" /\ death = "self" => AbstractProcess = "ended"
                /\ child = "exited" /\ death = "late" => AbstractProcess = "overran"
                /\ child = "exited" /\ death # "self" => AbstractProcess # "ended"
                /\ AbstractProcess # "unborn"
<1> USE DEF Capturing, Threaded, Polled, Terminating, InRun, Reported, NoResult
<1>1. pc # "done" => result = NoResult
  BY DEF CaptureInv, VerdictInv
<1> QED
  BY <1>1 DEF CaptureInv, FateInv, TypeOK, AbstractProcess, AbstractAnswer

\* Handling pipes, handles, output and time-keeping is not seen.
LEMMA Quiet ==
    ASSUME pc # "failSpawn", pc' # "failSpawn",
           UNCHANGED <<is16, host, expired, result, child, death>>
    PROVE  UNCHANGED Promise!vars
BY DEF Promise!vars, AbstractProcess, AbstractAnswer, UseThreads

\* CreateProcess starts the promised child, or only creates it suspended.
LEMMA SpawnIsStart ==
    ASSUME CaptureInv, Spawn
    PROVE  Promise!Start \/ UNCHANGED Promise!vars
<1>1. /\ pc = "spawn" /\ child = "none" /\ death = "none" /\ result = NoResult
      /\ AbstractProcess = "unborn" /\ AbstractAnswer = "none"
  BY ProcessIs DEF Spawn, CaptureInv, FateInv, VerdictInv
<1>2. UNCHANGED <<is16, host, expired, result, death>>
  BY DEF Spawn, env, verdict
<1>3. AbstractAnswer' = AbstractAnswer
  BY <1>2 DEF AbstractAnswer
<1>4. CASE child' = "running" /\ pc' = "feed"
  <2>1. AbstractProcess' = "running"
    BY <1>1, <1>2, <1>4 DEF AbstractProcess, NoResult
  <2> QED
    BY <1>1, <1>2, <1>3, <2>1 DEF Promise!Start, UseThreads
<1>5. CASE child' \in {"none", "suspended"}
  <2>1. AbstractProcess' = "unborn"
    BY <1>5 DEF AbstractProcess
  <2> QED
    BY <1>1, <1>2, <1>3, <2>1 DEF Promise!vars, UseThreads
<1> QED
  BY <1>1, <1>4, <1>5 DEF Spawn, Goto

\* ResumeThread after the job starts the promised child.
LEMMA AssignIsStart ==
    ASSUME CaptureInv, AssignJob
    PROVE  Promise!Start \/ UNCHANGED Promise!vars
<1>1. /\ pc = "job" /\ child = "suspended" /\ death = "none" /\ result = NoResult
      /\ AbstractProcess = "unborn" /\ AbstractAnswer = "none"
  BY ProcessIs DEF AssignJob, CaptureInv, FateInv, VerdictInv
<1>2. UNCHANGED <<is16, host, expired, result>>
  BY DEF AssignJob, env, verdict
<1>3. AbstractAnswer' = AbstractAnswer
  BY <1>2 DEF AbstractAnswer
<1>4. CASE child' = "running" /\ pc' = "feed" /\ death' = death
  <2>1. AbstractProcess' = "running"
    BY <1>1, <1>2, <1>4 DEF AbstractProcess, NoResult
  <2> QED
    BY <1>1, <1>2, <1>3, <2>1 DEF Promise!Start, UseThreads
<1>5. CASE pc' = "failSpawn"
  <2>1. AbstractProcess' = "unborn"
    BY <1>5 DEF AbstractProcess
  <2> QED
    BY <1>1, <1>2, <1>3, <2>1 DEF Promise!vars, UseThreads
<1> QED
  BY <1>4, <1>5 DEF AssignJob, Goto

\* A run that fails before its child runs refuses.
LEMMA FailIsRefuse ==
    ASSUME CaptureInv, Fail
    PROVE  Promise!Refuse
<1>1. pc \in {"failSpawn", "failPipes"} /\ AbstractProcess = "unborn" /\ AbstractAnswer = "none"
  BY ProcessIs DEF Fail
<1>2. result' = [outcome |-> "error"] /\ UNCHANGED <<is16, host, expired>>
  BY DEF Fail, env
<1>3. AbstractProcess' = "unborn" /\ AbstractAnswer' = "error"
  BY <1>2 DEF AbstractProcess, AbstractAnswer
<1> QED
  BY <1>1, <1>2, <1>3 DEF Promise!Refuse, UseThreads

\* TerminateProcess is the promised kill, unless the child was gone already.
LEMMA KillIsKill ==
    ASSUME CaptureInv, Kill
    PROVE  Promise!Kill \/ UNCHANGED Promise!vars
<1>1. pc = "kill" /\ expired /\ ~is16 /\ pc' # "failSpawn" /\ UNCHANGED <<is16, host, expired, result>>
  BY DEF Kill, Goto, AfterKill, env, CaptureInv, VerdictInv, Terminating
<1>2. CASE child = "running"
  <2>1. AbstractProcess = "running" /\ AbstractAnswer = "none" /\ result.outcome = "none"
    BY <1>1, <1>2, ProcessIs DEF Capturing, Terminating
  <2>2. child' = "dying" /\ death' = "terminated"
    BY <1>2 DEF Kill
  <2>3. AbstractProcess' = "killed" /\ AbstractAnswer' = "none"
    BY <1>1, <2>1, <2>2 DEF AbstractProcess, AbstractAnswer
  <2> QED
    BY <1>1, <2>1, <2>3 DEF Promise!Kill, UseThreads
<1>3. CASE child # "running"
  BY <1>1, <1>3, Quiet DEF Kill
<1> QED
  BY <1>2, <1>3

\* The report is one of the three promised answers.
LEMMA CollectIsAnswer ==
    ASSUME CaptureInv, Collect
    PROVE  \/ Promise!Complete \/ Promise!TimeOut \/ Promise!BeatTheKill
           \/ Promise!MissTheEnd \/ Promise!Leave
<1> USE DEF Capturing, Threaded, Polled, Terminating, InRun, Reported
<1>1. /\ pc = "collect" /\ pc' = "done"
      /\ UNCHANGED <<is16, host, expired, child, death, killedBy, leftOrphan>>
      /\ result'.outcome = "report" /\ result'.stillActive = leftOrphan
      /\ ~leftOrphan => result'.timedOut = (Attributed \in {"timeout", "ctrl_break"})
  <2>1. leftOrphan \in BOOLEAN
    BY DEF CaptureInv, TypeOK
  <2>2. pc = "collect" /\ pc' = "done"
        /\ UNCHANGED <<is16, host, expired, child, death, killedBy, leftOrphan>>
    BY DEF Collect, Goto, env, fate
  <2>3. CASE leftOrphan
    <3>1. leftOrphan = TRUE
      BY <2>1, <2>3
    <3>2. result' = [outcome |-> "report", timedOut |-> FALSE,
                     stillActive |-> TRUE, killedBy |-> "none"]
      BY <2>3 DEF Collect
    <3>3. result'.outcome = "report" /\ result'.stillActive = TRUE
      BY <3>2
    <3> QED
      BY <2>2, <2>3, <3>1, <3>3
  <2>4. CASE ~leftOrphan
    <3>1. leftOrphan = FALSE
      BY <2>1, <2>4
    <3>2. result' = [outcome |-> "report", stillActive |-> FALSE,
                     timedOut |-> Attributed \in {"timeout", "ctrl_break"},
                     killedBy |-> Attributed]
      BY <2>4 DEF Collect
    <3>3. /\ result'.outcome = "report" /\ result'.stillActive = FALSE
          /\ result'.timedOut = (Attributed \in {"timeout", "ctrl_break"})
      BY <3>2, Zenon
    <3> QED
      BY <2>2, <3>1, <3>3, Zenon
  <2> QED
    BY <2>3, <2>4
<1>2. Attributed \in {"timeout", "ctrl_break"} <=> killedBy # "none"
  BY DEF Attributed, CaptureInv, TypeOK
<1>3. AbstractAnswer = "none" /\ result.outcome = "none"
  BY <1>1, ProcessIs
<1>4. AbstractProcess' = AbstractProcess
  BY <1>1, <1>3 DEF AbstractProcess
<1>5. /\ leftOrphan => expired /\ is16 /\ killedBy = "none"
      /\ killedBy # "none" => expired /\ ~is16 /\ child \in {"dying", "exited"}
      /\ leftOrphan \/ killedBy # "none" \/ child = "exited"
  BY <1>1 DEF CaptureInv, VerdictInv
<1>6. /\ child \in {"running", "dying", "exited"}
      /\ killedBy = "none" /\ child = "exited" => death \in {"self", "late"}
      /\ UseThreads /\ killedBy # "none" => death # "self"
      /\ killedBy = "none" => child # "dying"
  BY <1>1 DEF CaptureInv, FateInv, TypeOK
<1>10. UNCHANGED <<host, UseThreads>>
  BY DEF Collect, env, UseThreads
<1>7. CASE leftOrphan
  <2>1. AbstractProcess \in {"running", "ended", "overran"}
    BY <1>1, <1>5, <1>6, <1>7, ProcessIs
  <2>2. AbstractAnswer' = "left_running"
    BY <1>1, <1>7 DEF AbstractAnswer
  <2> QED
    BY <1>1, <1>3, <1>4, <1>5, <1>7, <2>1, <2>2 DEF Promise!Leave, UseThreads
<1>8. CASE ~leftOrphan /\ killedBy # "none"
  <2>1. /\ AbstractProcess \in {"ended", "overran", "killed"}
        /\ AbstractProcess = "ended" => ~UseThreads
    BY <1>1, <1>5, <1>6, <1>8, ProcessIs
  <2>2. AbstractAnswer' = "timed_out"
    BY <1>1, <1>2, <1>8 DEF AbstractAnswer
  <2> QED
    BY <1>1, <1>3, <1>4, <1>5, <1>8, <1>10, <2>1, <2>2
       DEF Promise!TimeOut, Promise!BeatTheKill, Promise!MissTheEnd, UseThreads
<1>9. CASE ~leftOrphan /\ killedBy = "none"
  <2>1. AbstractProcess \in {"ended", "overran"}
    BY <1>1, <1>5, <1>6, <1>9, ProcessIs
  <2>2. AbstractAnswer' = "completed"
    BY <1>1, <1>2, <1>9 DEF AbstractAnswer
  <2> QED
    BY <1>1, <1>3, <1>4, <2>1, <2>2 DEF Promise!Complete, UseThreads
<1> QED
  BY <1>7, <1>8, <1>9

\* A child that ends by itself, by its job's limit or by the break, ends or is killed; one
\* that was terminated already counts as killed.
LEMMA EndIsEnd ==
    ASSUME CaptureInv,
           \/ \E code \in {"zero", "nonzero", "quota", "still_active"} : ChildExits(code)
           \/ CpuLimitKills \/ BreakEndsChild
    PROVE  Promise!End \/ Promise!Kill
<1> USE DEF Capturing, Threaded, Polled, Terminating
<1>1. /\ child = "running" /\ child' = "exited" /\ pc # "done"
      /\ UNCHANGED <<is16, host, UseThreads, expired, result, pc>>
      /\ death' = ByItself \/ (pc = "grace" /\ death' = "ctrl_break")
  BY DEF ChildExits, CpuLimitKills, BreakEndsChild, Running, Ends, env, verdict, UseThreads
<1>2. pc \in Capturing \cup {"feed"}
  BY <1>1 DEF CaptureInv, FateInv, TypeOK, ServerSteps
<1>3. AbstractProcess = "running" /\ AbstractAnswer = "none" /\ result.outcome = "none"
  BY <1>1, <1>2, ProcessIs
<1>4. AbstractAnswer' = "none"
  BY <1>1, <1>3 DEF AbstractAnswer
<1>5. CASE death' = ByItself
  <2>1. AbstractProcess' = IF expired THEN "overran" ELSE "ended"
    BY <1>1, <1>2, <1>3, <1>5 DEF AbstractProcess, ByItself
  <2> QED
    BY <1>1, <1>3, <1>4, <2>1 DEF Promise!End, UseThreads
<1>6. CASE pc = "grace" /\ death' = "ctrl_break"
  <2>1. AbstractProcess' = "killed"
    BY <1>1, <1>3, <1>6 DEF AbstractProcess
  <2>2. expired /\ ~is16
    BY <1>6 DEF CaptureInv, VerdictInv
  <2> QED
    BY <1>1, <1>3, <1>4, <2>1, <2>2 DEF Promise!Kill, UseThreads
<1> QED
  BY <1>1, <1>5, <1>6

\* The end of a terminated child was promised by its kill.
LEMMA DeathIsHidden ==
    ASSUME CaptureInv, ChildDies
    PROVE  UNCHANGED Promise!vars
<1>1. /\ child = "dying" /\ child' = "exited" /\ death = "terminated"
      /\ UNCHANGED <<is16, host, expired, result, pc, death>>
  BY DEF ChildDies, Ends, env, verdict, CaptureInv, FateInv
<1> QED
  BY <1>1 DEF Promise!vars, AbstractProcess, AbstractAnswer, UseThreads

\* The timer's expiry is the promised deadline.
LEMMA ExpireIsDeadline ==
    ASSUME CaptureInv, Expire
    PROVE  Promise!Deadline
<1>1. /\ "process" \in handles /\ pc \notin {"job", "feed", "done"} /\ expired' = TRUE
      /\ UNCHANGED <<is16, host, child, death, pc, result>>
  BY DEF Expire, env, fate, verdict
<1>2. pc \in Capturing
  BY <1>1 DEF CaptureInv, HandleInv, TypeOK, ServerSteps, PipeEnds,
              Capturing, Threaded, Polled, Terminating
<1>3. AbstractProcess # "unborn" /\ AbstractAnswer = "none"
  BY <1>1, <1>2, ProcessIs
<1>4. AbstractProcess' = AbstractProcess /\ AbstractAnswer' = AbstractAnswer
  BY <1>1 DEF AbstractProcess, AbstractAnswer
<1> QED
  BY <1>1, <1>3, <1>4 DEF Promise!Deadline, UseThreads

\* Every step of a run is a step of the promise, or is not seen by it.
LEMMA StepIsPromised ==
    ASSUME CaptureInv, [Next]_vars
    PROVE  [Promise!Next]_(Promise!vars)
<1>1. CASE CreatePipes \/ IsolateParentEnds \/ FeedStdin \/ Pump \/ CheckExit \/ CheckTimeout
           \/ FinalDrain \/ StartReaders \/ WaitChild \/ Reap \/ JoinReader \/ SendBreak \/ GraceWait
  <2>1. pc # "failSpawn" /\ pc' # "failSpawn"
        /\ UNCHANGED <<is16, host, expired, result, child, death>>
    BY <1>1 DEF CreatePipes, IsolateParentEnds, FeedStdin, Pump, CheckExit, CheckTimeout,
         FinalDrain, StartReaders, WaitChild, Reap, JoinReader, SendBreak, GraceWait,
         BeginTerminate, AfterKill, Goto, env, fate, verdict
  <2> QED
    BY <2>1, Quiet
<1>2. CASE \/ \E s \in Streams : ReaderReads(s) \/ ReaderEnds(s) \/ ChildWrites(s)
           \/ ChildForks \/ HeirExits \/ UNCHANGED vars
  <2>1. UNCHANGED <<is16, host, expired, result, child, death, pc>>
    BY <1>2 DEF ReaderReads, ReaderEnds, ChildWrites, ChildForks, HeirExits, vars, env, fate, verdict
  <2> QED
    BY <2>1 DEF Promise!vars, AbstractProcess, AbstractAnswer, UseThreads
<1>3. CASE Spawn \/ AssignJob \/ Fail \/ Kill \/ Collect
  BY <1>3, SpawnIsStart, AssignIsStart, FailIsRefuse, KillIsKill, CollectIsAnswer DEF Promise!Next, UseThreads
<1>4. CASE \/ \E code \in {"zero", "nonzero", "quota", "still_active"} : ChildExits(code)
           \/ CpuLimitKills \/ BreakEndsChild
  BY <1>4, EndIsEnd DEF Promise!Next, UseThreads
<1>5. CASE ChildDies \/ Expire
  BY <1>5, DeathIsHidden, ExpireIsDeadline DEF Promise!Next, UseThreads
<1> QED
  BY <1>1, <1>2, <1>3, <1>4, <1>5 DEF Next, Server, Child, RunOver

\* KeepsPromise: ExecOpRun implements ExecPromise; a child runs once, is killed only past
\* its deadline and never when it is 16-bit, and the answer agrees with how it stands: a
\* child reported as timed out was killed, or ended by itself after its deadline, or, on
\* a host that polls, ended in time without the last poll seeing it.
THEOREM PromiseIsKept == Spec => KeepsPromise
<1>1. Init => Promise!Init
  BY DEF Init, Promise!Init, AbstractProcess, AbstractAnswer, NoResult
<1>2. CaptureInv /\ [Next]_vars => [Promise!Next]_(Promise!vars)
  BY StepIsPromised
<1> QED
  BY <1>1, <1>2, CaptureCorrect, PTL DEF Spec, KeepsPromise, Promise!Spec
=============================================================================
