--------------------------- MODULE ExecDomainProofs ---------------------------
(***************************************************************************)
(* Proofs about ExecDomain and PtyExec for any number of requests, with and  *)
(* without pseudo consoles, any pipe and buffer and either Windows.  The     *)
(* server holds the orphan's handle and no other, so the poll at the head of *)
(* every request sees the only child that can still be running; told step by *)
(* step, a pseudo-console run gives back all it took, and is one request of  *)
(* ExecDomain.                                                               *)
(***************************************************************************)
EXTENDS PtyExec, TLAPS

\* The orphan is a request already handled; a request to come has no child.
DomainInv ==
    /\ TypeOK
    /\ orphan # NoOrphan => orphan \in 1..handled
    /\ \A r \in Requests : r > handled => proc[r] = "none"
    /\ OnlyOrphanHandle
    /\ OnlyOrphanRuns

\* A request that passes the poll finds no child running and drops the handle.
LEMMA PollFindsNone ==
    ASSUME DomainInv, ~Blocked
    PROVE  /\ \A q \in Requests : proc[q] # "running"
           /\ StillOpen = {}
<1>1. \A q \in Requests : q # NoOrphan
  BY DomainAssumption DEF Requests, NoOrphan
<1>2. \A q \in Requests : proc[q] # "running"
  BY <1>1 DEF DomainInv, Blocked, ReadsStillActive, OnlyOrphanRuns
<1>3. StillOpen = {}
  BY DEF DomainInv, OnlyOrphanHandle, StillOpen
<1> QED
  BY <1>2, <1>3

\* Every step of the domain keeps the invariant.
LEMMA DomainStep ==
    ASSUME DomainInv, [Next]_vars
    PROVE  DomainInv'
<1>1. ASSUME Request
      PROVE  DomainInv'
  <2> DEFINE r == handled + 1
  <2>0. handled \in Nat /\ handled < MaxRequests
    <3>1. handled < MaxRequests
      BY <1>1 DEF Request
    <3>2. handled \in 0..MaxRequests
      BY DEF DomainInv, TypeOK
    <3> QED
      BY <3>1, <3>2, DomainAssumption
  <2>1. r \in Requests /\ r = handled + 1 /\ handled \in Nat /\ proc[r] = "none"
        /\ r \in 0..MaxRequests /\ r # NoOrphan
        /\ \A q \in Requests : q > r => q > handled /\ q # r
    BY <2>0, DomainAssumption DEF DomainInv, Requests, NoOrphan
  <2>6. Busy(r) \/ Refuse(r) \/ LeaveOrphan(r) \/ GiveUp(r)
        \/ \E isPty, is16, late \in BOOLEAN : RunToEnd(r, isPty, is16, late)
    BY <1>1 DEF Request
  <2> HIDE DEF r
  <2>2. CASE Busy(r)
    <3>1. TypeOK'
      BY <2>1, <2>2, DomainAssumption DEF Busy, Answer, DomainInv, TypeOK, Requests
    <3> QED
      BY <2>1, <2>2, <3>1
         DEF Busy, Answer, DomainInv, OnlyOrphanHandle, OnlyOrphanRuns, Requests
  <2>3. CASE Refuse(r)
    <3>1. \A q \in Requests : proc[q] # "running"
      BY <2>3, PollFindsNone DEF Refuse
    <3>2. open' = {} /\ orphan' = NoOrphan /\ handled' = r
      BY <2>3, PollFindsNone DEF Refuse, Answer
    <3>3. TypeOK'
      BY <2>1, <2>3, <3>2, DomainAssumption
         DEF Refuse, Answer, DomainInv, TypeOK, Requests
    <3> QED
      BY <2>1, <2>3, <3>1, <3>2, <3>3
         DEF Refuse, DomainInv, OnlyOrphanHandle, OnlyOrphanRuns, Requests
  <2>4. ASSUME NEW isPty \in BOOLEAN, NEW is16 \in BOOLEAN, NEW late \in BOOLEAN,
               RunToEnd(r, isPty, is16, late)
        PROVE  DomainInv'
    <3>1. \A q \in Requests : proc[q] # "running"
      BY <2>4, PollFindsNone DEF RunToEnd
    <3>2. open' = {} /\ orphan' = NoOrphan /\ handled' = r
          /\ proc' = [proc EXCEPT ![r] = "ended"]
      BY <2>4, PollFindsNone DEF RunToEnd, Answer
    <3>3. ended259' = ended259
      BY <2>4 DEF RunToEnd
    <3>4. reply' \in [Requests -> {"none", "busy", "refused", "ok", "timed out"}]
      BY <2>1, <2>4 DEF RunToEnd, Answer, DomainInv, TypeOK
    <3>5. TypeOK'
      BY <2>1, <3>2, <3>3, <3>4, DomainAssumption
         DEF DomainInv, TypeOK, Requests
    <3> QED
      BY <2>1, <3>1, <3>2, <3>5
         DEF DomainInv, TypeOK, OnlyOrphanHandle, OnlyOrphanRuns, Requests
  <2>5. CASE LeaveOrphan(r)
    <3>1. \A q \in Requests : proc[q] # "running"
      BY <2>5, PollFindsNone DEF LeaveOrphan
    <3>2. open' = {r} /\ orphan' = r /\ handled' = r
          /\ proc' = [proc EXCEPT ![r] = "running"]
      BY <2>5, PollFindsNone DEF LeaveOrphan, Answer
    <3>3. TypeOK'
      BY <2>1, <2>5, <3>2, DomainAssumption
         DEF LeaveOrphan, Answer, DomainInv, TypeOK, Requests
    <3>4. \A q \in Requests : proc'[q] = IF q = r THEN "running" ELSE proc[q]
      BY <3>2 DEF DomainInv, TypeOK
    <3>5. OnlyOrphanHandle' /\ OnlyOrphanRuns'
      BY <2>1, <3>1, <3>2, <3>4 DEF OnlyOrphanHandle, OnlyOrphanRuns
    <3>6. \A q \in Requests : q > handled' => proc'[q] = "none"
      BY <2>1, <3>2, <3>4 DEF DomainInv
    <3>7. orphan' \in 1..handled'
      BY <2>1, <3>2
    <3> QED
      BY <3>3, <3>5, <3>6, <3>7 DEF DomainInv
  <2>7. ASSUME NEW state \in {"dying", "ended"},
               GiveUp(r), proc' = [proc EXCEPT ![r] = state]
        PROVE  DomainInv'
    <3>1. \A q \in Requests : proc[q] # "running"
      BY <2>7, PollFindsNone DEF GiveUp
    <3>2. open' = {} /\ orphan' = NoOrphan /\ handled' = r
          /\ proc' = [proc EXCEPT ![r] = state]
      BY <2>7, PollFindsNone DEF GiveUp, Answer
    <3>3. ended259' = ended259
      BY <2>7 DEF GiveUp
    <3>4. reply' \in [Requests -> {"none", "busy", "refused", "ok", "timed out"}]
      BY <2>1, <2>7 DEF GiveUp, Answer, DomainInv, TypeOK
    <3>5. TypeOK'
      BY <2>1, <3>2, <3>3, <3>4, DomainAssumption
         DEF DomainInv, TypeOK, Requests
    <3> QED
      BY <2>1, <3>1, <3>2, <3>5
         DEF DomainInv, TypeOK, OnlyOrphanHandle, OnlyOrphanRuns, Requests
  <2> QED
    BY <2>2, <2>3, <2>4, <2>5, <2>6, <2>7 DEF GiveUp
<1>2. ASSUME NEW r \in Requests, ChildEnds(r)
      PROVE  DomainInv'
  <2>1. proc' = [proc EXCEPT ![r] = "ended"]
    BY <1>2 DEF ChildEnds
  <2>2. TypeOK'
    BY <1>2, <2>1 DEF ChildEnds, DomainInv, TypeOK
  <2> QED
    BY <1>2, <2>1, <2>2
       DEF ChildEnds, DomainInv, TypeOK, OnlyOrphanHandle, OnlyOrphanRuns
<1>3. CASE UNCHANGED vars
  BY <1>3 DEF vars, DomainInv, TypeOK, OnlyOrphanHandle, OnlyOrphanRuns
<1> QED
  BY <1>1, <1>2, <1>3 DEF Next

\* The inductive invariant of the busy domain, for any number of requests.
THEOREM DomainCorrect == Spec => []DomainInv
<1>1. Init => DomainInv
  BY DomainAssumption
     DEF Init, DomainInv, TypeOK, OnlyOrphanHandle, OnlyOrphanRuns, NoOrphan, Requests
<1>2. DomainInv /\ [Next]_vars => DomainInv'
  BY DomainStep
<1> QED
  BY <1>1, <1>2, PTL DEF Spec

\* OnlyOrphanHandle: no process handle outlives its request but the orphan's.
THEOREM HandleKept == Spec => []OnlyOrphanHandle
<1>1. DomainInv => OnlyOrphanHandle
  BY DEF DomainInv
<1> QED
  BY <1>1, DomainCorrect, PTL

\* OnlyOrphanRuns: every other child has ended when its request is answered.
THEOREM OrphanAloneRuns == Spec => []OnlyOrphanRuns
<1>1. DomainInv => OnlyOrphanRuns
  BY DEF DomainInv
<1> QED
  BY <1>1, DomainCorrect, PTL

\* AdmissionIsExclusive: nothing is spawned beside a child still running.
THEOREM Exclusive == Spec => AdmissionIsExclusive
<1>1. DomainInv /\ [Next]_vars =>
        [\A r \in Requests : proc[r] = "none" /\ proc'[r] # "none" =>
           \A q \in Requests : proc[q] # "running"]_vars
  <2> SUFFICES ASSUME DomainInv, Next, NEW r \in Requests,
                      proc[r] = "none", proc'[r] # "none"
               PROVE  \A q \in Requests : proc[q] # "running"
    OBVIOUS
  <2>1. ~Blocked
    <3>1. CASE Request
      BY <3>1 DEF Request, Busy, Refuse, RunToEnd, LeaveOrphan, GiveUp
    <3>2. ASSUME NEW q \in Requests, ChildEnds(q)
          PROVE  FALSE
      BY <3>2 DEF ChildEnds, DomainInv, TypeOK
    <3> QED
      BY <3>1, <3>2 DEF Next
  <2> QED
    BY <2>1, PollFindsNone
<1> QED
  BY <1>1, DomainCorrect, PTL DEF Spec, AdmissionIsExclusive

-----------------------------------------------------------------------------
(* PtyExec: the invariant of a run told step by step *)

\* What a run with a reader has to close when its console is gone.
Kept == {"attr", "cmd", "process", "thread", "reader", "inWr", "outRd"}

\* Between requests the busy domain is as DomainInv says and no run is left over.  During
\* a run the poll has cleared the domain, and only the run's own child may be running.
RunInv ==
    /\ pc = "idle" => DomainInv /\ reaped = NoOrphan /\ console = "none" /\ reader = "none"
    /\ pc # "idle" =>
         /\ handled < MaxRequests /\ HasPty
         /\ orphan = NoOrphan /\ open = {}
         /\ reaped \in 0..handled
         /\ reaped # NoOrphan => proc[reaped] \notin {"running", "dying"} /\ reaped \notin ended259
         /\ \A r \in Requests : r > Current => proc[r] = "none"
         /\ \A r \in Requests : proc[r] = "running" => r = Current

\* What the run holds is what its variables name, and is determined by where it is.
ResourceInv ==
    /\ locals = held /\ ~misclosed
    /\ pc \in {"idle", "pipes"} => held = {}
    /\ pc = "console" => held = Pipes
    /\ pc = "prepare" => held = {"inWr", "outRd", "hPC"}
    /\ pc = "spawn" => held = {"inWr", "outRd", "hPC", "attr", "cmd"}
    /\ pc = "reader" => held = (Kept \ {"reader"}) \cup {"hPC"}
    /\ pc \in {"wait", "reap"} => held = Kept \cup {"hPC"}
    /\ pc = "close" => "hPC" \in held /\ ("reader" \in held => held = Kept \cup {"hPC"})
    /\ pc = "closing" => ("reader" \in held => held = Kept)
    /\ pc \in {"join", "collect"} => held = Kept

\* The child, the console and the reader, by where the run is.
PhaseInv ==
    /\ pc \in {"pipes", "console", "prepare", "spawn"} => Child = "none"
    /\ pc \in {"close", "closing", "join", "collect", "release"} =>
         /\ Child # "running"
         /\ "reader" \in held => Child = "ended"
    /\ pc \in {"pipes", "console", "prepare", "spawn", "reader", "wait", "reap", "close"} =>
         console \notin {"closing", "gone"}
    /\ reader = "ended" => console = "gone" /\ output = 0
    /\ pc = "collect" => reader = "ended"

\* Every unit written is in the pipe, in the buffer, or was counted as cut off.
OutputInv ==
    /\ output <= written
    /\ captured = Lesser(written - output, BufSize)
    /\ truncated = (written - output > BufSize)

PtyInv ==
    /\ TypeOK /\ PtyTypeOK
    /\ RunInv
    /\ ResourceInv
    /\ PhaseInv
    /\ OutputInv

-----------------------------------------------------------------------------
(* Facts about a run *)

\* The constants as numbers.
LEMMA SizesAreNat == PipeCap \in Nat /\ BufSize \in Nat
BY PtyAssumption

\* A run starts with nothing written and nothing cut off.
LEMMA EmptyFits ==
    /\ 0 \in Nat /\ 0 \in 0..PipeCap /\ 0 \in 0..BufSize
    /\ 0 <= 0 /\ 0 = Lesser(0 - 0, BufSize) /\ FALSE = (0 - 0 > BufSize)
BY SizesAreNat DEF Lesser

\* The request a run serves, and its child.
LEMMA RequestFacts ==
    ASSUME PtyInv, pc # "idle"
    PROVE  /\ handled \in Nat /\ Current \in Requests /\ Current # NoOrphan
           /\ Current \in 0..MaxRequests
           /\ \A r \in Requests : r \in Nat /\ r # NoOrphan
           /\ Child \in {"none", "running", "dying", "ended"}
           /\ reaped # Current
<1>1. handled \in Nat /\ handled < MaxRequests /\ MaxRequests \in Nat
  <2>1. handled < MaxRequests
    BY DEF PtyInv, RunInv
  <2>2. handled \in 0..MaxRequests
    BY DEF PtyInv, TypeOK
  <2> QED
    BY <2>1, <2>2, DomainAssumption
<1>2. Current \in Requests /\ Current # NoOrphan /\ Current \in 0..MaxRequests
  BY <1>1 DEF Current, Requests, NoOrphan
<1>3. \A r \in Requests : r \in Nat /\ r # NoOrphan
  BY <1>1 DEF Requests, NoOrphan
<1>4. Child \in {"none", "running", "dying", "ended"}
  BY <1>2 DEF PtyInv, TypeOK, Child
<1>5. reaped # Current
  <2>1. reaped \in 0..handled
    BY DEF PtyInv, RunInv
  <2> QED
    BY <1>1, <2>1 DEF Current
<1> QED
  BY <1>1, <1>2, <1>3, <1>4, <1>5

\* A step inside a run that leaves the domain alone, but for the run's own child.
LEMMA RunKept ==
    ASSUME PtyInv, pc # "idle", pc' # "idle",
           UNCHANGED <<domain, reaped>>,
           NEW state \in {"none", "running", "dying", "ended"},
           proc' = [proc EXCEPT ![Current] = state]
    PROVE  TypeOK' /\ RunInv' /\ Child' = state
<1>1. TypeOK'
  BY RequestFacts DEF PtyInv, TypeOK, domain
<1>2. \A r \in Requests : proc'[r] = IF r = Current THEN state ELSE proc[r]
  BY RequestFacts DEF PtyInv, TypeOK
<1>3. Current' = Current /\ UNCHANGED <<handled, orphan, open, ended259, reaped>>
  BY DEF Current, domain
<1>4. RunInv'
  <2>1. reaped # NoOrphan => reaped \in Requests /\ reaped # Current
    BY RequestFacts DEF PtyInv, RunInv, PtyTypeOK, Current, Requests
  <2>2. \A r \in Requests : r > Current => r # Current
    BY RequestFacts
  <2> QED
    BY <1>2, <1>3, <2>1, <2>2 DEF PtyInv, RunInv
<1> QED
  BY <1>1, <1>2, <1>3, <1>4, RequestFacts DEF Child

\* A step that leaves the domain alone keeps what holds of it.
LEMMA RunQuiet ==
    ASSUME PtyInv, pc # "idle", pc' # "idle", UNCHANGED <<domain, reaped, proc>>
    PROVE  TypeOK' /\ RunInv' /\ Child' = Child
<1>1. proc' = [proc EXCEPT ![Current] = Child]
  BY RequestFacts DEF PtyInv, TypeOK, Child
<1> QED
  BY <1>1, RequestFacts, RunKept

\* The answer of a run that holds nothing any more and whose child does not run.
LEMMA ReturnKeeps ==
    ASSUME PtyInv, pc # "idle", NEW text \in {"refused", "ok", "timed out"}, Return(text),
           Child # "running", locals' = {}, held' = {}, misclosed' = FALSE
    PROVE  PtyInv'
<1>1. /\ handled' = Current /\ reply' = [reply EXCEPT ![Current] = text]
      /\ UNCHANGED <<orphan, open, proc, ended259, waits>>
  BY DEF Return, Answer
<1>2. TypeOK'
  BY <1>1, RequestFacts DEF PtyInv, TypeOK
<1>3. PtyTypeOK'
  <2>1. waits' \in CloseWaits
    BY <1>1 DEF PtyInv, PtyTypeOK
  <2>2. output' \in 0..PipeCap /\ captured' \in 0..BufSize /\ written' \in Nat
    <3>1. output' = 0 /\ captured' = 0 /\ written' = 0
      BY DEF Return
    <3> QED
      BY <3>1, EmptyFits, Zenon
  <2>3. pc' \in Steps /\ reaped' \in Requests \cup {NoOrphan}
    BY DEF Return, Steps
  <2>4. truncated' \in BOOLEAN /\ expired' \in BOOLEAN /\ timedOut' \in BOOLEAN
    BY DEF Return
  <2>5. /\ console' \in {"none", "alive", "closing", "gone"}
        /\ reader' \in {"none", "running", "ended"}
    BY DEF Return
  <2> QED
    BY <2>1, <2>2, <2>3, <2>4, <2>5 DEF PtyTypeOK
<1>4. DomainInv'
  <2>1. \A r \in Requests : proc[r] # "running"
    BY DEF PtyInv, RunInv, Child
  <2>2. orphan' = NoOrphan /\ open' = {}
    BY <1>1 DEF PtyInv, RunInv
  <2>3. \A r \in Requests : r > handled' => proc'[r] = "none"
    BY <1>1 DEF PtyInv, RunInv
  <2> QED
    BY <1>1, <1>2, <2>1, <2>2, <2>3 DEF DomainInv, OnlyOrphanHandle, OnlyOrphanRuns
<1>5. RunInv'
  BY <1>4 DEF RunInv, Return
<1>6. ResourceInv' /\ PhaseInv'
  BY DEF Return, ResourceInv, PhaseInv
<1>7. OutputInv'
  <2>1. written' = 0 /\ output' = 0 /\ captured' = 0 /\ truncated' = FALSE
    BY DEF Return
  <2> QED
    BY <2>1, EmptyFits, Zenon DEF OutputInv
<1> QED
  BY <1>2, <1>3, <1>5, <1>6, <1>7 DEF PtyInv

-----------------------------------------------------------------------------
(* Each step of PtyExec keeps the invariant *)

LEMMA IdleKeeps ==
    ASSUME PtyInv, pc = "idle", [Next]_vars, UNCHANGED ptyVars
    PROVE  PtyInv'
<1>1. DomainInv'
  BY DomainStep DEF PtyInv, RunInv
<1>2. PtyTypeOK' /\ ResourceInv' /\ OutputInv'
  BY DEF PtyInv, PtyTypeOK, ResourceInv, OutputInv, ptyVars, own, run, flow
<1>3. RunInv' /\ PhaseInv'
  BY <1>1 DEF PtyInv, RunInv, PhaseInv, ptyVars, own, run, flow
<1> QED
  BY <1>1, <1>2, <1>3 DEF PtyInv, DomainInv

LEMMA EnterKeeps ==
    ASSUME PtyInv, Enter
    PROVE  PtyInv'
<1>1. /\ pc = "idle" /\ handled < MaxRequests /\ ~Blocked /\ HasPty
      /\ reaped' = orphan /\ orphan' = NoOrphan /\ open' = StillOpen /\ pc' = "pipes"
      /\ UNCHANGED <<handled, proc, ended259, reply, waits, own, run, flow>>
  BY DEF Enter
<1>2. DomainInv /\ console = "none" /\ reader = "none" /\ held = {}
  BY <1>1 DEF PtyInv, RunInv, ResourceInv
<1>3. open' = {} /\ \A q \in Requests : proc[q] # "running"
  BY <1>1, <1>2, PollFindsNone
<1>4. handled \in Nat /\ Current \in Requests /\ Current > handled
  <2>1. handled \in 0..MaxRequests /\ handled < MaxRequests
    BY <1>1, <1>2 DEF DomainInv, TypeOK
  <2> QED
    BY <2>1, DomainAssumption DEF Current, Requests
<1>5. TypeOK' /\ PtyTypeOK'
  BY <1>1, <1>2, <1>3
     DEF PtyInv, PtyTypeOK, DomainInv, TypeOK, own, run, flow, Steps
<1>6. RunInv'
  <2>1. Current' = Current /\ \A r \in Requests : r > Current => proc[r] = "none"
    BY <1>1, <1>2, <1>4 DEF Current, DomainInv, Requests
  <2>2. orphan # NoOrphan => proc[orphan] \notin {"running", "dying"} /\ orphan \notin ended259
    BY <1>1 DEF Blocked, ReadsStillActive
  <2>3. orphan \in 0..handled
    BY <1>2, <1>4 DEF DomainInv, NoOrphan
  <2> QED
    BY <1>1, <1>3, <2>1, <2>2, <2>3 DEF RunInv
<1>7. ResourceInv' /\ OutputInv'
  BY <1>1, <1>2 DEF PtyInv, ResourceInv, OutputInv, own, flow
<1>8. PhaseInv'
  <2>1. Child' = "none"
    BY <1>1, <1>2, <1>4 DEF Child, Current, DomainInv
  <2> QED
    BY <1>1, <1>2, <2>1 DEF PhaseInv, run, own
<1> QED
  BY <1>5, <1>6, <1>7, <1>8 DEF PtyInv

LEMMA CreatePipesKeeps ==
    ASSUME PtyInv, CreatePipes
    PROVE  PtyInv'
<1>1. pc = "pipes"
  BY DEF CreatePipes
<1>2. ASSUME Open(Pipes), Goto("console"), UNCHANGED <<domain, proc, run, flow>>
      PROVE  PtyInv'
  <2>1. TypeOK' /\ RunInv' /\ Child' = Child
    BY <1>1, <1>2, RunQuiet DEF Goto
  <2>2. PtyTypeOK'
    BY <1>2 DEF PtyInv, PtyTypeOK, Open, Goto, run, flow, Steps, Resources
  <2>3. ResourceInv' /\ OutputInv'
    BY <1>1, <1>2 DEF PtyInv, ResourceInv, OutputInv, Open, Goto, flow
  <2>4. PhaseInv'
    BY <1>1, <1>2, <2>1 DEF PtyInv, PhaseInv, Goto, run, flow
  <2> QED
    BY <2>1, <2>2, <2>3, <2>4 DEF PtyInv
<1>3. CASE Return("refused") /\ UNCHANGED own
  <2>1. Child = "none" /\ held = {} /\ locals = {} /\ misclosed = FALSE
    BY <1>1, Zenon DEF PtyInv, ResourceInv, PhaseInv, PtyTypeOK
  <2>2. locals' = {} /\ held' = {} /\ misclosed' = FALSE
    BY <1>3, <2>1 DEF own
  <2> QED
    BY <1>1, <1>3, <2>1, <2>2, ReturnKeeps
<1> QED
  BY <1>2, <1>3 DEF CreatePipes

LEMMA CreateConsoleKeeps ==
    ASSUME PtyInv, CreateConsole
    PROVE  PtyInv'
<1>1. pc = "console" /\ UNCHANGED <<domain, proc, flow>> /\ UNCHANGED <<waits, reaped>>
      /\ pc' \in {"prepare", "release"}
  BY DEF CreateConsole, Goto
<1>2. TypeOK' /\ RunInv' /\ Child' = Child /\ Child = "none"
  BY <1>1, RunQuiet DEF PtyInv, PhaseInv
<1>3. PtyTypeOK'
  BY <1>1 DEF CreateConsole, Goto, PtyInv, PtyTypeOK, flow, own, run, Steps, Resources, Pipes
<1>4. ResourceInv' /\ OutputInv'
  BY <1>1 DEF CreateConsole, Goto, PtyInv, ResourceInv, OutputInv, flow, own, Pipes
<1>5. PhaseInv'
  BY <1>1, <1>2 DEF CreateConsole, Goto, PtyInv, PhaseInv, ResourceInv, flow, own, run, Pipes
<1> QED
  BY <1>2, <1>3, <1>4, <1>5 DEF PtyInv

LEMMA PrepareKeeps ==
    ASSUME PtyInv, Prepare
    PROVE  PtyInv'
<1>1. /\ pc = "prepare" /\ UNCHANGED <<domain, proc, run, flow>> /\ UNCHANGED <<waits, reaped>>
      /\ \/ Open({"attr", "cmd"}) /\ pc' = "spawn"
         \/ \E S \in {{}, {"attr"}} : Open(S) /\ pc' = "close"
  BY DEF Prepare, Goto
<1>2. TypeOK' /\ RunInv' /\ Child' = Child /\ Child = "none"
  BY <1>1, RunQuiet DEF PtyInv, PhaseInv
<1>3. PtyTypeOK'
  BY <1>1 DEF PtyInv, PtyTypeOK, Open, run, flow, Steps, Resources
<1>4. ResourceInv' /\ OutputInv'
  BY <1>1 DEF PtyInv, ResourceInv, OutputInv, Open, flow
<1>5. PhaseInv'
  BY <1>1, <1>2 DEF PtyInv, PhaseInv, ResourceInv, Open, run, flow
<1> QED
  BY <1>2, <1>3, <1>4, <1>5 DEF PtyInv

LEMMA SpawnKeeps ==
    ASSUME PtyInv, Spawn
    PROVE  PtyInv'
<1>1. pc = "spawn" /\ UNCHANGED <<domain, run, flow>>
  BY DEF Spawn
<1>2. ASSUME Open({"process", "thread"}), Goto("reader"),
             proc' = [proc EXCEPT ![Current] = "running"]
      PROVE  PtyInv'
  <2>1. TypeOK' /\ RunInv' /\ Child' = "running"
    BY <1>1, <1>2, RunKept DEF Goto
  <2>2. PtyTypeOK'
    BY <1>1, <1>2 DEF PtyInv, PtyTypeOK, Open, Goto, run, flow, Steps, Resources
  <2>3. ResourceInv' /\ OutputInv'
    BY <1>1, <1>2 DEF PtyInv, ResourceInv, OutputInv, Open, Goto, flow, Kept
  <2>4. PhaseInv'
    BY <1>1, <1>2, <2>1 DEF PtyInv, PhaseInv, Goto, run, flow
  <2> QED
    BY <2>1, <2>2, <2>3, <2>4 DEF PtyInv
<1>3. ASSUME Goto("close"), UNCHANGED <<own, proc>>
      PROVE  PtyInv'
  <2>1. TypeOK' /\ RunInv' /\ Child' = Child /\ Child = "none"
    BY <1>1, <1>3, RunQuiet DEF Goto, PtyInv, PhaseInv
  <2>2. PtyTypeOK' /\ ResourceInv' /\ OutputInv'
    BY <1>1, <1>3 DEF PtyInv, PtyTypeOK, ResourceInv, OutputInv, Goto, own, run, flow, Steps
  <2>3. PhaseInv'
    BY <1>1, <1>3, <2>1 DEF PtyInv, PhaseInv, ResourceInv, Goto, own, run, flow
  <2> QED
    BY <2>1, <2>2, <2>3 DEF PtyInv
<1> QED
  BY <1>2, <1>3 DEF Spawn

\* TerminateProcess leaves the child dying, or as it was when it did not run.
LEMMA TerminateIs ==
    ASSUME PtyInv, pc # "idle", Terminate
    PROVE  \E state \in {"none", "running", "dying", "ended"} :
             /\ proc' = [proc EXCEPT ![Current] = state]
             /\ state # "running" /\ (Child = "none" <=> state = "none")
BY RequestFacts DEF PtyInv, TypeOK, Terminate, Child

LEMMA StartReaderKeeps ==
    ASSUME PtyInv, StartReader
    PROVE  PtyInv'
<1>1. pc = "reader" /\ UNCHANGED <<domain, console, expired, timedOut, flow>>
  BY DEF StartReader
<1>2. ASSUME Open({"reader"}), reader' = "running", Goto("wait"), UNCHANGED proc
      PROVE  PtyInv'
  <2>1. TypeOK' /\ RunInv' /\ Child' = Child
    BY <1>1, <1>2, RunQuiet DEF Goto
  <2>2. PtyTypeOK'
    BY <1>1, <1>2 DEF PtyInv, PtyTypeOK, Open, Goto, flow, Steps, Resources
  <2>3. ResourceInv' /\ OutputInv'
    BY <1>1, <1>2 DEF PtyInv, ResourceInv, OutputInv, Open, Goto, flow, Kept
  <2>4. PhaseInv'
    BY <1>1, <1>2, <2>1 DEF PtyInv, PhaseInv, Goto
  <2> QED
    BY <2>1, <2>2, <2>3, <2>4 DEF PtyInv
<1>3. ASSUME Terminate, Goto("close"), UNCHANGED <<own, reader>>
      PROVE  PtyInv'
  <2>1. TypeOK' /\ RunInv' /\ Child' # "running"
    BY <1>1, <1>3, TerminateIs, RunKept DEF Goto
  <2>2. PtyTypeOK' /\ OutputInv'
    BY <1>1, <1>3 DEF PtyInv, PtyTypeOK, OutputInv, Goto, own, flow, Steps
  <2>3. ResourceInv' /\ "reader" \notin held'
    BY <1>1, <1>3 DEF PtyInv, ResourceInv, Goto, own, Kept
  <2>4. PhaseInv'
    BY <1>1, <1>3, <2>1, <2>3 DEF PtyInv, PhaseInv, Goto, flow
  <2> QED
    BY <2>1, <2>2, <2>3, <2>4 DEF PtyInv
<1> QED
  BY <1>2, <1>3 DEF StartReader

LEMMA WaitChildKeeps ==
    ASSUME PtyInv, WaitChild
    PROVE  PtyInv'
<1>1. pc = "wait" /\ UNCHANGED <<domain, own, console, reader, expired, flow>>
  BY DEF WaitChild
<1>2. ASSUME Child = "ended", Goto("close"), UNCHANGED <<proc, timedOut>>
      PROVE  PtyInv'
  <2>1. TypeOK' /\ RunInv' /\ Child' = "ended"
    BY <1>1, <1>2, RunQuiet DEF Goto
  <2>2. PtyTypeOK' /\ OutputInv'
    BY <1>1, <1>2 DEF PtyInv, PtyTypeOK, OutputInv, Goto, own, flow, Steps
  <2>3. ResourceInv'
    BY <1>1, <1>2 DEF PtyInv, ResourceInv, Goto, own
  <2>4. PhaseInv'
    BY <1>1, <1>2, <2>1 DEF PtyInv, PhaseInv, Goto, own, flow
  <2> QED
    BY <2>1, <2>2, <2>3, <2>4 DEF PtyInv
<1>3. ASSUME Terminate, timedOut' = TRUE, Goto("reap")
      PROVE  PtyInv'
  <2>1. TypeOK' /\ RunInv' /\ Child' # "running"
    BY <1>1, <1>3, TerminateIs, RunKept DEF Goto
  <2>2. PtyTypeOK' /\ OutputInv'
    BY <1>1, <1>3 DEF PtyInv, PtyTypeOK, OutputInv, Goto, own, flow, Steps
  <2>3. ResourceInv'
    BY <1>1, <1>3 DEF PtyInv, ResourceInv, Goto, own
  <2>4. PhaseInv'
    BY <1>1, <1>3, <2>1 DEF PtyInv, PhaseInv, Goto, own, flow
  <2> QED
    BY <2>1, <2>2, <2>3, <2>4 DEF PtyInv
<1> QED
  BY <1>2, <1>3, <1>1 DEF WaitChild

LEMMA ReapKeeps ==
    ASSUME PtyInv, Reap
    PROVE  PtyInv'
<1>1. pc = "reap" /\ Child = "ended" /\ Goto("close")
      /\ UNCHANGED <<domain, proc, own, run, flow>>
  BY DEF Reap
<1>2. TypeOK' /\ RunInv' /\ Child' = "ended"
  BY <1>1, RunQuiet DEF Goto
<1>3. PtyTypeOK' /\ OutputInv' /\ ResourceInv'
  BY <1>1 DEF PtyInv, PtyTypeOK, OutputInv, ResourceInv, Goto, own, run, flow, Steps
<1>4. PhaseInv'
  BY <1>1, <1>2 DEF PtyInv, PhaseInv, Goto, own, run, flow
<1> QED
  BY <1>2, <1>3, <1>4 DEF PtyInv

LEMMA ClosePCKeeps ==
    ASSUME PtyInv, ClosePC
    PROVE  PtyInv'
<1>1. /\ pc = "close" /\ Close({"hPC"}) /\ console' = "closing" /\ Goto("closing")
      /\ UNCHANGED <<domain, proc, reader, expired, timedOut, flow>>
  BY DEF ClosePC
<1>2. TypeOK' /\ RunInv' /\ Child' = Child
  BY <1>1, RunQuiet DEF Goto
<1>3. PtyTypeOK' /\ OutputInv'
  BY <1>1 DEF PtyInv, PtyTypeOK, OutputInv, Close, Goto, flow, Steps
<1>4. ResourceInv'
  BY <1>1 DEF PtyInv, ResourceInv, Close, Goto, Kept
<1>5. PhaseInv'
  BY <1>1, <1>2 DEF PtyInv, PhaseInv, Close, Goto, flow
<1> QED
  BY <1>2, <1>3, <1>4, <1>5 DEF PtyInv

LEMMA ClosePCReturnsKeeps ==
    ASSUME PtyInv, ClosePCReturns
    PROVE  PtyInv'
<1>1. /\ pc = "closing" /\ UNCHANGED <<domain, proc, own, run, flow>>
      /\ UNCHANGED <<waits, reaped>>
      /\ pc' = IF "reader" \in locals THEN "join" ELSE "release"
  BY DEF ClosePCReturns, Goto
<1>2. TypeOK' /\ RunInv' /\ Child' = Child
  BY <1>1, RunQuiet
<1>3. PtyTypeOK' /\ OutputInv'
  BY <1>1 DEF PtyInv, PtyTypeOK, OutputInv, own, run, flow, Steps
<1>4. ResourceInv' /\ PhaseInv'
  BY <1>1, <1>2 DEF PtyInv, ResourceInv, PhaseInv, own, run, flow
<1> QED
  BY <1>2, <1>3, <1>4 DEF PtyInv

LEMMA JoinReaderKeeps ==
    ASSUME PtyInv, JoinReader
    PROVE  PtyInv'
<1>1. pc = "join" /\ reader = "ended" /\ Goto("collect")
      /\ UNCHANGED <<domain, proc, own, run, flow>>
  BY DEF JoinReader
<1>2. TypeOK' /\ RunInv' /\ Child' = Child
  BY <1>1, RunQuiet DEF Goto
<1>3. PtyTypeOK' /\ OutputInv'
  BY <1>1 DEF PtyInv, PtyTypeOK, OutputInv, Goto, own, run, flow, Steps
<1>4. ResourceInv' /\ PhaseInv'
  BY <1>1, <1>2 DEF PtyInv, ResourceInv, PhaseInv, Goto, own, run, flow
<1> QED
  BY <1>2, <1>3, <1>4 DEF PtyInv

LEMMA CollectKeeps ==
    ASSUME PtyInv, Collect
    PROVE  PtyInv'
<1>1. pc = "collect" /\ Close(Kept) /\ Return(IF timedOut THEN "timed out" ELSE "ok")
  BY Zenon DEF Collect, Kept
<1>2. held = Kept /\ locals = held /\ ~misclosed /\ Child = "ended"
  BY <1>1 DEF PtyInv, ResourceInv, PhaseInv, Kept
<1>3. locals' = {} /\ held' = {} /\ misclosed' = FALSE
  BY <1>1, <1>2 DEF Close
<1>4. (IF timedOut THEN "timed out" ELSE "ok") \in {"refused", "ok", "timed out"}
  OBVIOUS
<1> QED
  BY <1>1, <1>2, <1>3, <1>4, ReturnKeeps

LEMMA ReleaseKeeps ==
    ASSUME PtyInv, Release
    PROVE  PtyInv'
<1>1. pc = "release" /\ Close(locals) /\ Return("refused")
  BY DEF Release
<1>2. locals = held /\ ~misclosed /\ Child # "running"
  BY <1>1 DEF PtyInv, ResourceInv, PhaseInv
<1>3. locals' = {} /\ held' = {} /\ misclosed' = FALSE
  BY <1>1, <1>2 DEF Close
<1> QED
  BY <1>1, <1>2, <1>3, ReturnKeeps

\* While the child runs, or the console closes, the reader cannot have ended.
LEMMA WriterWritesKeeps ==
    ASSUME PtyInv, reader # "ended", output < PipeCap,
           written' = written + 1, output' = output + 1, UNCHANGED <<captured, truncated>>
    PROVE  /\ OutputInv'
           /\ written' \in Nat /\ output' \in 0..PipeCap
<1>1. written \in Nat /\ output \in 0..PipeCap /\ output <= written
  BY DEF PtyInv, PtyTypeOK, OutputInv
<1>2. /\ written' - output' = written - output /\ output' <= written'
      /\ written' \in Nat /\ output' \in 0..PipeCap
  BY <1>1, SizesAreNat
<1> QED
  BY <1>2 DEF PtyInv, OutputInv

LEMMA ChildWritesKeeps ==
    ASSUME PtyInv, ChildWrites
    PROVE  PtyInv'
<1>1. /\ pc # "idle" /\ Child = "running" /\ output < PipeCap
      /\ written' = written + 1 /\ output' = output + 1
      /\ UNCHANGED <<vars, waits, pc, reaped, own, run, captured, truncated>>
  BY DEF ChildWrites, Running
<1>2. reader # "ended"
  BY <1>1 DEF PtyInv, PtyTypeOK, PhaseInv, Steps
<1>3. OutputInv' /\ written' \in Nat /\ output' \in 0..PipeCap
  BY <1>1, <1>2, WriterWritesKeeps
<1>4. TypeOK' /\ RunInv' /\ Child' = Child
  BY <1>1, RunQuiet DEF vars, domain
<1>5. PtyTypeOK' /\ ResourceInv'
  BY <1>1, <1>3 DEF PtyInv, PtyTypeOK, ResourceInv, own, run
<1>6. PhaseInv'
  BY <1>1, <1>2, <1>4 DEF PtyInv, PhaseInv, own, run
<1> QED
  BY <1>3, <1>4, <1>5, <1>6 DEF PtyInv

LEMMA ConsoleExitsKeeps ==
    ASSUME PtyInv, ConsoleExits
    PROVE  PtyInv'
<1>1. /\ console = "closing" /\ output < PipeCap /\ console' = "gone"
      /\ written' = written + 1 /\ output' = output + 1
      /\ UNCHANGED <<vars, waits, pc, reaped, own, reader, expired, timedOut, captured, truncated>>
  BY DEF ConsoleExits
<1>2. reader # "ended" /\ pc # "idle"
  BY <1>1 DEF PtyInv, PhaseInv, RunInv
<1>3. OutputInv' /\ written' \in Nat /\ output' \in 0..PipeCap
  BY <1>1, <1>2, WriterWritesKeeps
<1>4. TypeOK' /\ RunInv' /\ Child' = Child
  BY <1>1, <1>2, RunQuiet DEF vars, domain
<1>5. PtyTypeOK' /\ ResourceInv'
  BY <1>1, <1>3 DEF PtyInv, PtyTypeOK, ResourceInv, own
<1>6. PhaseInv'
  BY <1>1, <1>2, <1>4 DEF PtyInv, PhaseInv, own
<1> QED
  BY <1>3, <1>4, <1>5, <1>6 DEF PtyInv

LEMMA ReaderReadsKeeps ==
    ASSUME PtyInv, ReaderReads
    PROVE  PtyInv'
<1>1. /\ reader = "running" /\ output' = 0
      /\ captured' = Lesser(captured + output, BufSize)
      /\ truncated' = (truncated \/ output > BufSize - captured)
      /\ UNCHANGED <<vars, waits, pc, reaped, own, run, written>>
  BY DEF ReaderReads
<1>2. /\ pc # "idle"
      /\ written \in Nat /\ output \in Nat /\ captured \in Nat /\ output <= written
      /\ captured = Lesser(written - output, BufSize)
  BY <1>1, SizesAreNat DEF PtyInv, PtyTypeOK, OutputInv, RunInv
<1>3. captured' = Lesser(written, BufSize) /\ captured' \in 0..BufSize
  BY <1>1, <1>2, SizesAreNat DEF Lesser
<1>4. (written - output > BufSize \/ output > BufSize - captured) = (written > BufSize)
  BY <1>2, SizesAreNat DEF Lesser
<1>5. truncated' = (written > BufSize)
  BY <1>1, <1>4 DEF PtyInv, OutputInv
<1>6. written' = written /\ 0 <= written /\ written - 0 = written
  BY <1>1, <1>2
<1>7. OutputInv'
  BY <1>1, <1>3, <1>5, <1>6 DEF OutputInv
<1>8. TypeOK' /\ RunInv' /\ Child' = Child
  BY <1>1, <1>2, RunQuiet DEF vars, domain
<1>9. PtyTypeOK'
  <2>1. output' \in 0..PipeCap
    BY <1>1, SizesAreNat
  <2>2. truncated' \in BOOLEAN
    BY <1>5
  <2> QED
    BY <1>1, <1>3, <2>1, <2>2 DEF PtyInv, PtyTypeOK, own, run
<1>10. ResourceInv' /\ PhaseInv'
  BY <1>1, <1>8 DEF PtyInv, ResourceInv, PhaseInv, own, run
<1> QED
  BY <1>7, <1>8, <1>9, <1>10 DEF PtyInv

LEMMA ReaderEndsKeeps ==
    ASSUME PtyInv, ReaderEnds
    PROVE  PtyInv'
<1>1. /\ reader = "running" /\ output = 0 /\ console = "gone" /\ reader' = "ended"
      /\ UNCHANGED <<vars, waits, pc, reaped, own, console, expired, timedOut, flow>>
  BY DEF ReaderEnds
<1>2. pc # "idle"
  BY <1>1 DEF PtyInv, RunInv
<1>3. TypeOK' /\ RunInv' /\ Child' = Child
  BY <1>1, <1>2, RunQuiet DEF vars, domain
<1>4. PtyTypeOK' /\ OutputInv'
  BY <1>1 DEF PtyInv, PtyTypeOK, OutputInv, own, flow
<1>5. ResourceInv' /\ PhaseInv'
  BY <1>1, <1>3 DEF PtyInv, ResourceInv, PhaseInv, own, flow
<1> QED
  BY <1>3, <1>4, <1>5 DEF PtyInv

LEMMA ExpireKeeps ==
    ASSUME PtyInv, Expire
    PROVE  PtyInv'
<1>1. /\ pc = "wait" /\ expired' = TRUE
      /\ UNCHANGED <<vars, waits, pc, reaped, own, console, reader, timedOut, flow>>
  BY DEF Expire
<1>2. TypeOK' /\ RunInv' /\ Child' = Child
  BY <1>1, RunQuiet DEF vars, domain
<1>3. PtyTypeOK' /\ OutputInv'
  BY <1>1 DEF PtyInv, PtyTypeOK, OutputInv, own, flow
<1>4. ResourceInv' /\ PhaseInv'
  BY <1>1, <1>2 DEF PtyInv, ResourceInv, PhaseInv, own, flow
<1> QED
  BY <1>2, <1>3, <1>4 DEF PtyInv

\* During a run only its own child runs; another that ends was dying.
LEMMA ProcessEndsKeeps ==
    ASSUME PtyInv, NEW r \in Requests, ProcessEnds(r)
    PROVE  PtyInv'
<1>1. /\ ChildEnds(r) /\ UNCHANGED ptyVars
      /\ pc # "idle" /\ r = Current => UNCHANGED ended259
  BY DEF ProcessEnds
<1>2. CASE pc = "idle"
  BY <1>1, <1>2, IdleKeeps DEF Next
<1>3. CASE pc # "idle"
  <2>1. /\ proc[r] \in {"running", "dying"} /\ proc' = [proc EXCEPT ![r] = "ended"]
        /\ proc[r] = "running" => r = Current
        /\ UNCHANGED <<handled, orphan, open, ended259, reply>>
    BY <1>1, <1>3 DEF ChildEnds, PtyInv, RunInv
  <2>2. UNCHANGED <<waits, pc, reaped>> /\ UNCHANGED <<own, run, flow>>
    BY <1>1 DEF ptyVars
  <2>3. \A q \in Requests : proc'[q] = IF q = r THEN "ended" ELSE proc[q]
    BY <2>1 DEF PtyInv, TypeOK
  <2>4. TypeOK'
    BY <2>1 DEF PtyInv, TypeOK
  <2>5. Child' = IF r = Current THEN "ended" ELSE Child
    BY <1>3, <2>1, <2>3, RequestFacts DEF Child, Current
  <2>6. RunInv'
    <3>1. reaped # NoOrphan => reaped \in Requests /\ reaped # r
      BY <1>3, <2>1 DEF PtyInv, RunInv, PtyTypeOK
    <3>2. Current' = Current
      BY <2>1 DEF Current
    <3> QED
      BY <1>3, <2>1, <2>2, <2>3, <3>1, <3>2 DEF PtyInv, RunInv
  <2>7. PtyTypeOK' /\ ResourceInv' /\ OutputInv'
    BY <2>2 DEF PtyInv, PtyTypeOK, ResourceInv, OutputInv, own, run, flow
  <2>8. PhaseInv'
    <3>1. Child = "none" => Child' = "none"
      BY <2>1, <2>5 DEF Child
    <3>2. Child # "running" => Child' # "running"
      BY <2>5
    <3>3. Child = "ended" => Child' = "ended"
      BY <2>5
    <3> QED
      BY <2>2, <3>1, <3>2, <3>3 DEF PtyInv, PhaseInv, own, run, flow
  <2> QED
    BY <2>4, <2>6, <2>7, <2>8 DEF PtyInv
<1> QED
  BY <1>2, <1>3

\* A plain request is a step of the domain, and leaves the run's variables alone.
LEMMA PlainIsRequest ==
    ASSUME PlainRequest
    PROVE  pc = "idle" /\ Request /\ UNCHANGED ptyVars
<1>1. FALSE \in BOOLEAN
  OBVIOUS
<1> QED
  BY <1>1 DEF PlainRequest, Request

\* Every step of PtyExec keeps the invariant.
LEMMA PtyStep ==
    ASSUME PtyInv, [PtyNext]_allVars
    PROVE  PtyInv'
<1>1. ASSUME Server
      PROVE  PtyInv'
  BY <1>1, CreatePipesKeeps, CreateConsoleKeeps, PrepareKeeps, SpawnKeeps,
     StartReaderKeeps, WaitChildKeeps, ReapKeeps, ClosePCKeeps, ClosePCReturnsKeeps,
     JoinReaderKeeps, CollectKeeps, ReleaseKeeps DEF Server
<1>2. CASE PlainRequest
  BY <1>2, PlainIsRequest, IdleKeeps DEF Next
<1>3. CASE UNCHANGED allVars
  <2>1. UNCHANGED vars /\ UNCHANGED <<waits, pc, reaped>> /\ UNCHANGED <<own, run, flow>>
    BY <1>3 DEF allVars, ptyVars
  <2>2. TypeOK' /\ PtyTypeOK'
    BY <2>1 DEF PtyInv, TypeOK, PtyTypeOK, vars, own, run, flow
  <2>4. ResourceInv' /\ OutputInv'
    BY <2>1 DEF PtyInv, ResourceInv, OutputInv, own, flow
  <2>3. RunInv' /\ PhaseInv'
    BY <2>1 DEF PtyInv, RunInv, PhaseInv, Child, Current, DomainInv, TypeOK,
                OnlyOrphanHandle, OnlyOrphanRuns, vars, own, run, flow
  <2> QED
    BY <2>2, <2>3, <2>4 DEF PtyInv
<1> QED
  BY <1>1, <1>2, <1>3, EnterKeeps, ChildWritesKeeps, ConsoleExitsKeeps, ReaderReadsKeeps,
     ReaderEndsKeeps, ExpireKeeps, ProcessEndsKeeps DEF PtyNext

\* It holds at the start.
LEMMA PtyInitial ==
    ASSUME PtyInit
    PROVE  PtyInv
<1>1. DomainInv
  BY DomainAssumption DEF PtyInit, Init, DomainInv, TypeOK, OnlyOrphanHandle,
                          OnlyOrphanRuns, NoOrphan, Requests
<1>2. PtyTypeOK
  <2>1. output \in 0..PipeCap /\ captured \in 0..BufSize /\ written \in Nat
    BY SizesAreNat DEF PtyInit
  <2>2. reaped \in Requests \cup {NoOrphan} /\ waits \in CloseWaits /\ pc \in Steps
    BY DEF PtyInit, Steps
  <2>3. /\ locals \subseteq Resources /\ held \subseteq Resources
        /\ misclosed \in BOOLEAN /\ truncated \in BOOLEAN
        /\ expired \in BOOLEAN /\ timedOut \in BOOLEAN
        /\ console = "none" /\ reader = "none"
    BY DEF PtyInit
  <2> QED
    BY <2>1, <2>2, <2>3 DEF PtyTypeOK
<1>3. RunInv /\ ResourceInv /\ PhaseInv
  BY <1>1 DEF PtyInit, RunInv, ResourceInv, PhaseInv
<1>4. OutputInv
  <2>1. written = 0 /\ output = 0 /\ captured = 0 /\ truncated = FALSE
    BY DEF PtyInit
  <2> QED
    BY <2>1, EmptyFits, Zenon DEF OutputInv
<1> QED
  BY <1>1, <1>2, <1>3, <1>4 DEF PtyInv, DomainInv

\* The inductive invariant of the pseudo-console runs and the domain around them.
THEOREM PtyCorrect == PtySpec => []PtyInv
<1>1. PtyInit => PtyInv
  BY PtyInitial
<1>2. PtyInv /\ [PtyNext]_allVars => PtyInv'
  BY PtyStep
<1> QED
  BY <1>1, <1>2, PTL DEF PtySpec

\* PtySound: whatever fails on the way, every resource of a run is closed exactly once,
\* and a run that reports has all of the output the buffer can hold.
THEOREM PtyRunsSound == PtySpec => []PtySound
<1>1. PtyInv => PtySound
  <2> SUFFICES ASSUME PtyInv
               PROVE  PtySound
    OBVIOUS
  <2>1. ~misclosed /\ (pc = "idle" => held = {})
    BY DEF PtyInv, ResourceInv
  <2>2. ASSUME pc = "collect"
        PROVE  captured = Lesser(written, BufSize) /\ truncated = (written > BufSize)
    <3>1. output = 0
      BY <2>2 DEF PtyInv, PhaseInv
    <3>2. written - output = written
      BY <3>1 DEF PtyInv, PtyTypeOK
    <3> QED
      BY <3>2 DEF PtyInv, OutputInv
  <2> QED
    BY <2>1, <2>2 DEF PtyInv, PtySound
<1> QED
  BY <1>1, PtyCorrect, PTL

\* AdmissionIsExclusive, of the runs told step by step too: a child is only spawned by a
\* plain request, which polls, or by the run whose poll found no other child running.
THEOREM PtyExclusive == PtySpec => AdmissionIsExclusive
<1>1. PtyInv /\ [PtyNext]_allVars =>
        [\A r \in Requests : proc[r] = "none" /\ proc'[r] # "none" =>
           \A q \in Requests : proc[q] # "running"]_vars
  <2> SUFFICES ASSUME PtyInv, PtyNext, NEW r \in Requests, proc[r] = "none", proc'[r] # "none"
               PROVE  \A q \in Requests : proc[q] # "running"
    BY DEF allVars
  <2>1. CASE PlainRequest
    <3>1. ~Blocked
      BY <2>1, PlainIsRequest DEF Request, Busy, Refuse, RunToEnd, LeaveOrphan, GiveUp
    <3> QED
      BY <2>1, <3>1, PlainIsRequest, PollFindsNone DEF PtyInv, RunInv
  <2>2. CASE Spawn
    <3>1. pc = "spawn"
      BY <2>2 DEF Spawn
    <3> QED
      BY <3>1 DEF PtyInv, RunInv, PhaseInv, Child
  <2>3. CASE StartReader \/ WaitChild
    <3>1. CASE proc' = proc
      BY <3>1
    <3>2. CASE pc # "idle" /\ Terminate
      BY <3>2, RequestFacts DEF PtyInv, TypeOK, Terminate
    <3> QED
      BY <2>3, <3>1, <3>2 DEF StartReader, WaitChild
  <2>4. ASSUME NEW q \in Requests, ProcessEnds(q)
        PROVE  FALSE
    BY <2>4 DEF ProcessEnds, ChildEnds, PtyInv, TypeOK
  <2>5. CASE proc' = proc
    BY <2>5
  <2> QED
    BY <2>1, <2>2, <2>3, <2>4, <2>5
       DEF PtyNext, Server, Enter, CreatePipes, CreateConsole, Prepare, Reap, ClosePC,
           ClosePCReturns, JoinReader, Collect, Release, Return, ChildWrites, ConsoleExits,
           ReaderReads, ReaderEnds, Expire, vars
<1> QED
  BY <1>1, PtyCorrect, PTL DEF PtySpec, AdmissionIsExclusive

-----------------------------------------------------------------------------
(* Told step by step, a run is one request of ExecDomain *)

\* Inside a run the domain sees no step, but for another's child that ends.
LEMMA RunIsHidden ==
    ASSUME PtyInv, pc # "idle", pc' # "idle", UNCHANGED <<domain, reaped>>,
           NEW state \in {"none", "running", "dying", "ended"},
           proc' = [proc EXCEPT ![Current] = state]
    PROVE  UNCHANGED Domain!vars
<1>1. Current' = Current /\ UNCHANGED <<handled, orphan, open, ended259, reply, reaped>>
  BY DEF Current, domain
<1>2. [proc' EXCEPT ![Current] = "none"] = [proc EXCEPT ![Current] = "none"]
  BY RequestFacts DEF PtyInv, TypeOK
<1> QED
  BY <1>1, <1>2 DEF Domain!vars

\* A step inside a run is not seen by the domain, while its child stands.
LEMMA QuietIsHidden ==
    ASSUME PtyInv, pc # "idle", pc' # "idle", UNCHANGED <<domain, reaped, proc>>
    PROVE  UNCHANGED Domain!vars
<1>1. proc' = [proc EXCEPT ![Current] = Child]
  BY RequestFacts DEF PtyInv, TypeOK, Child
<1> QED
  BY <1>1, RequestFacts, RunIsHidden

\* The poll that opens a run is hidden with it: what it clears, the run keeps in reaped.
LEMMA EnterIsHidden ==
    ASSUME PtyInv, Enter
    PROVE  UNCHANGED Domain!vars
<1>1. /\ pc = "idle" /\ pc' # "idle" /\ reaped' = orphan /\ handled < MaxRequests
      /\ UNCHANGED <<handled, proc, ended259, reply>>
  BY DEF Enter
<1>2. DomainInv
  BY <1>1 DEF PtyInv, RunInv
<1>3. handled \in Nat /\ Current \in Requests /\ Current > handled /\ Current' = Current
  <2>1. handled \in 0..MaxRequests /\ handled < MaxRequests
    BY <1>1, <1>2 DEF DomainInv, TypeOK
  <2> QED
    BY <1>1, <2>1, DomainAssumption DEF Current, Requests
<1>4. [proc' EXCEPT ![Current'] = "none"] = proc
  BY <1>1, <1>2, <1>3 DEF DomainInv, TypeOK
<1>5. {reaped'} \ {NoOrphan} = open
  BY <1>1, <1>2 DEF DomainInv, OnlyOrphanHandle
<1> QED
  BY <1>1, <1>4, <1>5 DEF Domain!vars

\* The answer is the domain's request: at that step the domain sees the poll, the reap
\* and what became of the child.
LEMMA ReturnIsSeen ==
    ASSUME PtyInv, pc # "idle", NEW text \in {"refused", "ok", "timed out"}, Return(text)
    PROVE  /\ handled < MaxRequests /\ HasPty /\ ~Domain!Blocked
           /\ Domain!Answer(handled + 1, text)
           /\ (IF pc = "idle" THEN orphan ELSE reaped)' = NoOrphan
           /\ (IF pc = "idle" THEN open ELSE {reaped} \ {NoOrphan})' = Domain!StillOpen
           /\ (IF pc = "idle" THEN proc ELSE [proc EXCEPT ![Current] = "none"])' =
                 [(IF pc = "idle" THEN proc ELSE [proc EXCEPT ![Current] = "none"])
                    EXCEPT ![handled + 1] = Child]
           /\ UNCHANGED ended259
<1>1. /\ handled' = Current /\ reply' = [reply EXCEPT ![Current] = text] /\ pc' = "idle"
      /\ UNCHANGED <<orphan, open, proc, ended259>>
  BY DEF Return, Answer
<1>2. /\ handled < MaxRequests /\ HasPty /\ orphan = NoOrphan /\ open = {}
      /\ reaped # NoOrphan => proc[reaped] \notin {"running", "dying"} /\ reaped \notin ended259
  BY DEF PtyInv, RunInv
<1>3. reaped # Current
  BY RequestFacts, Zenon
<1>4. ~Domain!Blocked
  <2>1. ASSUME reaped # NoOrphan
        PROVE  [proc EXCEPT ![Current] = "none"][reaped] = proc[reaped]
    BY <2>1, <1>3 DEF PtyInv, TypeOK, PtyTypeOK
  <2> QED
    BY <1>2, <2>1 DEF Domain!Blocked, Domain!ReadsStillActive, Domain!NoOrphan, NoOrphan
<1>5. proc = [[proc EXCEPT ![Current] = "none"] EXCEPT ![Current] = Child]
  BY RequestFacts DEF PtyInv, TypeOK, Child
<1>6. Domain!StillOpen = {}
  BY DEF Domain!StillOpen
<1> QED
  BY <1>1, <1>2, <1>4, <1>5, <1>6 DEF Domain!Answer, Current

\* A run that fails is a request that is refused.
LEMMA ReturnIsRequest ==
    ASSUME PtyInv, pc # "idle", Return("refused"), Child # "running"
    PROVE  Domain!Request
<1> DEFINE image == IF pc = "idle" THEN proc ELSE [proc EXCEPT ![Current] = "none"]
<1>1. /\ handled < MaxRequests /\ HasPty /\ ~Domain!Blocked
      /\ Domain!Answer(handled + 1, "refused")
      /\ (IF pc = "idle" THEN orphan ELSE reaped)' = NoOrphan
      /\ (IF pc = "idle" THEN open ELSE {reaped} \ {NoOrphan})' = Domain!StillOpen
      /\ image' = [image EXCEPT ![handled + 1] = Child]
      /\ UNCHANGED ended259
  BY ReturnIsSeen
<1>2. CASE Child = "none"
  <2>1. image' = image
    BY <1>1, <1>2, RequestFacts DEF PtyInv, TypeOK, Current
  <2>2. Domain!Refuse(handled + 1)
    BY <1>1, <2>1 DEF Domain!Refuse, Domain!NoOrphan, NoOrphan
  <2> QED
    BY <1>1, <2>2 DEF Domain!Request
<1>3. CASE Child \in {"dying", "ended"}
  <2>1. Domain!GiveUp(handled + 1)
    BY <1>1, <1>3 DEF Domain!GiveUp, Domain!NoOrphan, NoOrphan
  <2> QED
    BY <1>1, <2>1 DEF Domain!Request
<1> QED
  BY <1>2, <1>3, RequestFacts

\* A run that reports is a request that ran to its end.
LEMMA ReportIsRequest ==
    ASSUME PtyInv, Collect
    PROVE  Domain!Request
<1>1. pc = "collect" /\ Return(IF timedOut THEN "timed out" ELSE "ok")
  BY DEF Collect
<1>2. Child = "ended" /\ timedOut \in BOOLEAN
  BY <1>1 DEF PtyInv, PhaseInv, ResourceInv, Kept, PtyTypeOK
<1>3. (IF timedOut THEN "timed out" ELSE "ok") \in {"refused", "ok", "timed out"}
  OBVIOUS
<1> DEFINE image == IF pc = "idle" THEN proc ELSE [proc EXCEPT ![Current] = "none"]
<1>4. /\ handled < MaxRequests /\ HasPty /\ ~Domain!Blocked
      /\ Domain!Answer(handled + 1, IF timedOut THEN "timed out" ELSE "ok")
      /\ (IF pc = "idle" THEN orphan ELSE reaped)' = NoOrphan
      /\ (IF pc = "idle" THEN open ELSE {reaped} \ {NoOrphan})' = Domain!StillOpen
      /\ image' = [image EXCEPT ![handled + 1] = Child]
      /\ UNCHANGED ended259
  BY <1>1, <1>3, ReturnIsSeen
<1>5. Domain!RunToEnd(handled + 1, TRUE, FALSE, timedOut)
  BY <1>2, <1>4 DEF Domain!RunToEnd, Domain!NoOrphan, NoOrphan
<1> QED
  BY <1>2, <1>4, <1>5 DEF Domain!Request

\* Between runs PtyExec takes the domain's own steps.
LEMMA IdleIsSeen ==
    ASSUME pc = "idle", pc' = "idle", Next
    PROVE  Domain!Next
<1>1. /\ (IF pc = "idle" THEN orphan ELSE reaped) = orphan
      /\ (IF pc = "idle" THEN open ELSE {reaped} \ {NoOrphan}) = open
      /\ (IF pc = "idle" THEN proc ELSE [proc EXCEPT ![Current] = "none"]) = proc
      /\ (IF pc = "idle" THEN orphan ELSE reaped)' = orphan'
      /\ (IF pc = "idle" THEN open ELSE {reaped} \ {NoOrphan})' = open'
      /\ (IF pc = "idle" THEN proc ELSE [proc EXCEPT ![Current] = "none"])' = proc'
  OBVIOUS
<1>2. /\ Domain!Requests = Requests /\ Domain!NoOrphan = NoOrphan
      /\ Domain!Blocked = Blocked /\ Domain!StillOpen = StillOpen
  BY <1>1 DEF Domain!Requests, Requests, Domain!NoOrphan, NoOrphan, Domain!Blocked, Blocked,
              Domain!ReadsStillActive, ReadsStillActive, Domain!StillOpen, StillOpen
<1>3. ASSUME NEW r, NEW text, Answer(r, text)
      PROVE  Domain!Answer(r, text)
  BY <1>3 DEF Answer, Domain!Answer
<1>4. ASSUME NEW r, Busy(r)
      PROVE  Domain!Busy(r)
  BY <1>1, <1>2, <1>3, <1>4 DEF Busy, Domain!Busy
<1>5. ASSUME NEW r, Refuse(r)
      PROVE  Domain!Refuse(r)
  BY <1>1, <1>2, <1>3, <1>5 DEF Refuse, Domain!Refuse
<1>6. ASSUME NEW r, GiveUp(r)
      PROVE  Domain!GiveUp(r)
  BY <1>1, <1>2, <1>3, <1>6 DEF GiveUp, Domain!GiveUp
<1>7. ASSUME NEW r, NEW isPty \in BOOLEAN, NEW is16 \in BOOLEAN, NEW late \in BOOLEAN,
             RunToEnd(r, isPty, is16, late)
      PROVE  Domain!RunToEnd(r, isPty, is16, late)
  BY <1>1, <1>2, <1>3, <1>7 DEF RunToEnd, Domain!RunToEnd
<1>8. ASSUME NEW r, LeaveOrphan(r)
      PROVE  Domain!LeaveOrphan(r)
  BY <1>1, <1>2, <1>3, <1>8 DEF LeaveOrphan, Domain!LeaveOrphan
<1>9. ASSUME NEW r, ChildEnds(r)
      PROVE  Domain!ChildEnds(r)
  BY <1>1, <1>9 DEF ChildEnds, Domain!ChildEnds
<1> QED
  BY <1>2, <1>4, <1>5, <1>6, <1>7, <1>8, <1>9
     DEF Next, Request, Domain!Next, Domain!Request

\* A child that ends during a run: the run's own is hidden, another is the domain's.
LEMMA EndIsSeen ==
    ASSUME PtyInv, NEW r \in Requests, ProcessEnds(r)
    PROVE  [Domain!Next]_(Domain!vars)
<1>1. ChildEnds(r) /\ UNCHANGED ptyVars /\ (pc # "idle" /\ r = Current => UNCHANGED ended259)
  BY DEF ProcessEnds
<1>2. UNCHANGED <<pc, reaped>>
  BY <1>1 DEF ptyVars
<1>3. CASE pc = "idle"
  BY <1>1, <1>2, <1>3, IdleIsSeen DEF Next
<1>4. CASE pc # "idle" /\ r = Current
  BY <1>1, <1>2, <1>4, RunIsHidden DEF ChildEnds, domain
<1>5. CASE pc # "idle" /\ r # Current
  <2> DEFINE image == [proc EXCEPT ![Current] = "none"]
  <2>1. /\ proc[r] \in {"running", "dying"} /\ proc' = [proc EXCEPT ![r] = "ended"]
        /\ ended259' \in {ended259, ended259 \cup {r}}
        /\ proc[r] = "dying" => ended259' = ended259
        /\ UNCHANGED <<handled, orphan, open, reply>>
    BY <1>1 DEF ChildEnds
  <2>2. Current' = Current
    BY <2>1 DEF Current
  <2>3. image' = [image EXCEPT ![r] = "ended"] /\ image[r] = proc[r]
    BY <1>5, <2>1, <2>2 DEF PtyInv, TypeOK
  <2>4. Domain!ChildEnds(r)
    BY <1>2, <1>5, <2>1, <2>3 DEF Domain!ChildEnds
  <2> QED
    BY <2>4 DEF Domain!Next, Domain!Requests, Requests
<1> QED
  BY <1>3, <1>4, <1>5

\* Every step of PtyExec is a step of the domain, or is not seen by it.
LEMMA PtyStepIsSeen ==
    ASSUME PtyInv, [PtyNext]_allVars
    PROVE  [Domain!Next]_(Domain!vars)
<1>1. CASE PlainRequest
  <2>1. pc = "idle" /\ pc' = "idle" /\ Next
    BY <1>1, PlainIsRequest DEF Next, ptyVars
  <2> QED
    BY <2>1, IdleIsSeen
<1>2. CASE Enter
  BY <1>2, EnterIsHidden
<1>3. CASE CreatePipes
  <2>1. pc = "pipes" /\ Child = "none"
    BY <1>3 DEF CreatePipes, PtyInv, PhaseInv
  <2>2. CASE Goto("console") /\ UNCHANGED <<domain, proc>>
    BY <2>1, <2>2, QuietIsHidden DEF Goto
  <2>3. CASE Return("refused")
    BY <2>1, <2>3, ReturnIsRequest DEF Domain!Next
  <2> QED
    BY <1>3, <2>2, <2>3 DEF CreatePipes
<1>4. CASE Collect
  BY <1>4, ReportIsRequest DEF Domain!Next
<1>5. CASE Release
  <2>1. pc = "release" /\ Return("refused") /\ Child # "running"
    BY <1>5 DEF Release, PtyInv, PhaseInv
  <2> QED
    BY <2>1, ReturnIsRequest DEF Domain!Next
<1>6. CASE CreateConsole \/ Prepare \/ Reap \/ ClosePC \/ ClosePCReturns \/ JoinReader
  <2>1. pc # "idle" /\ pc' # "idle" /\ UNCHANGED <<domain, reaped, proc>>
    BY <1>6 DEF CreateConsole, Prepare, Reap, ClosePC, ClosePCReturns, JoinReader, Goto
  <2> QED
    BY <2>1, QuietIsHidden
<1>7. CASE Spawn \/ StartReader \/ WaitChild
  <2>1. pc # "idle" /\ pc' # "idle" /\ UNCHANGED <<domain, reaped>>
    BY <1>7 DEF Spawn, StartReader, WaitChild, Goto
  <2>2. CASE UNCHANGED proc
    BY <2>1, <2>2, QuietIsHidden
  <2>3. CASE Terminate
    BY <2>1, <2>3, TerminateIs, RunIsHidden
  <2>4. CASE proc' = [proc EXCEPT ![Current] = "running"]
    BY <2>1, <2>4, RunIsHidden
  <2> QED
    BY <1>7, <2>2, <2>3, <2>4 DEF Spawn, StartReader, WaitChild
<1>8. CASE ChildWrites \/ ConsoleExits \/ ReaderReads \/ ReaderEnds \/ Expire \/ UNCHANGED allVars
  <2>1. UNCHANGED <<handled, orphan, open, proc, ended259, reply, pc, reaped>>
    BY <1>8 DEF ChildWrites, ConsoleExits, ReaderReads, ReaderEnds, Expire, allVars, ptyVars, vars
  <2> QED
    BY <2>1 DEF Domain!vars, Current
<1> QED
  BY <1>1, <1>2, <1>3, <1>4, <1>5, <1>6, <1>7, <1>8, EndIsSeen DEF PtyNext, Server

\* DomainHolds: a pseudo-console run, told step by step, is a request of ExecDomain; so
\* every theorem about the domain holds of what the run shows of it.
THEOREM PtyRefinesDomain == PtySpec => DomainHolds
<1>1. PtyInit => Domain!Init
  BY DEF PtyInit, Init, Domain!Init, Domain!NoOrphan, NoOrphan, Domain!Requests, Requests
<1>2. PtyInv /\ [PtyNext]_allVars => [Domain!Next]_(Domain!vars)
  BY PtyStepIsSeen
<1> QED
  BY <1>1, <1>2, PtyCorrect, PTL DEF PtySpec, DomainHolds, Domain!Spec
=============================================================================
