--------------------------------- MODULE Link ---------------------------------
(***************************************************************************)
(* The newline-JSON link between the bridge (device.rs) and the device      *)
(* (mcp-w32s.c: main, SendReady, Serve, ProcessBuffer, ProcessCommand).     *)
(* Bridge processes come and go, one at a time; the device may stop and be  *)
(* started again.  TCP gives every bridge process a connection of its own   *)
(* and closes it under both ends; a serial line is one pair of wires that   *)
(* nobody closes.  A command line travels in two pieces, so that either end *)
(* can vanish inside a line.                                                *)
(***************************************************************************)
EXTENDS Integers, Sequences, FiniteSets

CONSTANTS
    Kinds,          \* transports of the behaviours: "tcp", "serial"
    MaxSessions,    \* bound on the bridge processes
    MaxCalls,       \* bound on the commands of all of them
    MaxStops        \* bound on the stops of the device

ASSUME LinkAssumption ==
    /\ Kinds \subseteq {"tcp", "serial"}
    /\ MaxSessions \in Nat \ {0} /\ MaxCalls \in Nat /\ MaxStops \in Nat

Sessions == 1..MaxSessions
Calls == 1..MaxCalls
Nobody == 0

\* Lines of the device: the ready message, the answer to a command, and the
\* "invalid JSON" answer to a line no command was read from.
Ready == [kind |-> "ready", call |-> Nobody]
Answer(n) == [kind |-> "answer", call |-> n]
InvalidJson == [kind |-> "invalid", call |-> Nobody]
Lines == {Ready, InvalidJson} \cup {Answer(n) : n \in Calls}

\* The two pieces of a command line; the second ends with the newline.
Head1(n) == [last |-> FALSE, call |-> n]
Tail1(n) == [last |-> TRUE, call |-> n]
Pieces == [last : BOOLEAN, call : Calls]

\* What dev.call gave back to a call.
Outcomes == {"waiting", "own", "other", "error", "dropped"}

VARIABLES
    kind,       \* the transport
    session,    \* the latest bridge process
    bridge,     \* what it is doing
    calls,      \* commands issued so far
    pending,    \* the call that holds the device, or Nobody
    written,    \* pieces of its line written
    outcome,    \* call -> what it got
    up,         \* session -> pieces on their way to the device
    down,       \* session -> lines on their way to the bridge
    open,       \* ends of each connection not closed: session -> subset
    device,     \* what the device is doing
    conn,       \* the session whose connection it serves
    lineBuf,    \* Serve's LineBuffer
    stops,      \* stops of the device so far
    resync,     \* history: the serial device was started under this session
    silent,     \* the bridge's connection lost its device without a word of it
    held        \* the command in hand does not end: a grandchild has its pipes

vars == <<kind, session, bridge, calls, pending, written, outcome, up, down,
          open, device, conn, lineBuf, stops, resync, silent, held>>
bridgeVars == <<session, bridge, calls, pending, written, outcome>>
deviceVars == <<device, conn, lineBuf, stops>>
faults == <<silent, held>>

Serial == kind = "serial"
\* A serial line carries every session's traffic over the same wires.
Wire(s) == IF Serial THEN 1 ELSE s

TypeOK ==
    /\ kind \in Kinds
    /\ session \in 0..MaxSessions
    /\ bridge \in {"off", "connecting", "ready"}
    /\ calls \in 0..MaxCalls /\ pending \in 0..MaxCalls /\ written \in 0..2
    /\ outcome \in [Calls -> Outcomes]
    /\ up \in [Sessions -> Seq(Pieces)] /\ down \in [Sessions -> Seq(Lines)]
    /\ open \in [Sessions -> SUBSET {"bridge", "device"}]
    /\ device \in {"stopped", "listening", "serving", "handling", "exited"}
    /\ conn \in 0..MaxSessions
    /\ lineBuf \in Seq(Pieces)
    /\ stops \in 0..MaxStops /\ resync \in BOOLEAN
    /\ silent \in BOOLEAN /\ held \in BOOLEAN

Init ==
    /\ kind \in Kinds
    /\ session = 0 /\ bridge = "off"
    /\ calls = 0 /\ pending = Nobody /\ written = 0
    /\ outcome = [n \in Calls |-> "waiting"]
    /\ up = [s \in Sessions |-> <<>>] /\ down = [s \in Sessions |-> <<>>]
    /\ open = [s \in Sessions |-> {}]
    /\ device = "stopped" /\ conn = Nobody
    /\ lineBuf = <<>>
    /\ stops = 0 /\ resync = FALSE
    /\ silent = FALSE /\ held = FALSE

\* TransportWriteAll; its result is ignored.  A connection the bridge closed, or
\* a serial line whose far port nobody has open, swallows the line.
Put(c, line) ==
    IF IF Serial THEN bridge # "off" ELSE "bridge" \in open[c]
      THEN down' = [down EXCEPT ![c] = Append(@, line)]
      ELSE UNCHANGED down

-----------------------------------------------------------------------------
(* The device *)

\* main: a serial device greets its one peer and serves it; a TCP one listens.
Start ==
    /\ device = "stopped"
    /\ lineBuf' = <<>>
    /\ IF Serial
         THEN /\ device' = "serving" /\ conn' = 1
              /\ Put(1, Ready)
              /\ resync' = (resync \/ bridge = "ready" \/ down[1] # <<>>)
         ELSE /\ device' = "listening" /\ conn' = Nobody
              /\ UNCHANGED <<down, resync>>
    /\ UNCHANGED <<kind, bridgeVars, up, open, stops, faults>>

\* Faulty variant of Accept: one LineBuffer for all connections.
AcceptKeepingLine(s) ==
    /\ device = "listening" /\ "device" \in open[s]
    /\ device' = "serving" /\ conn' = s
    /\ Put(s, Ready)
    /\ UNCHANGED <<kind, bridgeVars, up, open, lineBuf, stops, resync, faults>>

\* accept, SendReady, and a fresh LineBuffer for the connection.
Accept(s) ==
    /\ device = "listening" /\ "device" \in open[s]
    /\ device' = "serving" /\ conn' = s
    /\ lineBuf' = <<>>
    /\ Put(s, Ready)
    /\ UNCHANGED <<kind, bridgeVars, up, open, stops, resync, faults>>

\* A connection aborted in the backlog makes accept fail, and main leaves its
\* loop.
AcceptFails(s) ==
    /\ device = "listening" /\ open[s] = {"device"}
    /\ device' = "exited"
    /\ open' = [c \in Sessions |-> open[c] \ {"device"}]
    /\ UNCHANGED <<kind, bridgeVars, up, down, conn, lineBuf, stops, resync, faults>>

\* Serve reads a piece; ProcessBuffer runs the handler at a newline.
Receive ==
    /\ device = "serving" /\ up[conn] # <<>>
    /\ LET piece == Head(up[conn]) IN
         /\ lineBuf' = Append(lineBuf, piece)
         /\ device' = IF piece.last THEN "handling" ELSE "serving"
    /\ up' = [up EXCEPT ![conn] = Tail(@)]
    /\ UNCHANGED <<kind, bridgeVars, down, open, conn, stops, resync, faults>>

\* ExecOpRun joins its readers without a bound: a process the command left behind
\* keeps them, and the server with them, until it ends, if ever.
HoldUp ==
    /\ device = "handling" /\ ~held
    /\ held' = TRUE
    /\ UNCHANGED <<kind, bridgeVars, deviceVars, up, down, open, resync, silent>>

\* ProcessCommand: one line in, one line out; a line that is not one command is
\* "invalid JSON".
Respond ==
    /\ device = "handling"
    /\ LET n == lineBuf[Len(lineBuf)].call IN
         Put(conn, IF lineBuf = <<Head1(n), Tail1(n)>> THEN Answer(n) ELSE InvalidJson)
    /\ lineBuf' = <<>>
    /\ device' = "serving"
    /\ held' = FALSE
    /\ UNCHANGED <<kind, bridgeVars, up, open, conn, stops, resync, silent>>

\* recv reports the peer's close (or keep-alive a lost one): back to accept.
PeerGone ==
    /\ device = "serving" /\ ~Serial
    /\ "bridge" \notin open[conn] /\ up[conn] = <<>>
    /\ open' = [open EXCEPT ![conn] = {}]
    /\ device' = "listening" /\ conn' = Nobody
    /\ UNCHANGED <<kind, bridgeVars, up, down, lineBuf, stops, resync, faults>>

\* The device is switched off or its server ends, at any point.  What it had
\* not read is lost; what it had sent may be.  The bridge's TCP hears of it when the
\* device's system closes the connections of a server that ended, and when bytes it
\* sent stay unacknowledged; a device that loses its power with nothing left to
\* acknowledge says no word, nor does it after a restart.
Stop(heard) ==
    /\ device # "stopped" /\ stops < MaxStops
    /\ silent' = (silent \/ (~heard /\ ~Serial /\ bridge # "off" /\ "device" \in open[session]))
    /\ held' = FALSE
    /\ device' = "stopped" /\ conn' = Nobody
    /\ stops' = stops + 1
    /\ up' = [s \in Sessions |-> <<>>]
    /\ open' = [s \in Sessions |-> open[s] \ {"device"}]
    /\ down' \in IF Serial THEN {down} ELSE {down, [s \in Sessions |-> <<>>]}
    /\ UNCHANGED <<kind, bridgeVars, lineBuf, resync>>

-----------------------------------------------------------------------------
(* The bridge *)

\* device::connect opens the port, or connects to a device that listens.
Open ==
    /\ bridge = "off" /\ session < MaxSessions
    /\ ~Serial => device \notin {"stopped", "exited"}
    /\ session' = session + 1
    /\ bridge' = "connecting"
    /\ pending' = Nobody /\ written' = 0
    /\ open' = IF Serial THEN open ELSE [open EXCEPT ![session + 1] = {"bridge", "device"}]
    /\ resync' = FALSE /\ silent' = FALSE
    /\ UNCHANGED <<kind, calls, outcome, up, down, deviceVars, held>>

\* The bridge process ends: its end of the link is closed, its call dropped,
\* and a serial port nobody has open keeps nothing.
Leave(outcomes) ==
    /\ bridge' = "off"
    /\ outcome' = outcomes
    /\ pending' = Nobody /\ written' = 0
    /\ open' = [open EXCEPT ![session] = @ \ {"bridge"}]
    /\ down' = [down EXCEPT ![Wire(session)] = <<>>]
    /\ UNCHANGED <<kind, session, calls, up, deviceVars, resync, faults>>

Die ==
    /\ bridge # "off"
    /\ Leave(IF pending = Nobody THEN outcome ELSE [outcome EXCEPT ![pending] = "dropped"])

\* Nothing more can come and the bridge's system knows: the connection was closed
\* from the other end, or broken by bytes that nobody acknowledged.
LinkClosed == /\ ~Serial /\ down[session] = <<>>
              /\ "device" \notin open[session] /\ ~silent

\* read_ready: the first line must be the ready message.
ReadReady ==
    /\ bridge = "connecting"
    /\ down[Wire(session)] # <<>>
    /\ Head(down[Wire(session)]) = Ready
    /\ bridge' = "ready"
    /\ down' = [down EXCEPT ![Wire(session)] = Tail(@)]
    /\ UNCHANGED <<kind, session, calls, pending, written, outcome, up, open,
                   deviceVars, resync, faults>>

ReadyFails ==
    /\ bridge = "connecting"
    /\ \/ LinkClosed
       \/ down[Wire(session)] # <<>> /\ Head(down[Wire(session)]) # Ready
    /\ Leave(outcome)

\* write_line: the command goes out, in pieces; nobody takes them in while the
\* device is stopped, and on a connection that was lost in silence they are what
\* breaks it, sooner or later.
WriteLine ==
    /\ bridge = "ready" /\ written < 2
    /\ IF pending = Nobody
         THEN calls < MaxCalls /\ calls' = calls + 1
         ELSE UNCHANGED calls
    /\ pending' = IF pending = Nobody THEN calls + 1 ELSE pending
    /\ written' = written + 1
    /\ up' = IF IF Serial THEN device \in {"stopped", "exited"} ELSE "device" \notin open[session]
             THEN up ELSE [up EXCEPT ![Wire(session)] = Append(@,
                    IF written = 0 THEN Head1(pending') ELSE Tail1(pending'))]
    /\ silent' = FALSE
    /\ UNCHANGED <<kind, session, bridge, outcome, down, open, deviceVars, resync, held>>

Return(result) ==
    /\ outcome' = [outcome EXCEPT ![pending] = result]
    /\ pending' = Nobody /\ written' = 0

\* Faulty variant of ReadAnswer: call writes the next command without waiting
\* for the line it is owed.
ReadAnswerEarly ==
    /\ pending # Nobody /\ written = 2
    /\ LET lines == down[Wire(session)] IN
         /\ Return(IF lines = <<>> THEN "error"
                   ELSE IF Head(lines) = Answer(pending) THEN "own"
                   ELSE IF Head(lines).kind = "answer" THEN "other" ELSE "error")
         /\ down' = [down EXCEPT ![Wire(session)] = IF @ = <<>> THEN @ ELSE Tail(@)]
    /\ UNCHANGED <<kind, session, bridge, calls, up, open, deviceVars, resync, faults>>

\* call: "the next line is the response".  A status other than ok, the ready
\* line's included, is an error to the caller.
ReadAnswer ==
    /\ pending # Nobody /\ written = 2
    /\ down[Wire(session)] # <<>>
    /\ LET line == Head(down[Wire(session)]) IN
         Return(IF line = Answer(pending) THEN "own"
                ELSE IF line.kind = "answer" THEN "other" ELSE "error")
    /\ down' = [down EXCEPT ![Wire(session)] = Tail(@)]
    /\ UNCHANGED <<kind, session, bridge, calls, up, open, deviceVars, resync, faults>>

\* Faulty variant of LinkLost: the closed link is read again.
LinkLostUnnoticed ==
    /\ pending # Nobody /\ LinkClosed /\ written = 1
    /\ Return("error")
    /\ UNCHANGED <<kind, session, bridge, calls, up, down, open, deviceVars, resync, faults>>

\* "device closed during a request", or the write failed.
LinkLost ==
    /\ pending # Nobody /\ LinkClosed
    /\ Return("error")
    /\ UNCHANGED <<kind, session, bridge, calls, up, down, open, deviceVars, resync, faults>>

-----------------------------------------------------------------------------
Server == Receive \/ (~held /\ Respond) \/ PeerGone \/ \E s \in Sessions : Accept(s)
Client == ReadReady \/ ReadyFails \/ ReadAnswer \/ LinkLost

Next ==
    \/ Start \/ Receive \/ Respond \/ PeerGone \/ Client
    \/ \E s \in Sessions : Accept(s) \/ AcceptFails(s)
    \/ HoldUp \/ (\E heard \in BOOLEAN : Stop(heard))
    \/ Open \/ Die \/ WriteLine

Spec == Init /\ [][Next]_vars

\* Both programs run, and a call under way is written out; a command that is held
\* up need not end.  Nobody is bound to start a device again, and a bridge may end
\* or not.
FairSpec == Spec /\ WF_vars(Server) /\ WF_vars(Client) /\ WF_vars(WriteLine /\ pending # Nobody)

-----------------------------------------------------------------------------
(* Properties *)

\* Correlation: although no id is compared, a call that got an answer got its
\* own, in any order of bridge and device stops, so long as a serial device was
\* not started again in the middle of the session.
AnswersMatch ==
    [][\A n \in Calls : outcome'[n] = "other" /\ outcome[n] # "other" => Serial /\ resync]_vars

\* "The client matches a response to its request by id".
AnswersAlwaysMatch == \A n \in Calls : outcome[n] # "other"

\* The device never takes pieces of two commands for one line, however many
\* bridges vanish in the middle of theirs: a line it handles is one whole
\* command, or what a serial device started inside a line saw of it.
LinesAreWhole ==
    device = "handling" =>
      \E n \in Calls : \/ lineBuf = <<Head1(n), Tail1(n)>>
                       \/ Serial /\ lineBuf = <<Tail1(n)>>

\* The commands that a stream of pieces completes.
LineEnds(q) == {i \in 1..Len(q) : q[i].last}

\* "one request per line in, one response per line out": on a link the bridge
\* found ready, at most one message is owed, and none without a call.
OneOutstanding ==
    bridge = "ready" /\ ~resync =>
      LET queued == Cardinality(LineEnds(up[Wire(session)]))
          busy == IF device = "handling" /\ conn = Wire(session) THEN 1 ELSE 0
          back == Len(down[Wire(session)])
      IN queued + busy + back <= IF pending # Nobody /\ written = 2 THEN 1 ELSE 0

\* The lines of a link keep the frames of commands and answers.
FramingSound == TypeOK /\ LinesAreWhole /\ OneOutstanding

\* What the bridge, which reads without a timeout, waits for in vain: a stopped
\* serial device, a connection lost without a word, a command that is held up, and
\* the ready line of a serial device that sent it before the bridge was there.
Deaf ==
    \/ Serial /\ device = "stopped"
    \/ silent
    \/ held
    \/ bridge = "connecting" /\ Serial /\ down[1] = <<>>

\* A call returns, with an answer or an error, or ends with its bridge.
CallReturns == \A n \in Calls : pending = n ~> outcome[n] # "waiting"

\* A bridge that connects gets its ready line or an error, however long the device
\* stays with the bridge before it.
ConnectReturns == bridge = "connecting" ~> bridge # "connecting"

\* The bridge waits on its device only, for a ready line and then for answers, and
\* comes back from both whatever is lost or stopped on the way, unless in the end
\* it is deaf for good.
BridgeReturns == []<>~Deaf => CallReturns /\ ConnectReturns

==============================================================================
