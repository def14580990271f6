------------------------------ MODULE LinkProofs ------------------------------
(***************************************************************************)
(* Proofs about the link, for any number of bridge processes, commands and   *)
(* device stops: pieces stay framed on their way through up and the line     *)
(* buffer, and a link the bridge found ready carries at most the one command *)
(* that is pending, or its answer.                                           *)
(***************************************************************************)
EXTENDS Link, FiniteSetTheorems, SequenceTheorems, TLAPS

\* The wire the bridge uses.
W == Wire(session)

\* A piece is followed by the piece a bridge writes after it.
Follows(p, next) == IF p.last THEN ~next.last ELSE next = Tail1(p.call)
Framed(q) == \A i \in 1..(Len(q) - 1) : Follows(q[i], q[i + 1])

\* Nothing is under way to the device, nor inside it.
Idle(w) == up[w] = <<>> /\ (conn = w => device = "serving" /\ lineBuf = <<>>)

\* The device cannot take in anything of this wire.
Cut(w) == up[w] = <<>> /\ conn # w

\* Who has which end of which connection.
EndsInv ==
    /\ device \in {"serving", "handling"} <=> conn # Nobody
    /\ pending # Nobody => bridge = "ready"
    /\ written = 0 <=> pending = Nobody
    /\ pending <= calls
    /\ bridge # "off" => session # 0
    /\ Serial =>
         /\ device \notin {"listening", "exited"} /\ conn \in {Nobody, 1}
         /\ device = "stopped" => up[1] = <<>>
         /\ bridge = "off" => down[1] = <<>>
    /\ ~Serial =>
         /\ ~resync
         /\ conn <= session
         /\ conn # Nobody => "device" \in open[conn]
         /\ \A s \in Sessions :
              /\ "bridge" \in open[s] <=> bridge # "off" /\ s = session
              /\ "device" \in open[s] => s <= session
              /\ conn # s => up[s] = <<>>
              /\ s > session => down[s] = <<>>

\* What the device has of a line, and what it will read next.
FrameInv ==
    /\ \A s \in Sessions : Framed(up[s])
    /\ device = "serving" =>
         \/ lineBuf = <<>> /\ (up[conn] # <<>> /\ ~Serial => ~up[conn][1].last)
         \/ \E n \in Calls : lineBuf = <<Head1(n)>> /\ (up[conn] # <<>> => up[conn][1] = Tail1(n))
    /\ device = "handling" => LinesAreWhole /\ (up[conn] # <<>> => ~up[conn][1].last)

\* The latest piece that is still somewhere is the latest the bridge wrote.
Latest(p) == IF written = 1 THEN p = Head1(pending) ELSE p.last
LatestInv ==
    bridge = "ready" =>
      /\ up[W] # <<>> => Latest(up[W][Len(up[W])])
      /\ up[W] = <<>> /\ conn = W /\ lineBuf # <<>> => Latest(lineBuf[Len(lineBuf)])

\* A bridge that waits for its ready line.
GreetInv ==
    bridge = "connecting" =>
      /\ Serial /\ down[1] # <<>> /\ Head(down[1]) = Ready =>
           Idle(1) /\ (~resync => down[1] = <<Ready>>)
      /\ ~Serial =>
           /\ Idle(session) /\ down[session] \in {<<>>, <<Ready>>}
           /\ "device" \in open[session] /\ conn # session => down[session] = <<>>

\* A piece sequence on its way: unread, read in part, or read.
OnItsWay(n) ==
    /\ conn = W
    /\ \/ lineBuf = <<>> /\ device = "serving" /\ written = 1 /\ up[W] = <<Head1(n)>>
       \/ lineBuf = <<>> /\ device = "serving" /\ written = 2 /\ up[W] = <<Head1(n), Tail1(n)>>
       \/ lineBuf = <<Head1(n)>> /\ device = "serving" /\ written = 1 /\ up[W] = <<>>
       \/ lineBuf = <<Head1(n)>> /\ device = "serving" /\ written = 2 /\ up[W] = <<Tail1(n)>>
       \/ lineBuf = <<Head1(n), Tail1(n)>> /\ device = "handling" /\ written = 2 /\ up[W] = <<>>

\* A ready link carries the pending command, or its answer, and nothing else.
ExchangeInv ==
    bridge = "ready" =>
      /\ ~Serial /\ "device" \in open[session] => conn = session
      /\ ~resync =>
           \/ pending = Nobody /\ Idle(W) /\ down[W] = <<>>
           \/ pending # Nobody /\ (OnItsWay(pending) \/ Cut(W)) /\ down[W] = <<>>
           \/ written = 2 /\ Idle(W) /\ down[W] = <<Answer(pending)>>

LinkInv ==
    /\ TypeOK
    /\ EndsInv
    /\ FrameInv
    /\ LatestInv
    /\ GreetInv
    /\ ExchangeInv

-----------------------------------------------------------------------------
(* Facts about lines and pieces *)

\* The constants as numbers.
LEMMA Bounds == MaxSessions \in Nat /\ MaxSessions # 0 /\ MaxCalls \in Nat /\ MaxStops \in Nat
BY LinkAssumption

\* A command's two pieces differ from each other and from every other command's.
LEMMA PieceFacts ==
    ASSUME NEW n \in Calls
    PROVE  /\ Head1(n) \in Pieces /\ Tail1(n) \in Pieces
           /\ ~Head1(n).last /\ Tail1(n).last /\ Head1(n).call = n /\ Tail1(n).call = n
           /\ \A m : Head1(n) # Tail1(m) /\ Tail1(n) # Head1(m)
           /\ \A m \in Calls : (Head1(n) = Head1(m) => n = m) /\ (Tail1(n) = Tail1(m) => n = m)
BY DEF Head1, Tail1, Pieces

\* There are no other pieces.
LEMMA PieceIs ==
    ASSUME NEW p \in Pieces
    PROVE  /\ p.call \in Calls
           /\ p.last => p = Tail1(p.call)
           /\ ~p.last => p = Head1(p.call)
BY DEF Head1, Tail1, Pieces

\* The lines of the device, apart from each other.
LEMMA LineFacts ==
    /\ Ready \in Lines /\ InvalidJson \in Lines
    /\ \A n \in Calls : Answer(n) \in Lines /\ Answer(n) # Ready
                        /\ Answer(n).kind = "answer"
    /\ InvalidJson # Ready
BY DEF Ready, InvalidJson, Answer, Lines

\* Sequences of one and of two.
LEMMA Small ==
    ASSUME NEW x, NEW y
    PROVE  /\ Append(<<>>, x) = <<x>> /\ Append(<<x>>, y) = <<x, y>>
           /\ Head(<<x>>) = x /\ Tail(<<x>>) = <<>> /\ Head(<<x, y>>) = x /\ Tail(<<x, y>>) = <<y>>
           /\ <<x>> # <<>> /\ <<x, y>> # <<>> /\ <<x>> # <<x, y>>
           /\ <<x>>[1] = x /\ <<x, y>>[1] = x /\ <<x, y>>[2] = y
           /\ Len(<<x>>) = 1 /\ Len(<<x, y>>) = 2
<1>1. Append(<<x>>, y) = <<x, y>>
  <2>1. <<x>> \in Seq({x, y}) /\ Append(<<x>>, y) \in Seq({x, y}) /\ <<x, y>> \in Seq({x, y})
    OBVIOUS
  <2>2. Len(Append(<<x>>, y)) = 2 /\ Len(<<x, y>>) = 2
    OBVIOUS
  <2>3. \A i \in 1..2 : Append(<<x>>, y)[i] = <<x, y>>[i]
    OBVIOUS
  <2> QED
    BY <2>1, <2>2, <2>3, SeqEqual
<1> QED
  BY <1>1

\* What is left when the first element is taken.
LEMMA FirstTaken ==
    ASSUME NEW S, NEW q \in Seq(S), q # <<>>
    PROVE  /\ Head(q) \in S /\ q[1] = Head(q) /\ Tail(q) \in Seq(S)
           /\ Tail(q) # <<>> => Tail(q)[Len(Tail(q))] = q[Len(q)] /\ Tail(q)[1] = q[2]
                                /\ 1 \in 1..(Len(q) - 1)
           /\ Tail(q) = <<>> => q[Len(q)] = Head(q) /\ q = <<Head(q)>>
<1>1. /\ Tail(q) \in Seq(S) /\ Len(Tail(q)) = Len(q) - 1 /\ Len(q) \in Nat /\ Len(q) >= 1
      /\ Head(q) \in S /\ q[1] = Head(q)
  OBVIOUS
<1>2. ASSUME Tail(q) # <<>>
      PROVE  Tail(q)[Len(Tail(q))] = q[Len(q)] /\ Tail(q)[1] = q[2] /\ 1 \in 1..(Len(q) - 1)
  <2>1. Len(Tail(q)) # 0
    BY <1>1, <1>2
  <2>2. 1 \in 1..Len(Tail(q)) /\ Len(Tail(q)) \in 1..Len(Tail(q))
    BY <1>1, <2>1
  <2> QED
    BY <1>1, <2>2
<1>3. ASSUME Tail(q) = <<>>
      PROVE  q[Len(q)] = Head(q) /\ q = <<Head(q)>>
  <2>1. Len(q) = 1
    BY <1>1, <1>3
  <2> QED
    BY <1>1, <2>1
<1> QED
  BY <1>1, <1>2, <1>3

\* What is appended is last, and the first stays first.
LEMMA LastAppended ==
    ASSUME NEW S, NEW q \in Seq(S), NEW x \in S
    PROVE  /\ Append(q, x) \in Seq(S) /\ Append(q, x) # <<>>
           /\ Append(q, x)[Len(Append(q, x))] = x
           /\ q # <<>> => Append(q, x)[1] = q[1] /\ Head(Append(q, x)) = Head(q)
           /\ q = <<>> => Append(q, x)[1] = x
<1>1. /\ Append(q, x) \in Seq(S) /\ Len(Append(q, x)) = Len(q) + 1 /\ Len(q) \in Nat
      /\ Append(q, x)[Len(q) + 1] = x
  OBVIOUS
<1>2. Append(q, x) # <<>>
  BY <1>1
<1>3. q # <<>> => Append(q, x)[1] = q[1] /\ Head(Append(q, x)) = Head(q)
  OBVIOUS
<1> QED
  BY <1>1, <1>2, <1>3

\* A framed sequence stays framed when its first piece is read,
LEMMA FramedTail ==
    ASSUME NEW q \in Seq(Pieces), q # <<>>, Framed(q)
    PROVE  /\ Framed(Tail(q))
           /\ Tail(q) # <<>> => Follows(Head(q), Tail(q)[1])
<1>1. Tail(q) \in Seq(Pieces) /\ Len(Tail(q)) = Len(q) - 1 /\ Len(q) \in Nat /\ Len(q) >= 1
  OBVIOUS
<1>2. ASSUME NEW i \in 1..(Len(Tail(q)) - 1)
      PROVE  /\ Tail(q)[i] = q[i + 1] /\ Tail(q)[i + 1] = q[i + 1 + 1]
             /\ i + 1 \in 1..(Len(q) - 1)
  BY <1>1
<1>3. Framed(Tail(q))
  BY <1>1, <1>2 DEF Framed
<1>4. Tail(q) # <<>> => Follows(Head(q), Tail(q)[1])
  BY FirstTaken DEF Framed
<1> QED
  BY <1>3, <1>4

\* and when the piece that has to follow is written.
LEMMA FramedAppend ==
    ASSUME NEW q \in Seq(Pieces), NEW p \in Pieces, Framed(q),
           q # <<>> => Follows(q[Len(q)], p)
    PROVE  Framed(Append(q, p))
<1>1. Append(q, p) \in Seq(Pieces) /\ Len(Append(q, p)) = Len(q) + 1 /\ Len(q) \in Nat
  OBVIOUS
<1>2. ASSUME NEW i \in 1..(Len(Append(q, p)) - 1)
      PROVE  Follows(Append(q, p)[i], Append(q, p)[i + 1])
  <2>1. i \in 1..Len(q) /\ Append(q, p)[i] = q[i]
    BY <1>1
  <2>2. CASE i < Len(q)
    <3>1. Append(q, p)[i + 1] = q[i + 1] /\ i \in 1..(Len(q) - 1)
      BY <1>1, <2>1, <2>2
    <3> QED
      BY <2>1, <3>1 DEF Framed
  <2>3. CASE i = Len(q)
    <3>1. Append(q, p)[i + 1] = p /\ q # <<>>
      BY <1>1, <2>1, <2>3
    <3> QED
      BY <2>1, <2>3, <3>1
  <2> QED
    BY <1>1, <2>1, <2>2, <2>3
<1> QED
  BY <1>1, <1>2 DEF Framed

\* A connection with nothing on it is framed.
LEMMA FramedEmpty == Framed(<<>>)
BY DEF Framed

\* A line is put on its wire, or nowhere.
LEMMA PutIs ==
    ASSUME TypeOK, NEW c \in Sessions, NEW line \in Lines, Put(c, line)
    PROVE  /\ down' \in [Sessions -> Seq(Lines)]
           /\ \A s \in Sessions : s # c => down'[s] = down[s]
           /\ (IF Serial THEN bridge # "off" ELSE "bridge" \in open[c]) =>
                down'[c] = Append(down[c], line)
           /\ ~(IF Serial THEN bridge # "off" ELSE "bridge" \in open[c]) => down' = down
<1>1. down \in [Sessions -> Seq(Lines)] /\ Append(down[c], line) \in Seq(Lines)
  BY DEF TypeOK
<1> QED
  BY <1>1 DEF Put

\* The bridge's wire is one of the wires; a serial link has one.
LEMMA WireFacts ==
    ASSUME LinkInv
    PROVE  /\ 1 \in Sessions /\ Nobody \notin Sessions /\ conn \in Sessions \cup {Nobody}
           /\ Serial => W = 1
           /\ ~Serial => W = session
           /\ bridge # "off" => session \in Sessions /\ W \in Sessions /\ W # Nobody
<1>1. session \in 0..MaxSessions /\ conn \in 0..MaxSessions /\ (bridge # "off" => session # 0)
  BY DEF LinkInv, TypeOK, EndsInv
<1> QED
  BY <1>1, Bounds DEF W, Wire, Sessions, Nobody

-----------------------------------------------------------------------------
(* Every step of the device keeps the invariant *)

LEMMA StartKeeps ==
    ASSUME LinkInv, Start
    PROVE  LinkInv'
<1>1. /\ device = "stopped" /\ conn = Nobody /\ lineBuf' = <<>>
      /\ UNCHANGED <<kind, session, bridge, calls, pending, written, outcome, up, open, stops,
                     silent, held>>
      /\ W' = W /\ (Serial' <=> Serial)
  BY DEF Start, bridgeVars, faults, LinkInv, EndsInv, W, Wire, Serial
<1>0. lineBuf' \in Seq(Pieces)
  BY <1>1
<1>2. CASE Serial
  <2>1. device' = "serving" /\ conn' = 1 /\ Put(1, Ready) /\ up[1] = <<>>
    BY <1>2 DEF Start, LinkInv, EndsInv
  <2>2. resync' = (resync \/ bridge = "ready" \/ down[1] # <<>>)
    BY <1>2 DEF Start
  <2>3. resync' \in BOOLEAN /\ (resync' <=> resync \/ bridge = "ready" \/ down[1] # <<>>)
    BY <2>2, Zenon
  <2>4. /\ down' \in [Sessions -> Seq(Lines)]
        /\ bridge # "off" => down'[1] = Append(down[1], Ready)
        /\ bridge = "off" => down' = down
    BY <1>2, <2>1, PutIs, LineFacts, WireFacts DEF LinkInv
  <2>5. TypeOK'
    BY <1>0, <1>1, <2>1, <2>3, <2>4, Bounds DEF LinkInv, TypeOK
  <2>6. EndsInv'
    BY <1>1, <1>2, <2>1, <2>4 DEF LinkInv, EndsInv, Nobody
  <2>7. FrameInv'
    BY <1>1, <2>1, <1>2 DEF LinkInv, FrameInv
  <2>8. LatestInv'
    BY <1>1, <1>2, <2>1, WireFacts DEF LatestInv
  <2>9. GreetInv'
    <3>1. ~resync' => down[1] = <<>> /\ Append(down[1], Ready) = <<Ready>>
      BY <2>3, Small
    <3> QED
      BY <1>1, <1>2, <2>1, <2>4, <3>1 DEF GreetInv, Idle
  <2>10. ExchangeInv'
    BY <1>1, <1>2, <2>3 DEF ExchangeInv
  <2> QED
    BY <2>5, <2>6, <2>7, <2>8, <2>9, <2>10 DEF LinkInv
<1>3. CASE ~Serial
  <2>1. device' = "listening" /\ conn' = Nobody /\ UNCHANGED <<down, resync>>
    BY <1>3 DEF Start
  <2>2. TypeOK'
    BY <1>0, <1>1, <2>1, Bounds DEF LinkInv, TypeOK, Nobody
  <2>3. EndsInv'
    BY <1>1, <1>3, <2>1 DEF LinkInv, EndsInv, Nobody
  <2>4. FrameInv'
    BY <1>1, <2>1 DEF LinkInv, FrameInv
  <2>5. LatestInv'
    BY <1>1, <2>1, WireFacts DEF LinkInv, LatestInv, Latest
  <2>6. GreetInv' /\ ExchangeInv'
    BY <1>1, <1>3, <2>1, WireFacts DEF LinkInv, GreetInv, ExchangeInv, Idle, Cut, OnItsWay
  <2> QED
    BY <2>2, <2>3, <2>4, <2>5, <2>6 DEF LinkInv
<1> QED
  BY <1>2, <1>3

LEMMA AcceptKeeps ==
    ASSUME LinkInv, NEW s \in Sessions, Accept(s)
    PROVE  LinkInv'
<1>1. /\ device = "listening" /\ "device" \in open[s] /\ device' = "serving" /\ conn' = s
      /\ lineBuf' = <<>> /\ Put(s, Ready)
      /\ UNCHANGED <<kind, session, bridge, calls, pending, written, outcome, up, open, stops, resync,
                     silent, held>>
      /\ W' = W /\ (Serial' <=> Serial) /\ ~Serial /\ ~resync /\ conn = Nobody
  BY DEF Accept, bridgeVars, faults, LinkInv, EndsInv, W, Wire, Serial
<1>2. /\ s <= session /\ up[s] = <<>> /\ s # Nobody /\ lineBuf' \in Seq(Pieces)
      /\ "bridge" \in open[s] <=> bridge # "off" /\ s = session
  BY <1>1, WireFacts DEF LinkInv, EndsInv
<1>3. /\ down' \in [Sessions -> Seq(Lines)]
      /\ \A c \in Sessions : c # s => down'[c] = down[c]
      /\ "bridge" \in open[s] => down'[s] = Append(down[s], Ready)
      /\ "bridge" \notin open[s] => down' = down
  BY <1>1, PutIs, LineFacts DEF LinkInv
<1>4. TypeOK'
  BY <1>1, <1>2, <1>3 DEF LinkInv, TypeOK, Sessions
<1>5. EndsInv'
  <2>1. ASSUME NEW c \in Sessions
        PROVE  /\ "bridge" \in open[c] <=> bridge # "off" /\ c = session
               /\ "device" \in open[c] => c <= session
               /\ up[c] = <<>>
               /\ c > session => down'[c] = <<>>
    <3>1. /\ "bridge" \in open[c] <=> bridge # "off" /\ c = session
          /\ "device" \in open[c] => c <= session
          /\ conn # c => up[c] = <<>>
          /\ c > session => down[c] = <<>>
      BY <1>1 DEF LinkInv, EndsInv
    <3>2. conn # c
      BY <1>1, WireFacts
    <3>3. c > session => c # s
      BY <1>2 DEF LinkInv, TypeOK, Sessions
    <3> QED
      BY <1>3, <3>1, <3>2, <3>3
  <2>2. /\ pending # Nobody => bridge = "ready"
        /\ written = 0 <=> pending = Nobody
        /\ pending <= calls
        /\ bridge # "off" => session # 0
    BY DEF LinkInv, EndsInv
  <2> QED
    BY <1>1, <1>2, <2>1, <2>2 DEF EndsInv
<1>6. FrameInv'
  BY <1>1, <1>2 DEF LinkInv, FrameInv
<1>7. LatestInv'
  BY <1>1, <1>2 DEF LinkInv, LatestInv, Latest
<1>8. bridge = "ready" => s # session
  BY <1>1, <1>2 DEF LinkInv, ExchangeInv
<1>9. ExchangeInv'
  BY <1>1, <1>2, <1>3, <1>8, WireFacts DEF LinkInv, ExchangeInv, Idle, Cut, OnItsWay
<1>10. GreetInv'
  <2> SUFFICES ASSUME bridge = "connecting"
               PROVE  /\ Idle(session)' /\ down'[session] \in {<<>>, <<Ready>>}
                      /\ "device" \in open'[session] /\ conn' # session => down'[session] = <<>>
    BY <1>1 DEF GreetInv
  <2>1. Idle(session) /\ down[session] \in {<<>>, <<Ready>>}
        /\ ("device" \in open[session] => down[session] = <<>>)
    BY <1>1, WireFacts DEF LinkInv, GreetInv
  <2>2. CASE s = session
    <3>1. down[s] = <<>> /\ down'[s] = <<Ready>>
      BY <1>1, <1>2, <1>3, <2>1, <2>2, Small
    <3> QED
      BY <1>1, <1>2, <2>2, <3>1 DEF Idle
  <2>3. CASE s # session
    BY <1>1, <1>2, <1>3, <2>1, <2>3, WireFacts DEF Idle
  <2> QED
    BY <2>2, <2>3
<1> QED
  BY <1>4, <1>5, <1>6, <1>7, <1>9, <1>10 DEF LinkInv

LEMMA AcceptFailsKeeps ==
    ASSUME LinkInv, NEW s \in Sessions, AcceptFails(s)
    PROVE  LinkInv'
<1>1. /\ device = "listening" /\ device' = "exited"
      /\ open' = [c \in Sessions |-> open[c] \ {"device"}]
      /\ UNCHANGED <<kind, session, bridge, calls, pending, written, outcome, up, down, conn,
                     lineBuf, stops, resync,
                     silent, held>>
      /\ W' = W /\ (Serial' <=> Serial) /\ ~Serial /\ conn = Nobody
  BY DEF AcceptFails, bridgeVars, faults, LinkInv, EndsInv, W, Wire, Serial
<1>2. TypeOK'
  BY <1>1 DEF LinkInv, TypeOK
<1>3. EndsInv'
  BY <1>1 DEF LinkInv, EndsInv
<1>4. FrameInv' /\ LatestInv'
  BY <1>1 DEF LinkInv, FrameInv, LatestInv, Latest
<1>5. GreetInv' /\ ExchangeInv'
  BY <1>1, WireFacts DEF LinkInv, GreetInv, ExchangeInv, Idle, Cut, OnItsWay
<1> QED
  BY <1>2, <1>3, <1>4, <1>5 DEF LinkInv

LEMMA PeerGoneKeeps ==
    ASSUME LinkInv, PeerGone
    PROVE  LinkInv'
<1>1. /\ device = "serving" /\ device' = "listening" /\ conn' = Nobody
      /\ "bridge" \notin open[conn] /\ up[conn] = <<>>
      /\ open' = [open EXCEPT ![conn] = {}]
      /\ UNCHANGED <<kind, session, bridge, calls, pending, written, outcome, up, down,
                     lineBuf, stops, resync,
                     silent, held>>
      /\ W' = W /\ (Serial' <=> Serial) /\ ~Serial /\ conn # Nobody /\ conn \in Sessions
  BY WireFacts DEF PeerGone, bridgeVars, faults, LinkInv, EndsInv, W, Wire, Serial
<1>2. bridge # "off" => conn # session
  BY <1>1, WireFacts DEF LinkInv, EndsInv
<1>3. TypeOK'
  BY <1>1, Bounds DEF LinkInv, TypeOK, Nobody
<1>4. EndsInv'
  BY <1>1, <1>2 DEF LinkInv, EndsInv, TypeOK, Nobody
<1>5. FrameInv'
  BY <1>1 DEF LinkInv, FrameInv
<1>6. LatestInv'
  BY <1>1, WireFacts DEF LinkInv, LatestInv, Latest
<1>7. GreetInv' /\ ExchangeInv'
  BY <1>1, <1>2, WireFacts DEF LinkInv, TypeOK, GreetInv, ExchangeInv, Idle, Cut, OnItsWay
<1> QED
  BY <1>3, <1>4, <1>5, <1>6, <1>7 DEF LinkInv

LEMMA StopKeeps ==
    ASSUME LinkInv, NEW heard \in BOOLEAN, Stop(heard)
    PROVE  LinkInv'
<1>1. /\ device # "stopped" /\ device' = "stopped" /\ conn' = Nobody
      /\ stops < MaxStops /\ stops' = stops + 1
      /\ up' = [s \in Sessions |-> <<>>]
      /\ open' = [s \in Sessions |-> open[s] \ {"device"}]
      /\ down' \in IF Serial THEN {down} ELSE {down, [s \in Sessions |-> <<>>]}
      /\ UNCHANGED <<kind, session, bridge, calls, pending, written, outcome, lineBuf, resync>>
      /\ silent' \in BOOLEAN /\ held' = FALSE
      /\ W' = W /\ (Serial' <=> Serial)
  BY DEF Stop, bridgeVars, W, Wire, Serial, LinkInv, TypeOK
<1>0. down' = down \/ (~Serial /\ down' = [s \in Sessions |-> <<>>])
  <2>1. CASE Serial
    BY <1>1, <2>1
  <2>2. CASE ~Serial
    <3>1. down' \in {down, [s \in Sessions |-> <<>>]}
      BY <1>1, <2>2
    <3> QED
      BY <2>2, <3>1
  <2> QED
    BY <2>1, <2>2
<1>2. /\ stops' \in 0..MaxStops /\ up' \in [Sessions -> Seq(Pieces)]
      /\ down' \in [Sessions -> Seq(Lines)]
      /\ open' \in [Sessions -> SUBSET {"bridge", "device"}]
  <2>1. stops' \in 0..MaxStops
    BY <1>1, Bounds DEF LinkInv, TypeOK
  <2>2. up' \in [Sessions -> Seq(Pieces)]
    BY <1>1
  <2>3. [s \in Sessions |-> <<>>] \in [Sessions -> Seq(Lines)]
    OBVIOUS
  <2>4. down' \in [Sessions -> Seq(Lines)]
    BY <1>0, <2>3 DEF LinkInv, TypeOK
  <2>5. open' \in [Sessions -> SUBSET {"bridge", "device"}]
    BY <1>1 DEF LinkInv, TypeOK
  <2> QED
    BY <2>1, <2>2, <2>4, <2>5
<1>3. TypeOK'
  <2>1. silent' \in BOOLEAN /\ held' \in BOOLEAN
    BY <1>1, Zenon
  <2> QED
    BY <1>1, <1>2, <2>1, Bounds DEF LinkInv, TypeOK, Nobody
<1>4. EndsInv'
  <2>1. Serial => up'[1] = <<>> /\ device' = "stopped" /\ (bridge = "off" => down'[1] = <<>>)
    BY <1>0, <1>1, WireFacts DEF LinkInv, EndsInv
  <2>2. ASSUME ~Serial, NEW c \in Sessions
        PROVE  /\ "bridge" \in open'[c] <=> bridge # "off" /\ c = session
               /\ "device" \notin open'[c]
               /\ up'[c] = <<>>
               /\ c > session => down'[c] = <<>>
    BY <1>0, <1>1, <2>2 DEF LinkInv, EndsInv
  <2>3. /\ pending # Nobody => bridge = "ready"
        /\ written = 0 <=> pending = Nobody
        /\ pending <= calls
        /\ bridge # "off" => session # 0
        /\ ~Serial => ~resync /\ Nobody <= session
    BY Bounds DEF LinkInv, EndsInv, TypeOK, Nobody
  <2> QED
    BY <1>1, <2>1, <2>2, <2>3 DEF EndsInv
<1>5. FrameInv'
  BY <1>1, FramedEmpty DEF LinkInv, FrameInv
<1>6. LatestInv'
  BY <1>1, WireFacts DEF LinkInv, LatestInv
<1>7. GreetInv'
  BY <1>0, <1>1, WireFacts DEF LinkInv, GreetInv, Idle
<1>8. ExchangeInv'
  <2> SUFFICES ASSUME bridge = "ready"
               PROVE  ExchangeInv'
    BY <1>1 DEF ExchangeInv
  <2>1. up'[W] = <<>> /\ conn' # W /\ "device" \notin open'[session]
        /\ (down'[W] = down[W] \/ down'[W] = <<>>)
    BY <1>0, <1>1, WireFacts
  <2>2. ~resync => \/ pending = Nobody /\ down[W] = <<>>
                   \/ pending # Nobody /\ down[W] = <<>>
                   \/ written = 2 /\ pending # Nobody /\ down[W] = <<Answer(pending)>>
    BY DEF LinkInv, ExchangeInv, EndsInv
  <2> QED
    BY <1>1, <2>1, <2>2 DEF ExchangeInv, Idle, Cut
<1> QED
  BY <1>3, <1>4, <1>5, <1>6, <1>7, <1>8 DEF LinkInv

\* A piece is read: into an empty line buffer, or behind the half of its own line.
LEMMA ReceiveKeeps ==
    ASSUME LinkInv, Receive
    PROVE  LinkInv'
<1> DEFINE q == up[conn]
           p == Head(q)
<1>1. /\ device = "serving" /\ q # <<>> /\ lineBuf' = Append(lineBuf, p)
      /\ p.last => device' = "handling"
      /\ ~p.last => device' = "serving"
      /\ up' = [up EXCEPT ![conn] = Tail(q)]
      /\ UNCHANGED <<kind, session, bridge, calls, pending, written, outcome, down, open, conn,
                     stops, resync,
                     silent, held>>
      /\ W' = W /\ (Serial' <=> Serial)
  BY DEF Receive, bridgeVars, faults, W, Wire, Serial
<1>2. conn \in Sessions /\ conn # Nobody
  BY <1>1, WireFacts DEF LinkInv, EndsInv
<1>3. /\ q \in Seq(Pieces) /\ Framed(q) /\ p \in Pieces /\ q[1] = p
      /\ Tail(q) \in Seq(Pieces) /\ Framed(Tail(q))
      /\ Tail(q) # <<>> => Follows(p, Tail(q)[1]) /\ Tail(q)[Len(Tail(q))] = q[Len(q)]
      /\ Tail(q) = <<>> => q[Len(q)] = p
  <2>1. q \in Seq(Pieces) /\ Framed(q)
    BY <1>2 DEF LinkInv, TypeOK, FrameInv
  <2> QED
    BY <1>1, <2>1, FirstTaken, FramedTail
<1>4. /\ up' \in [Sessions -> Seq(Pieces)] /\ up'[conn] = Tail(q)
      /\ \A s \in Sessions : s # conn => up'[s] = up[s]
  BY <1>1, <1>2, <1>3 DEF LinkInv, TypeOK
<1>5. \/ /\ lineBuf = <<>> /\ lineBuf' = <<p>> /\ (~Serial => ~p.last)
      \/ \E n \in Calls : /\ lineBuf = <<Head1(n)>> /\ p = Tail1(n) /\ p.last
                          /\ lineBuf' = <<Head1(n), Tail1(n)>>
  <2>1. CASE lineBuf = <<>>
    BY <1>1, <1>3, <2>1, Small, PieceFacts DEF LinkInv, FrameInv
  <2>2. CASE lineBuf # <<>>
    <3>1. PICK n \in Calls : lineBuf = <<Head1(n)>> /\ q[1] = Tail1(n)
      BY <1>1, <2>2 DEF LinkInv, FrameInv
    <3>2. p = Tail1(n) /\ p.last
      BY <1>3, <3>1, PieceFacts
    <3>3. lineBuf' = Append(<<Head1(n)>>, Tail1(n))
      BY <1>1, <3>1, <3>2
    <3>4. lineBuf' = <<Head1(n), Tail1(n)>>
      BY <3>3, Small, Zenon
    <3> QED
      BY <3>1, <3>2, <3>4
  <2> QED
    BY <2>1, <2>2
<1>6. lineBuf' \in Seq(Pieces) /\ lineBuf' # <<>> /\ lineBuf'[Len(lineBuf')] = p
  BY <1>1, <1>3, LastAppended DEF LinkInv, TypeOK
<1>7. TypeOK'
  <2>1. device' \in {"serving", "handling"}
    BY <1>1
  <2> QED
    BY <1>1, <1>4, <1>6, <2>1 DEF LinkInv, TypeOK
<1>8. EndsInv'
  <2>1. Serial => conn = 1
    BY <1>2 DEF LinkInv, EndsInv
  <2>2. device' \in {"serving", "handling"}
    BY <1>1
  <2> QED
    BY <1>1, <1>2, <1>4, <2>1, <2>2 DEF LinkInv, EndsInv
<1>9. FrameInv'
  <2>1. \A s \in Sessions : Framed(up'[s])
    BY <1>3, <1>4 DEF LinkInv, FrameInv
  <2>2. CASE ~p.last
    <3>1. lineBuf' = <<p>> /\ p.call \in Calls /\ p = Head1(p.call)
      BY <1>3, <1>5, <2>2, PieceIs
    <3>2. Tail(q) # <<>> => Tail(q)[1] = Tail1(p.call)
      BY <1>3, <2>2 DEF Follows
    <3> QED
      BY <1>1, <1>4, <2>1, <2>2, <3>1, <3>2 DEF FrameInv
  <2>3. CASE p.last
    <3>1. Tail(q) # <<>> => ~Tail(q)[1].last
      BY <1>3, <2>3 DEF Follows
    <3>2. p.call \in Calls /\ p = Tail1(p.call)
      BY <1>3, <2>3, PieceIs
    <3>3. LinesAreWhole'
      BY <1>1, <1>5, <2>3, <3>2 DEF LinesAreWhole
    <3> QED
      BY <1>1, <1>4, <2>1, <2>3, <3>1, <3>3 DEF FrameInv
  <2> QED
    BY <2>2, <2>3
<1>10. LatestInv'
  <2> SUFFICES ASSUME bridge = "ready"
               PROVE  /\ up'[W] # <<>> => Latest(up'[W][Len(up'[W])])
                      /\ up'[W] = <<>> /\ conn = W => Latest(p)
    BY <1>1, <1>6 DEF LatestInv, Latest
  <2>1. up[W] # <<>> => Latest(up[W][Len(up[W])])
    BY DEF LinkInv, LatestInv
  <2>2. CASE conn = W
    BY <1>1, <1>3, <1>4, <2>1, <2>2
  <2>3. CASE conn # W
    BY <1>4, <2>1, <2>3, WireFacts
  <2> QED
    BY <2>2, <2>3
<1>11. GreetInv'
  <2> SUFFICES ASSUME bridge = "connecting"
               PROVE  GreetInv'
    BY <1>1 DEF GreetInv
  <2>1. CASE Serial
    <3>1. conn = 1
      BY <1>2, <2>1 DEF LinkInv, EndsInv
    <3>2. ~Idle(1)
      BY <1>1, <3>1 DEF Idle
    <3> QED
      BY <1>1, <2>1, <3>2 DEF LinkInv, GreetInv
  <2>2. CASE ~Serial
    <3>1. Idle(session) /\ session # conn
      BY <1>1, <2>2 DEF LinkInv, GreetInv, Idle
    <3> QED
      BY <1>1, <1>4, <2>2, <3>1, WireFacts DEF LinkInv, GreetInv, Idle
  <2> QED
    BY <2>1, <2>2
<1>12. ExchangeInv'
  <2> SUFFICES ASSUME bridge = "ready"
               PROVE  ExchangeInv'
    BY <1>1 DEF ExchangeInv
  <2>1. CASE conn # W
    <3>1. up'[W] = up[W] /\ W \in Sessions
      BY <1>4, <2>1, WireFacts
    <3> QED
      BY <1>1, <2>1, <3>1 DEF LinkInv, ExchangeInv, Idle, Cut, OnItsWay
  <2>2. CASE conn = W
    <3>1. ~Idle(W) /\ ~Cut(W)
      BY <1>1, <2>2 DEF Idle, Cut
    <3> SUFFICES ASSUME ~resync
                 PROVE  OnItsWay(pending)' /\ down[W] = <<>> /\ pending # Nobody
      BY <1>1, <2>2 DEF LinkInv, ExchangeInv
    <3>2. OnItsWay(pending) /\ down[W] = <<>> /\ pending # Nobody
      BY <3>1 DEF LinkInv, ExchangeInv
    <3>3. pending \in Calls
      BY <3>2, Bounds DEF LinkInv, TypeOK, Calls, Nobody
    <3>4. CASE lineBuf = <<>> /\ written = 1 /\ up[W] = <<Head1(pending)>>
      <4>1. p = Head1(pending) /\ Tail(q) = <<>> /\ ~p.last
        BY <2>2, <3>3, <3>4, Small, PieceFacts
      <4> QED
        BY <1>1, <1>4, <2>2, <3>2, <3>4, <4>1, Small DEF OnItsWay
    <3>5. CASE lineBuf = <<>> /\ written = 2 /\ up[W] = <<Head1(pending), Tail1(pending)>>
      <4>1. p = Head1(pending) /\ Tail(q) = <<Tail1(pending)>> /\ ~p.last
        BY <2>2, <3>3, <3>5, Small, PieceFacts
      <4> QED
        BY <1>1, <1>4, <2>2, <3>2, <3>5, <4>1, Small DEF OnItsWay
    <3>6. CASE lineBuf = <<Head1(pending)>> /\ written = 2 /\ up[W] = <<Tail1(pending)>>
      <4>1. p = Tail1(pending) /\ Tail(q) = <<>> /\ p.last
        BY <2>2, <3>3, <3>6, Small, PieceFacts
      <4> QED
        BY <1>1, <1>4, <2>2, <3>2, <3>6, <4>1, Small DEF OnItsWay
    <3> QED
      BY <1>1, <2>2, <3>2, <3>4, <3>5, <3>6 DEF OnItsWay
  <2> QED
    BY <2>1, <2>2
<1> QED
  BY <1>7, <1>8, <1>9, <1>10, <1>11, <1>12 DEF LinkInv

\* A line is answered on its own wire, by its own answer when it is one whole command.
LEMMA RespondKeeps ==
    ASSUME LinkInv, Respond
    PROVE  LinkInv'
<1> DEFINE n == lineBuf[Len(lineBuf)].call
           line == IF lineBuf = <<Head1(n), Tail1(n)>> THEN Answer(n) ELSE InvalidJson
<1>1. /\ device = "handling" /\ device' = "serving" /\ lineBuf' = <<>> /\ Put(conn, line)
      /\ UNCHANGED <<kind, session, bridge, calls, pending, written, outcome, up, open, conn,
                     stops, resync, silent>>
      /\ held' = FALSE
      /\ W' = W /\ (Serial' <=> Serial)
  BY DEF Respond, bridgeVars, W, Wire, Serial
<1>2. conn \in Sessions /\ conn # Nobody
  BY <1>1, WireFacts DEF LinkInv, EndsInv
<1>3. n \in Calls
  <2>1. PICK m \in Calls : lineBuf = <<Head1(m), Tail1(m)>> \/ lineBuf = <<Tail1(m)>>
    BY <1>1 DEF LinkInv, FrameInv, LinesAreWhole
  <2>2. n = m
    BY <2>1, Small, PieceFacts
  <2> QED
    BY <2>1, <2>2
<1>4. line \in Lines /\ line # Ready /\ lineBuf' \in Seq(Pieces)
  BY <1>1, <1>3, LineFacts
<1> HIDE DEF line
<1>5. /\ down' \in [Sessions -> Seq(Lines)]
      /\ \A s \in Sessions : s # conn => down'[s] = down[s]
      /\ (IF Serial THEN bridge # "off" ELSE "bridge" \in open[conn]) =>
           down'[conn] = Append(down[conn], line)
      /\ ~(IF Serial THEN bridge # "off" ELSE "bridge" \in open[conn]) => down' = down
  BY <1>1, <1>2, <1>4, PutIs DEF LinkInv
<1>6. TypeOK'
  BY <1>1, <1>4, <1>5 DEF LinkInv, TypeOK
<1>7. EndsInv'
  <2>1. Serial => conn = 1
    BY <1>2 DEF LinkInv, EndsInv
  <2>2. ~Serial => \A s \in Sessions : s > session => down'[s] = <<>>
    <3> SUFFICES ASSUME ~Serial, NEW s \in Sessions, s > session
                 PROVE  down'[s] = <<>>
      OBVIOUS
    <3>1. down[s] = <<>> /\ conn <= session
      BY DEF LinkInv, EndsInv
    <3>2. s # conn
      BY <3>1 DEF LinkInv, TypeOK, Sessions
    <3> QED
      BY <1>5, <3>1, <3>2
  <2> QED
    BY <1>1, <1>2, <1>5, <2>1, <2>2 DEF LinkInv, EndsInv
<1>8. FrameInv'
  BY <1>1 DEF LinkInv, FrameInv
<1>9. LatestInv'
  BY <1>1 DEF LinkInv, LatestInv, Latest
<1>10. GreetInv'
  <2> SUFFICES ASSUME bridge = "connecting"
               PROVE  GreetInv'
    BY <1>1 DEF GreetInv
  <2>1. CASE Serial
    <3>1. conn = 1 /\ down'[1] = Append(down[1], line) /\ ~Idle(1)
      BY <1>1, <1>2, <1>5, <2>1 DEF LinkInv, EndsInv, Idle
    <3>2. Head(down'[1]) # Ready
      <4>1. CASE down[1] = <<>>
        BY <1>4, <3>1, <4>1, Small
      <4>2. CASE down[1] # <<>>
        <5>1. Head(down[1]) # Ready
          BY <2>1, <3>1, <4>2 DEF LinkInv, GreetInv
        <5>2. Head(Append(down[1], line)) = Head(down[1])
          BY <1>2, <1>4, <3>1, <4>2, LastAppended DEF LinkInv, TypeOK
        <5> QED
          BY <3>1, <5>1, <5>2
      <4> QED
        BY <4>1, <4>2
    <3> QED
      BY <1>1, <2>1, <3>2 DEF GreetInv
  <2>2. CASE ~Serial
    <3>1. Idle(session) /\ session # conn
      BY <1>1, <2>2 DEF LinkInv, GreetInv, Idle
    <3> QED
      BY <1>1, <1>5, <2>2, <3>1, WireFacts DEF LinkInv, GreetInv, Idle
  <2> QED
    BY <2>1, <2>2
<1>11. ExchangeInv'
  <2> SUFFICES ASSUME bridge = "ready"
               PROVE  ExchangeInv'
    BY <1>1 DEF ExchangeInv
  <2>1. CASE conn # W
    <3>1. down'[W] = down[W] /\ W \in Sessions
      BY <1>5, <2>1, WireFacts
    <3> QED
      BY <1>1, <2>1, <3>1 DEF LinkInv, ExchangeInv, Idle, Cut, OnItsWay
  <2>2. CASE conn = W
    <3>1. ~Idle(W) /\ ~Cut(W)
      BY <1>1, <2>2 DEF Idle, Cut
    <3> SUFFICES ASSUME ~resync
                 PROVE  Idle(W)' /\ written = 2 /\ down'[W] = <<Answer(pending)>>
      BY <1>1, <2>2 DEF LinkInv, ExchangeInv
    <3>2. OnItsWay(pending) /\ down[W] = <<>> /\ pending # Nobody
      BY <3>1 DEF LinkInv, ExchangeInv
    <3>3. lineBuf = <<Head1(pending), Tail1(pending)>> /\ written = 2 /\ up[W] = <<>>
      BY <1>1, <3>2 DEF OnItsWay
    <3>4. pending \in Calls
      BY <3>2, Bounds DEF LinkInv, TypeOK, Calls, Nobody
    <3>5. n = pending
      BY <3>3, <3>4, Small, PieceFacts
    <3>6. line = Answer(pending)
      BY <3>3, <3>5 DEF line
    <3>7. IF Serial THEN bridge # "off" ELSE "bridge" \in open[conn]
      BY <1>2, <2>2, WireFacts DEF LinkInv, EndsInv
    <3>8. down'[W] = <<Answer(pending)>>
      BY <1>5, <2>2, <3>2, <3>6, <3>7, Small
    <3> QED
      BY <1>1, <3>3, <3>8 DEF Idle
  <2> QED
    BY <2>1, <2>2
<1> QED
  BY <1>6, <1>7, <1>8, <1>9, <1>10, <1>11 DEF LinkInv

LEMMA HoldUpKeeps ==
    ASSUME LinkInv, HoldUp
    PROVE  LinkInv'
<1>1. /\ UNCHANGED <<kind, session, bridge, calls, pending, written, outcome, up, down, open,
                     device, conn, lineBuf, stops, resync, silent>>
      /\ held' = TRUE
  BY DEF HoldUp, bridgeVars, deviceVars
<1>2. TypeOK' /\ W' = W /\ (Serial' <=> Serial)
  BY <1>1 DEF LinkInv, TypeOK, W, Wire, Serial
<1>3. EndsInv'
  BY <1>1, <1>2 DEF LinkInv, EndsInv
<1>4. FrameInv'
  BY <1>1, <1>2 DEF LinkInv, FrameInv, LinesAreWhole
<1>5. LatestInv' /\ GreetInv' /\ ExchangeInv'
  BY <1>1, <1>2 DEF LinkInv, LatestInv, Latest, GreetInv, ExchangeInv, Idle, Cut, OnItsWay
<1> QED
  BY <1>2, <1>3, <1>4, <1>5 DEF LinkInv

-----------------------------------------------------------------------------
(* Every step of the bridge keeps the invariant *)

LEMMA OpenKeeps ==
    ASSUME LinkInv, Open
    PROVE  LinkInv'
<1>1. /\ bridge = "off" /\ session < MaxSessions /\ session' = session + 1 /\ bridge' = "connecting"
      /\ pending' = Nobody /\ written' = 0 /\ ~resync' /\ resync' \in BOOLEAN
      /\ Serial => open' = open
      /\ ~Serial => open' = [open EXCEPT ![session + 1] = {"bridge", "device"}]
      /\ UNCHANGED <<kind, calls, outcome, up, down, device, conn, lineBuf, stops, held>>
      /\ silent' = FALSE
      /\ (Serial' <=> Serial)
  BY DEF Open, deviceVars, Serial
<1>2. session \in Nat /\ session + 1 \in Sessions /\ session' \in 0..MaxSessions /\ session' # 0
  BY <1>1, Bounds DEF LinkInv, TypeOK, Sessions
<1>3. TypeOK'
  <2>1. open' \in [Sessions -> SUBSET {"bridge", "device"}]
    BY <1>1, <1>2 DEF LinkInv, TypeOK
  <2>2. pending' \in 0..MaxCalls /\ written' \in 0..2
    BY <1>1, Bounds DEF Nobody
  <2> QED
    BY <1>1, <1>2, <2>1, <2>2 DEF LinkInv, TypeOK
<1>4. EndsInv'
  <2>1. Nobody <= calls
    BY DEF LinkInv, TypeOK, Nobody
  <2>2. ASSUME ~Serial
        PROVE  conn <= session' /\ conn # session + 1 /\ (conn # Nobody => "device" \in open'[conn])
    <3>1. conn <= session /\ (conn # Nobody => "device" \in open[conn])
      BY <2>2 DEF LinkInv, EndsInv
    <3>2. conn \in Nat /\ conn <= session + 1 /\ conn # session + 1
      BY <1>2, <3>1 DEF LinkInv, TypeOK
    <3> QED
      BY <1>1, <1>2, <2>2, <3>1, <3>2, WireFacts DEF LinkInv, TypeOK
  <2>3. ASSUME ~Serial, NEW s \in Sessions
        PROVE  /\ "bridge" \in open'[s] <=> s = session'
               /\ "device" \in open'[s] => s <= session'
               /\ conn # s => up[s] = <<>>
               /\ s > session' => down[s] = <<>>
    <3>1. /\ "bridge" \notin open[s]
          /\ "device" \in open[s] => s <= session
          /\ conn # s => up[s] = <<>>
          /\ s > session => down[s] = <<>>
      BY <1>1, <2>3 DEF LinkInv, EndsInv
    <3>2. s \in Nat /\ (s <= session => s <= session + 1) /\ (s > session + 1 => s > session)
      BY <1>2 DEF Sessions
    <3>3. open'[s] = IF s = session + 1 THEN {"bridge", "device"} ELSE open[s]
      BY <1>1, <1>2, <2>3 DEF LinkInv, TypeOK
    <3> QED
      BY <1>1, <3>1, <3>2, <3>3
  <2> QED
    BY <1>1, <1>2, <2>1, <2>2, <2>3 DEF LinkInv, EndsInv
<1>5. FrameInv'
  BY <1>1 DEF LinkInv, FrameInv, LinesAreWhole
<1>6. LatestInv' /\ ExchangeInv'
  BY <1>1 DEF LatestInv, ExchangeInv
<1>7. GreetInv'
  <2>1. Serial => down[1] = <<>>
    BY <1>1 DEF LinkInv, EndsInv
  <2>2. ASSUME ~Serial
        PROVE  Idle(session + 1) /\ down[session + 1] = <<>>
    <3>1. conn <= session /\ session + 1 > session
      BY <1>2, <2>2 DEF LinkInv, EndsInv
    <3>2. conn # session + 1
      BY <1>2, <3>1 DEF LinkInv, TypeOK
    <3> QED
      BY <1>2, <2>2, <3>1, <3>2 DEF LinkInv, EndsInv, Idle
  <2> QED
    BY <1>1, <2>1, <2>2 DEF GreetInv, Idle
<1> QED
  BY <1>3, <1>4, <1>5, <1>6, <1>7 DEF LinkInv

LEMMA LeaveKeeps ==
    ASSUME LinkInv, bridge # "off", NEW outcomes \in [Calls -> Outcomes], Leave(outcomes)
    PROVE  LinkInv'
<1>1. /\ bridge' = "off" /\ outcome' = outcomes /\ pending' = Nobody /\ written' = 0
      /\ open' = [open EXCEPT ![session] = @ \ {"bridge"}]
      /\ down' = [down EXCEPT ![W] = <<>>]
      /\ UNCHANGED <<kind, session, calls, up, device, conn, lineBuf, stops, resync, silent, held>>
      /\ (Serial' <=> Serial)
  BY DEF Leave, deviceVars, faults, Serial, W
<1>2. session \in Sessions /\ W \in Sessions /\ (Serial => W = 1) /\ (~Serial => W = session)
  BY WireFacts
<1>3. down' \in [Sessions -> Seq(Lines)] /\ down'[W] = <<>>
      /\ \A s \in Sessions : s # W => down'[s] = down[s]
  BY <1>1, <1>2 DEF LinkInv, TypeOK
<1>4. open' \in [Sessions -> SUBSET {"bridge", "device"}]
      /\ \A s \in Sessions : /\ "device" \in open'[s] <=> "device" \in open[s]
                             /\ "bridge" \in open'[s] <=> s # session /\ "bridge" \in open[s]
  BY <1>1, <1>2 DEF LinkInv, TypeOK
<1>5. TypeOK'
  <2>1. pending' \in 0..MaxCalls /\ written' \in 0..2
    BY <1>1, Bounds DEF Nobody
  <2> QED
    BY <1>1, <1>3, <1>4, <2>1 DEF LinkInv, TypeOK
<1>6. EndsInv'
  <2>1. Nobody <= calls
    BY DEF LinkInv, TypeOK, Nobody
  <2>2. ASSUME ~Serial, NEW s \in Sessions
        PROVE  /\ "bridge" \notin open'[s]
               /\ "device" \in open'[s] => s <= session
               /\ conn # s => up[s] = <<>>
               /\ s > session => down'[s] = <<>>
    <3>1. /\ "bridge" \in open[s] <=> s = session
          /\ "device" \in open[s] => s <= session
          /\ conn # s => up[s] = <<>>
          /\ s > session => down[s] = <<>>
      BY <2>2 DEF LinkInv, EndsInv
    <3> QED
      BY <1>3, <1>4, <3>1
  <2>3. ~Serial /\ conn # Nobody => "device" \in open'[conn]
    BY <1>4, WireFacts DEF LinkInv, EndsInv
  <2> QED
    BY <1>1, <1>2, <1>3, <2>1, <2>2, <2>3 DEF LinkInv, EndsInv
<1>7. FrameInv'
  BY <1>1 DEF LinkInv, FrameInv, LinesAreWhole
<1>8. LatestInv' /\ ExchangeInv' /\ GreetInv'
  BY <1>1 DEF LatestInv, ExchangeInv, GreetInv
<1> QED
  BY <1>5, <1>6, <1>7, <1>8 DEF LinkInv

LEMMA DieKeeps ==
    ASSUME LinkInv, Die
    PROVE  LinkInv'
<1>1. outcome \in [Calls -> Outcomes]
      /\ [outcome EXCEPT ![pending] = "dropped"] \in [Calls -> Outcomes]
  BY DEF LinkInv, TypeOK, Outcomes
<1> QED
  BY <1>1, LeaveKeeps DEF Die

LEMMA ReadyFailsKeeps ==
    ASSUME LinkInv, ReadyFails
    PROVE  LinkInv'
BY LeaveKeeps DEF ReadyFails, LinkInv, TypeOK

LEMMA ReadReadyKeeps ==
    ASSUME LinkInv, ReadReady
    PROVE  LinkInv'
<1>1. /\ bridge = "connecting" /\ bridge' = "ready" /\ down[W] # <<>> /\ Head(down[W]) = Ready
      /\ down' = [down EXCEPT ![W] = Tail(@)]
      /\ UNCHANGED <<kind, session, calls, pending, written, outcome, up, open, device, conn,
                     lineBuf, stops, resync,
                     silent, held>>
      /\ W' = W /\ (Serial' <=> Serial)
  BY DEF ReadReady, deviceVars, faults, Serial, W, Wire
<1>2. session \in Sessions /\ W \in Sessions /\ (Serial => W = 1) /\ (~Serial => W = session)
  BY <1>1, WireFacts
<1>3. /\ Idle(W) /\ (~resync => down[W] = <<Ready>>)
      /\ ~Serial /\ "device" \in open[session] => conn = session
  BY <1>1, <1>2 DEF LinkInv, GreetInv
<1>4. /\ down' \in [Sessions -> Seq(Lines)] /\ down'[W] = Tail(down[W])
      /\ \A s \in Sessions : s # W => down'[s] = down[s]
  BY <1>1, <1>2, FirstTaken DEF LinkInv, TypeOK
<1>5. TypeOK'
  BY <1>1, <1>4 DEF LinkInv, TypeOK
<1>6. EndsInv'
  <2>1. ASSUME ~Serial, NEW s \in Sessions, s > session
        PROVE  down'[s] = <<>>
    <3>1. s # session
      BY <2>1 DEF LinkInv, TypeOK, Sessions
    <3> QED
      BY <1>2, <1>4, <2>1, <3>1 DEF LinkInv, EndsInv
  <2> QED
    BY <1>1, <2>1 DEF LinkInv, EndsInv
<1>7. FrameInv'
  BY <1>1 DEF LinkInv, FrameInv, LinesAreWhole
<1>8. LatestInv' /\ GreetInv'
  BY <1>1, <1>3 DEF LatestInv, GreetInv, Idle
<1>9. ExchangeInv'
  <2>1. pending = Nobody
    BY <1>1 DEF LinkInv, EndsInv
  <2>2. ~resync => down'[W] = <<>>
    BY <1>3, <1>4, Small
  <2> QED
    BY <1>1, <1>3, <2>1, <2>2 DEF ExchangeInv, Idle
<1> QED
  BY <1>5, <1>6, <1>7, <1>8, <1>9 DEF LinkInv

\* A call that returns leaves nothing pending.
LEMMA ReturnKeepsType ==
    ASSUME TypeOK, NEW r \in Outcomes, Return(r)
    PROVE  /\ outcome' \in [Calls -> Outcomes]
           /\ pending' = Nobody /\ written' = 0 /\ pending' \in 0..MaxCalls /\ written' \in 0..2
<1>1. outcome' = [outcome EXCEPT ![pending] = r] /\ pending' = Nobody /\ written' = 0
  BY DEF Return
<1>2. outcome' \in [Calls -> Outcomes]
  BY <1>1 DEF TypeOK
<1> QED
  BY <1>1, <1>2, Bounds DEF Nobody

LEMMA ReadAnswerKeeps ==
    ASSUME LinkInv, ReadAnswer
    PROVE  LinkInv'
<1>1. /\ pending # Nobody /\ written = 2 /\ down[W] # <<>>
      /\ down' = [down EXCEPT ![W] = Tail(@)]
      /\ UNCHANGED <<kind, session, bridge, calls, up, open, device, conn, lineBuf, stops, resync,
                     silent, held>>
      /\ W' = W /\ (Serial' <=> Serial) /\ bridge = "ready"
  BY DEF ReadAnswer, deviceVars, faults, Serial, W, Wire, LinkInv, EndsInv
<1>2. session \in Sessions /\ W \in Sessions /\ (Serial => W = 1) /\ (~Serial => W = session)
  BY <1>1, WireFacts
<1>3. outcome' \in [Calls -> Outcomes] /\ pending' = Nobody /\ written' = 0
      /\ pending' \in 0..MaxCalls /\ written' \in 0..2
  <2>1. PICK r \in {"own", "other", "error"} : Return(r)
    BY DEF ReadAnswer
  <2> QED
    BY <2>1, ReturnKeepsType DEF LinkInv, Outcomes
<1>4. /\ down' \in [Sessions -> Seq(Lines)] /\ down'[W] = Tail(down[W])
      /\ \A s \in Sessions : s # W => down'[s] = down[s]
  BY <1>1, <1>2, FirstTaken DEF LinkInv, TypeOK
<1>5. TypeOK'
  BY <1>1, <1>3, <1>4 DEF LinkInv, TypeOK
<1>6. EndsInv'
  <2>1. ASSUME ~Serial, NEW s \in Sessions, s > session
        PROVE  down'[s] = <<>>
    <3>1. s # session
      BY <2>1 DEF LinkInv, TypeOK, Sessions
    <3> QED
      BY <1>2, <1>4, <2>1, <3>1 DEF LinkInv, EndsInv
  <2>2. Nobody <= calls
    BY DEF LinkInv, TypeOK, Nobody
  <2> QED
    BY <1>1, <1>3, <2>1, <2>2 DEF LinkInv, EndsInv
<1>7. FrameInv'
  BY <1>1 DEF LinkInv, FrameInv, LinesAreWhole
<1>8. LatestInv' /\ GreetInv'
  BY <1>1, <1>3 DEF LinkInv, LatestInv, GreetInv, Latest
<1>9. ExchangeInv'
  <2>1. ~resync => Idle(W) /\ down'[W] = <<>>
    BY <1>1, <1>4, Small DEF LinkInv, ExchangeInv
  <2> QED
    BY <1>1, <1>3, <2>1 DEF LinkInv, ExchangeInv, Idle
<1> QED
  BY <1>5, <1>6, <1>7, <1>8, <1>9 DEF LinkInv

LEMMA LinkLostKeeps ==
    ASSUME LinkInv, LinkLost
    PROVE  LinkInv'
<1>1. /\ ~Serial /\ down[session] = <<>> /\ "device" \notin open[session]
      /\ UNCHANGED <<kind, session, bridge, calls, up, down, open, device, conn, lineBuf, stops,
                     resync, silent, held>>
      /\ W' = W /\ (Serial' <=> Serial) /\ bridge = "ready"
  BY DEF LinkLost, LinkClosed, deviceVars, faults, Serial, W, Wire, LinkInv, EndsInv
<1>2. session \in Sessions /\ W = session
  BY <1>1, WireFacts
<1>3. outcome' \in [Calls -> Outcomes] /\ pending' = Nobody /\ written' = 0
      /\ pending' \in 0..MaxCalls /\ written' \in 0..2
  BY ReturnKeepsType DEF LinkLost, LinkInv, Outcomes
<1>4. conn # W /\ up[W] = <<>>
  BY <1>1, <1>2, WireFacts DEF LinkInv, EndsInv
<1>5. TypeOK'
  BY <1>1, <1>3 DEF LinkInv, TypeOK
<1>6. EndsInv'
  <2>1. Nobody <= calls
    BY DEF LinkInv, TypeOK, Nobody
  <2> QED
    BY <1>1, <1>3, <2>1 DEF LinkInv, EndsInv
<1>7. FrameInv'
  BY <1>1 DEF LinkInv, FrameInv, LinesAreWhole
<1>8. LatestInv' /\ GreetInv' /\ ExchangeInv'
  BY <1>1, <1>2, <1>3, <1>4 DEF LatestInv, GreetInv, ExchangeInv, Idle
<1> QED
  BY <1>5, <1>6, <1>7, <1>8 DEF LinkInv

\* A command goes out piece by piece, behind nothing but what was sent before it.
LEMMA WriteLineKeeps ==
    ASSUME LinkInv, WriteLine
    PROVE  LinkInv'
<1> DEFINE n == IF pending = Nobody THEN calls + 1 ELSE pending
           p == IF written = 0 THEN Head1(n) ELSE Tail1(n)
           swallowed == IF Serial THEN device \in {"stopped", "exited"} ELSE "device" \notin open[session]
<1>1. /\ bridge = "ready" /\ written \in {0, 1} /\ written' = written + 1 /\ pending' = n
      /\ pending = Nobody => calls < MaxCalls /\ calls' = calls + 1
      /\ pending # Nobody => calls' = calls
      /\ swallowed => up' = up
      /\ ~swallowed => up' = [up EXCEPT ![W] = Append(@, p)]
      /\ UNCHANGED <<kind, session, bridge, outcome, down, open, device, conn, lineBuf, stops, resync,
                     held>>
      /\ silent' = FALSE
      /\ W' = W /\ (Serial' <=> Serial)
  BY DEF WriteLine, deviceVars, Serial, W, Wire, LinkInv, TypeOK
<1>2. session \in Sessions /\ W \in Sessions /\ W # Nobody /\ (Serial => W = 1) /\ (~Serial => W = session)
  BY <1>1, WireFacts
<1>3. /\ n \in Calls /\ n # Nobody /\ n <= calls' /\ calls' \in 0..MaxCalls
      /\ (written = 1 => n = pending) /\ (written = 0 <=> pending = Nobody)
      /\ written' \in {1, 2} /\ (written' = 1 <=> written = 0) /\ (written' = 2 <=> written = 1)
  <2>1. written = 0 <=> pending = Nobody
    BY DEF LinkInv, EndsInv
  <2>2. calls \in 0..MaxCalls /\ pending \in 0..MaxCalls /\ pending <= calls
    BY DEF LinkInv, TypeOK, EndsInv
  <2>3. CASE pending = Nobody
    <3>1. n = calls + 1 /\ calls + 1 \in 1..MaxCalls /\ calls' = calls + 1
      BY <1>1, <2>2, <2>3, Bounds
    <3> QED
      BY <1>1, <2>1, <2>3, <3>1, Bounds DEF Calls, Nobody
  <2>4. CASE pending # Nobody
    <3>1. n = pending /\ calls' = calls /\ pending \in 1..MaxCalls
      BY <1>1, <2>2, <2>4, Bounds DEF Nobody
    <3> QED
      BY <1>1, <2>1, <2>2, <2>4, <3>1, Bounds DEF Calls, Nobody
  <2> QED
    BY <2>3, <2>4
<1>4. /\ p \in Pieces
      /\ written = 0 => p = Head1(n) /\ ~p.last
      /\ written = 1 => p = Tail1(n) /\ p.last
  BY <1>1, <1>3, PieceFacts
<1> HIDE DEF n, p
<1>5. swallowed => Cut(W)
  <2>1. CASE Serial
    BY <1>2, <2>1 DEF LinkInv, EndsInv, Cut
  <2>2. CASE ~Serial
    <3>1. swallowed => conn # session
      BY <1>2, <2>2 DEF LinkInv, EndsInv
    <3> QED
      BY <1>2, <2>2, <3>1 DEF LinkInv, EndsInv, Cut
  <2> QED
    BY <2>1, <2>2
<1>6. ~swallowed => conn = W /\ device \in {"serving", "handling"}
  <2>1. CASE Serial
    <3>1. ~swallowed => device \in {"serving", "handling"}
      BY <2>1 DEF LinkInv, EndsInv, TypeOK
    <3> QED
      BY <1>2, <2>1, <3>1 DEF LinkInv, EndsInv
  <2>2. CASE ~Serial
    <3>1. ~swallowed => conn = session
      BY <1>1, <2>2 DEF LinkInv, ExchangeInv
    <3> QED
      BY <1>2, <2>2, <3>1 DEF LinkInv, EndsInv
  <2> QED
    BY <2>1, <2>2
<1> HIDE DEF swallowed
<1>7. /\ up' \in [Sessions -> Seq(Pieces)]
      /\ \A s \in Sessions : s # W => up'[s] = up[s]
      /\ swallowed => up'[W] = up[W]
      /\ ~swallowed => up'[W] = Append(up[W], p)
  <2>1. Append(up[W], p) \in Seq(Pieces)
    BY <1>2, <1>4 DEF LinkInv, TypeOK
  <2> QED
    BY <1>1, <1>2, <2>1 DEF LinkInv, TypeOK
<1>8. up[W] \in Seq(Pieces) /\ Framed(up[W])
  BY <1>2 DEF LinkInv, TypeOK, FrameInv
\* What is still there was followed by this piece.
<1>9. ASSUME NEW last, Latest(last)
      PROVE  Follows(last, p) /\ (written = 0 => last.last) /\ (written = 1 => last = Head1(n))
  BY <1>1, <1>3, <1>4, <1>9, PieceFacts DEF Latest, Follows
<1>10. TypeOK'
  <2>1. silent' \in BOOLEAN
    BY <1>1, Zenon
  <2> QED
    BY <1>1, <1>3, <1>7, <2>1 DEF LinkInv, TypeOK, Calls
<1>11. EndsInv'
  <2>1. ASSUME ~Serial, NEW s \in Sessions, conn # s
        PROVE  up'[s] = <<>>
    <3>1. up[s] = <<>>
      BY <2>1 DEF LinkInv, EndsInv
    <3> QED
      BY <1>6, <1>7, <2>1, <3>1
  <2>2. ASSUME Serial, device = "stopped"
        PROVE  up'[1] = <<>>
    <3>1. up[1] = <<>> /\ swallowed
      BY <2>2 DEF LinkInv, EndsInv, swallowed
    <3> QED
      BY <1>2, <1>7, <2>2, <3>1
  <2> QED
    BY <1>1, <1>3, <2>1, <2>2 DEF LinkInv, EndsInv
<1>12. FrameInv'
  <2>1. \A s \in Sessions : Framed(up'[s])
    <3>1. ~swallowed => Framed(Append(up[W], p))
      <4>1. up[W] # <<>> => Follows(up[W][Len(up[W])], p)
        BY <1>1, <1>9 DEF LinkInv, LatestInv
      <4> QED
        BY <1>4, <1>8, <4>1, FramedAppend
    <3> QED
      BY <1>7, <3>1 DEF LinkInv, FrameInv
  <2>2. CASE up'[conn] = up[conn]
    BY <1>1, <2>1, <2>2 DEF LinkInv, FrameInv, LinesAreWhole
  <2>3. CASE ~swallowed /\ up[W] # <<>>
    <3>1. up'[conn] # <<>> /\ up'[conn][1] = up[conn][1] /\ up[conn] # <<>>
      BY <1>4, <1>6, <1>7, <1>8, <2>3, LastAppended
    <3> QED
      BY <1>1, <2>1, <3>1 DEF LinkInv, FrameInv, LinesAreWhole
  <2>4. CASE ~swallowed /\ up[W] = <<>>
    <3>1. conn = W /\ up'[conn][1] = p
      BY <1>4, <1>6, <1>7, <1>8, <2>4, LastAppended
    <3>2. lineBuf # <<>> => Latest(lineBuf[Len(lineBuf)])
      BY <1>1, <2>4, <3>1 DEF LinkInv, LatestInv
    <3>3. ASSUME device = "serving", lineBuf = <<>>, ~Serial
          PROVE  ~p.last
      <4>1. ~resync /\ ~Cut(W)
        BY <3>1, <3>3 DEF LinkInv, EndsInv, Cut
      <4>2. ~OnItsWay(pending)
        BY <1>1, <2>4, <3>3, Small DEF OnItsWay
      <4>3. pending = Nobody
        BY <1>1, <4>1, <4>2 DEF LinkInv, ExchangeInv
      <4> QED
        BY <1>3, <1>4, <4>3
    <3>4. ASSUME NEW m \in Calls, lineBuf = <<Head1(m)>>
          PROVE  p = Tail1(m)
      <4>1. Latest(Head1(m))
        BY <3>2, <3>4, Small
      <4>2. written = 1 /\ Head1(m) = Head1(n)
        BY <1>1, <1>9, <4>1, PieceFacts
      <4>3. m = n
        BY <1>3, <4>2, PieceFacts
      <4> QED
        BY <1>4, <4>2, <4>3
    <3>5. ASSUME NEW m \in Calls, lineBuf = <<Head1(m), Tail1(m)>> \/ lineBuf = <<Tail1(m)>>
          PROVE  ~p.last
      <4>1. Latest(Tail1(m))
        BY <3>2, <3>5, Small
      <4>2. written # 1
        BY <1>9, <4>1, PieceFacts
      <4> QED
        BY <1>1, <1>4, <4>2
    <3>6. CASE device = "serving" /\ lineBuf = <<>>
      BY <1>1, <2>1, <3>1, <3>3, <3>6 DEF FrameInv
    <3>7. CASE device = "serving" /\ lineBuf # <<>>
      <4>1. PICK m \in Calls : lineBuf = <<Head1(m)>>
        BY <3>7 DEF LinkInv, FrameInv
      <4> QED
        BY <1>1, <2>1, <3>1, <3>4, <3>7, <4>1 DEF FrameInv
    <3>8. CASE device = "handling"
      <4>1. LinesAreWhole
        BY <3>8 DEF LinkInv, FrameInv
      <4>2. ~p.last
        BY <3>5, <3>8, <4>1 DEF LinesAreWhole
      <4> QED
        BY <1>1, <2>1, <3>1, <3>8, <4>1, <4>2 DEF FrameInv, LinesAreWhole
    <3> QED
      BY <1>6, <2>4, <3>6, <3>7, <3>8
  <2> QED
    BY <1>1, <1>7, <2>2, <2>3, <2>4
<1>13. LatestInv'
  <2>1. IF written' = 1 THEN p = Head1(pending') ELSE p.last
    BY <1>1, <1>3, <1>4
  <2>2. CASE swallowed
    BY <1>1, <1>5, <1>7, <2>2 DEF LatestInv, Cut
  <2>3. CASE ~swallowed
    <3>1. up'[W] # <<>> /\ up'[W][Len(up'[W])] = p
      BY <1>4, <1>7, <1>8, <2>3, LastAppended
    <3> QED
      BY <1>1, <2>1, <3>1 DEF LatestInv, Latest
  <2> QED
    BY <2>2, <2>3
<1>14. GreetInv'
  BY <1>1 DEF GreetInv
<1>15. ExchangeInv'
  <2>1. ~Serial /\ "device" \in open[session] => conn = session
    BY <1>1 DEF LinkInv, ExchangeInv
  <2> SUFFICES ASSUME ~resync
               PROVE  (OnItsWay(pending)' \/ Cut(W)') /\ down[W] = <<>>
    BY <1>1, <1>3, <2>1 DEF ExchangeInv, OnItsWay
  <2>2. down[W] = <<>> /\ (pending = Nobody => Idle(W))
        /\ (pending # Nobody => OnItsWay(pending) \/ Cut(W))
    BY <1>1 DEF LinkInv, ExchangeInv
  <2>3. CASE swallowed
    BY <1>1, <1>5, <1>7, <2>2, <2>3 DEF Cut
  <2>4. CASE ~swallowed /\ written = 0
    <3>1. lineBuf = <<>> /\ device = "serving" /\ up[W] = <<>> /\ p = Head1(n)
      BY <1>3, <1>4, <1>6, <2>2, <2>4 DEF Idle
    <3>2. up'[W] = <<Head1(n)>>
      BY <1>7, <2>4, <3>1, Small
    <3> QED
      BY <1>1, <1>3, <1>6, <2>2, <2>4, <3>1, <3>2 DEF OnItsWay
  <2>5. CASE ~swallowed /\ written = 1
    <3>1. OnItsWay(n) /\ p = Tail1(n)
      BY <1>3, <1>4, <1>6, <2>2, <2>5 DEF Cut
    <3>2. CASE lineBuf = <<>> /\ device = "serving" /\ up[W] = <<Head1(n)>>
      <4>1. up'[W] = <<Head1(n), Tail1(n)>>
        BY <1>7, <2>5, <3>1, <3>2, Small
      <4> QED
        BY <1>1, <1>3, <1>6, <2>2, <2>5, <3>2, <4>1 DEF OnItsWay
    <3>3. CASE lineBuf = <<Head1(n)>> /\ device = "serving" /\ up[W] = <<>>
      <4>1. up'[W] = <<Tail1(n)>>
        BY <1>7, <2>5, <3>1, <3>3, Small
      <4> QED
        BY <1>1, <1>3, <1>6, <2>2, <2>5, <3>3, <4>1 DEF OnItsWay
    <3> QED
      BY <2>5, <3>1, <3>2, <3>3 DEF OnItsWay
  <2> QED
    BY <1>1, <2>3, <2>4, <2>5
<1> QED
  BY <1>10, <1>11, <1>12, <1>13, <1>14, <1>15 DEF LinkInv

-----------------------------------------------------------------------------
(* The link's properties *)

\* Every step of either end keeps the invariant.
LEMMA LinkStep ==
    ASSUME LinkInv, [Next]_vars
    PROVE  LinkInv'
<1>1. CASE UNCHANGED vars
  <2>1. TypeOK' /\ W' = W /\ (Serial' <=> Serial)
    BY <1>1 DEF LinkInv, TypeOK, vars, W, Wire, Serial
  <2>2. EndsInv'
    BY <1>1, <2>1 DEF LinkInv, EndsInv, vars
  <2>3. FrameInv'
    BY <1>1, <2>1 DEF LinkInv, FrameInv, LinesAreWhole, vars
  <2>4. LatestInv' /\ GreetInv' /\ ExchangeInv'
    BY <1>1, <2>1 DEF LinkInv, LatestInv, Latest, GreetInv, ExchangeInv, Idle, Cut, OnItsWay, vars
  <2> QED
    BY <2>1, <2>2, <2>3, <2>4 DEF LinkInv
<1>2. CASE \/ Start \/ Receive \/ Respond \/ PeerGone
           \/ \E s \in Sessions : Accept(s) \/ AcceptFails(s)
           \/ HoldUp \/ \E heard \in BOOLEAN : Stop(heard)
  BY <1>2, StartKeeps, ReceiveKeeps, RespondKeeps, PeerGoneKeeps, AcceptKeeps, AcceptFailsKeeps,
     HoldUpKeeps, StopKeeps
<1>3. CASE Client \/ Open \/ Die \/ WriteLine
  BY <1>3, ReadReadyKeeps, ReadyFailsKeeps, ReadAnswerKeeps, LinkLostKeeps, OpenKeeps, DieKeeps,
     WriteLineKeeps DEF Client
<1> QED
  BY <1>1, <1>2, <1>3 DEF Next

\* The inductive invariant of both ends and what is on its way between them.
THEOREM LinkCorrect == Spec => []LinkInv
<1>1. Init => LinkInv
  <2> SUFFICES ASSUME Init
               PROVE  LinkInv
    OBVIOUS
  <2>1. TypeOK
    <3>1. /\ [s \in Sessions |-> <<>>] \in [Sessions -> Seq(Pieces)]
          /\ [s \in Sessions |-> <<>>] \in [Sessions -> Seq(Lines)]
          /\ [n \in Calls |-> "waiting"] \in [Calls -> Outcomes]
      BY DEF Outcomes
    <3>2. /\ written = 0 /\ 0 \in 0..2 /\ session = 0 /\ calls = 0 /\ conn = 0 /\ pending = 0
          /\ 0 \in 0..MaxSessions /\ 0 \in 0..MaxCalls /\ 0 \in 0..MaxStops /\ stops = 0
      BY Bounds DEF Init, Nobody
    <3>3. open \in [Sessions -> SUBSET {"bridge", "device"}]
      BY DEF Init
    <3>4. up \in [Sessions -> Seq(Pieces)] /\ down \in [Sessions -> Seq(Lines)]
          /\ outcome \in [Calls -> Outcomes] /\ lineBuf \in Seq(Pieces)
      BY <3>1 DEF Init
    <3> QED
      BY <3>2, <3>3, <3>4 DEF Init, TypeOK
  <2>2. EndsInv
    BY Bounds DEF Init, EndsInv, Sessions, Nobody
  <2>3. FrameInv
    BY FramedEmpty DEF Init, FrameInv
  <2>4. LatestInv /\ GreetInv /\ ExchangeInv
    BY DEF Init, LatestInv, GreetInv, ExchangeInv
  <2> QED
    BY <2>1, <2>2, <2>3, <2>4 DEF LinkInv
<1>2. LinkInv /\ [Next]_vars => LinkInv'
  BY LinkStep
<1> QED
  BY <1>1, <1>2, PTL DEF Spec

\* How many lines end among a few pieces.
LEMMA EndsOf ==
    ASSUME NEW n \in Calls
    PROVE  /\ Cardinality(LineEnds(<<>>)) = 0
           /\ Cardinality(LineEnds(<<Head1(n)>>)) = 0
           /\ Cardinality(LineEnds(<<Tail1(n)>>)) = 1
           /\ Cardinality(LineEnds(<<Head1(n), Tail1(n)>>)) = 1
<1>1. LineEnds(<<>>) = {}
  BY DEF LineEnds
<1>2. LineEnds(<<Head1(n)>>) = {}
  BY PieceFacts, Small DEF LineEnds
<1>3. LineEnds(<<Tail1(n)>>) = {1}
  BY PieceFacts, Small DEF LineEnds
<1>4. LineEnds(<<Head1(n), Tail1(n)>>) = {2}
  <2>1. /\ Len(<<Head1(n), Tail1(n)>>) = 2
        /\ ~<<Head1(n), Tail1(n)>>[1].last /\ <<Head1(n), Tail1(n)>>[2].last
    BY PieceFacts, Small
  <2> QED
    BY <2>1 DEF LineEnds
<1> QED
  BY <1>1, <1>2, <1>3, <1>4, FS_EmptySet, FS_Singleton

\* One command, or its answer, in one of three places is at most what is owed.
LEMMA AtMostOne ==
    ASSUME NEW queued, NEW busy, NEW back, NEW owed, owed \in {0, 1},
           \/ queued = 0 /\ busy = 0 /\ back = 0
           \/ owed = 1 /\ queued = 1 /\ busy = 0 /\ back = 0
           \/ owed = 1 /\ queued = 0 /\ busy = 1 /\ back = 0
           \/ owed = 1 /\ queued = 0 /\ busy = 0 /\ back = 1
    PROVE  queued + busy + back <= owed
OBVIOUS

\* A ready link owes at most one message.
LEMMA ReadyLinkCarriesOne ==
    ASSUME LinkInv
    PROVE  OneOutstanding
<1> SUFFICES ASSUME bridge = "ready", ~resync
             PROVE  OneOutstanding
  BY DEF OneOutstanding
<1> DEFINE queued == Cardinality(LineEnds(up[W]))
           busy == IF device = "handling" /\ conn = W THEN 1 ELSE 0
           back == Len(down[W])
           owed == IF pending # Nobody /\ written = 2 THEN 1 ELSE 0
           Fits == \/ queued = 0 /\ busy = 0 /\ back = 0
                   \/ owed = 1 /\ queued = 1 /\ busy = 0 /\ back = 0
                   \/ owed = 1 /\ queued = 0 /\ busy = 1 /\ back = 0
                   \/ owed = 1 /\ queued = 0 /\ busy = 0 /\ back = 1
<1>1. pending # Nobody => pending \in Calls
  BY Bounds DEF LinkInv, TypeOK, Calls, Nobody
<1>2. Len(<<>>) = 0 /\ Len(<<Answer(pending)>>) = 1
  OBVIOUS
<1>3. Cardinality(LineEnds(<<>>)) = 0
  <2>1. LineEnds(<<>>) = {}
    BY DEF LineEnds
  <2> QED
    BY <2>1, FS_EmptySet
<1>4. pending # Nobody <=> written # 0
  BY DEF LinkInv, EndsInv
<1>5. ASSUME Idle(W) /\ (down[W] = <<>> \/ (written = 2 /\ down[W] = <<Answer(pending)>>))
      PROVE  Fits
  <2>1. queued = 0 /\ busy = 0
    BY <1>3, <1>5 DEF Idle
  <2>2. back = 0 \/ (written = 2 /\ back = 1)
    BY <1>2, <1>5
  <2>3. written = 2 => owed = 1
    BY <1>4
  <2> QED
    BY <2>1, <2>2, <2>3
<1>6. ASSUME Cut(W) /\ down[W] = <<>>
      PROVE  Fits
  BY <1>2, <1>3, <1>6 DEF Cut
<1>7. ASSUME pending # Nobody /\ OnItsWay(pending) /\ down[W] = <<>>
      PROVE  Fits
  <2>1. back = 0
    BY <1>2, <1>7
  <2>2. CASE device = "serving"
    <3>1. queued = 0 \/ (written = 2 /\ queued = 1)
      BY <1>1, <1>3, <1>7, <2>2, EndsOf DEF OnItsWay
    <3> QED
      BY <1>7, <2>1, <2>2, <3>1
  <2>3. CASE device # "serving"
    <3>1. queued = 0 /\ written = 2 /\ busy = 1
      BY <1>3, <1>7, <2>3 DEF OnItsWay
    <3> QED
      BY <1>7, <2>1, <3>1
  <2> QED
    BY <2>2, <2>3
<1>8. Fits
  BY <1>5, <1>6, <1>7 DEF LinkInv, ExchangeInv
<1>9. owed \in {0, 1}
  OBVIOUS
<1>10. queued + busy + back <= owed
  <2> HIDE DEF queued, busy, back, owed
  <2> QED
    BY <1>8, <1>9, AtMostOne
<1> QED
  BY <1>10 DEF OneOutstanding, W

\* FramingSound: every line the device handles is one whole command, however many bridges
\* vanished inside theirs, and a link the bridge found ready owes at most one message.
THEOREM FramingIsSound == Spec => []FramingSound
<1>1. LinkInv => FramingSound
  BY ReadyLinkCarriesOne DEF LinkInv, FrameInv, FramingSound, LinesAreWhole
<1> QED
  BY <1>1, LinkCorrect, PTL

\* AnswersMatch: no id is compared, and yet a call is given no answer but its own, unless a
\* serial device was started again in the middle of the session.
THEOREM AnswersAreOwn == Spec => AnswersMatch
<1>1. LinkInv /\ [Next]_vars =>
        [\A n \in Calls : outcome'[n] = "other" /\ outcome[n] # "other" => Serial /\ resync]_vars
  <2> SUFFICES ASSUME LinkInv, [Next]_vars, NEW n \in Calls,
                      outcome'[n] = "other", outcome[n] # "other"
               PROVE  Serial /\ resync
    OBVIOUS
  <2>1. outcome \in [Calls -> Outcomes]
    BY DEF LinkInv, TypeOK
  <2>2. CASE ReadAnswer
    <3> DEFINE r == IF Head(down[W]) = Answer(pending) THEN "own"
                    ELSE IF Head(down[W]).kind = "answer" THEN "other" ELSE "error"
    <3>1. outcome' = [outcome EXCEPT ![pending] = r]
      BY <2>2 DEF ReadAnswer, Return, W
    <3>2. r = "other"
      BY <2>1, <3>1
    <3>3. Head(down[W]) # Answer(pending)
      BY <3>2
    <3>4. down[W] # <<>> /\ bridge = "ready"
      BY <2>2 DEF ReadAnswer, W, LinkInv, EndsInv
    <3>5. resync
      BY <3>3, <3>4, Small DEF LinkInv, ExchangeInv
    <3> QED
      BY <3>5 DEF LinkInv, EndsInv
  <2>3. CASE Die \/ LinkLost
    BY <2>1, <2>3 DEF Die, Leave, LinkLost, Return
  <2>4. CASE ~ReadAnswer /\ ~Die /\ ~LinkLost
    <3>1. UNCHANGED outcome
      BY <2>4 DEF Next, Client, Start, Receive, Respond, PeerGone, Accept, AcceptFails, HoldUp, Stop,
                  Open, WriteLine, ReadReady, ReadyFails, Leave, bridgeVars, vars
    <3> QED
      BY <3>1
  <2> QED
    BY <2>2, <2>3, <2>4
<1> QED
  BY <1>1, LinkCorrect, PTL DEF Spec, AnswersMatch
=============================================================================
