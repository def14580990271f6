------------------------------ MODULE UartProofs ------------------------------
(***************************************************************************)
(* Proofs about the polled UART driver, for FIFOs, buffers, lines and writes *)
(* of any size and any chip: what the driver believes of the chip holds of   *)
(* the chip, the BI of every break delivered was taken by a read of LSR that   *)
(* decodes nothing, and every overrun is in the status register, under the    *)
(* driver's hand, in the counter or taken by such a read.                    *)
(***************************************************************************)
EXTENDS Uart, SequenceTheorems, TLAPS

Live == Serving \cup {"closed"}
Configured == {"loop", "echo", "settle"} \cup Live
Unreset == {"detect", "probe", "divisor", "setup"}

\* The chip is as the driver takes it to be.
ChipInv ==
    /\ loop <=> pc = "echo"
    /\ Len(rx) <= Depth
    /\ ~HasFifo => ~fifo
    /\ chunk # 1 => chip.model = "16550A"
    /\ pc \in Configured /\ chunk # 1 => fifo
    /\ pc \in Unreset \cup {"stale", "loop"} => tx = 0
    /\ txLost = 0

\* No interrupt path is open once the chip is configured.
QuietInv ==
    /\ pc \in Configured => ~ier /\ ~out2
    /\ pc \in {"divisor", "setup", "failed"} => ~ier

\* Unless the line spoke since the last reset, the sentinel is the first byte there.
EchoInv ==
    /\ ~HasFifo /\ pc \in Unreset /\ ~intruded => rx = <<>>
    /\ pc = "loop" /\ ~intruded => rx = <<>>
    /\ pc = "echo" /\ ~intruded => rx = <<>> \/ Head(rx) = Echoed
    /\ WorkingChipOpens

\* A break shows its BI, or its BI is out of the decoding's sight.
Marked(item) == item.brk => "BI" \in item.err \/ item.missed
MarkedFrom(n, q) == \A i \in n..Len(q) : Marked(q[i])

\* The byte under the driver's hand is the one its snapshot was taken for, or has
\* overrun it.
Hand ==
    /\ rx # <<>> /\ Len(buf) < ReadLen
    /\ rx[1].brk => "BI" \in snap \/ rx[1].missed

\* Every break in the receiver is marked, and in the snapshot when that took its mark.
BreakInv ==
    /\ MarkedFrom(2, rx)
    /\ pc # "take" => MarkedFrom(1, rx)
    /\ pc = "take" => Hand
    /\ BreaksAreNotData

\* Every overrun is in LSR, in the snapshot under the driver's hand, in the count, or
\* taken unseen, and in one of them only.
Snapped == pc = "take" /\ "OE" \in snap
OverrunInv ==
    /\ pc \notin Live => raised = 0 /\ overruns = 0 /\ unseen = 0
    /\ pc \in Live => raised = overruns + unseen + One(oe) + One(Snapped)
    /\ raised <= sent

\* A read returns what it has, never nothing.
ReadInv ==
    /\ ret # 0
    /\ pc = "wait" => buf = <<>>

UartInv ==
    /\ TypeOK
    /\ ChipInv
    /\ QuietInv
    /\ EchoInv
    /\ BreakInv
    /\ OverrunInv
    /\ ReadInv

-----------------------------------------------------------------------------
(* Facts about the state, the receiver's queue and its depth *)

\* The constants as numbers.
LEMMA Bounds ==
    /\ FifoDepth \in Nat /\ FifoDepth > 1 /\ ReadLen \in Nat /\ ReadLen > 0
    /\ MaxLine \in Nat /\ MaxWrites \in Nat /\ MaxLen \in Nat /\ MaxLen > 0
BY UartAssumption

\* The state as numbers, sequences and Booleans.
LEMMA Typed ==
    ASSUME TypeOK
    PROVE  /\ chip.model \in Models /\ chip.fault \in Faults
           /\ ier \in BOOLEAN /\ out2 \in BOOLEAN /\ loop \in BOOLEAN /\ fifo \in BOOLEAN
           /\ oe \in BOOLEAN /\ shifting \in BOOLEAN /\ intruded \in BOOLEAN
           /\ rx \in Seq(Items) /\ Len(rx) \in Nat
           /\ buf \in Seq(Items) /\ Len(buf) \in Nat /\ Len(buf) <= ReadLen
           /\ tx \in Nat /\ left \in Nat /\ ret \in Int
           /\ overruns \in Nat /\ raised \in Nat /\ unseen \in Nat /\ sent \in Nat
<1>1. chip.model \in Models /\ chip.fault \in Faults
  BY DEF TypeOK
<1>2. /\ ier \in BOOLEAN /\ out2 \in BOOLEAN /\ loop \in BOOLEAN /\ fifo \in BOOLEAN
      /\ oe \in BOOLEAN /\ shifting \in BOOLEAN /\ intruded \in BOOLEAN
  BY Zenon DEF TypeOK
<1>3. rx \in Seq(Items)
  BY Zenon DEF TypeOK
<1>4. buf \in Seq(Items) /\ Len(buf) <= ReadLen
  BY DEF TypeOK
<1>5. Len(rx) \in Nat /\ Len(buf) \in Nat
  BY <1>3, <1>4, LenProperties
<1>6. /\ tx \in Nat /\ left \in Nat /\ ret \in Int
      /\ overruns \in Nat /\ raised \in Nat /\ unseen \in Nat /\ sent \in Nat
  BY Bounds DEF TypeOK
<1> QED
  BY <1>1, <1>2, <1>3, <1>4, <1>5, <1>6

\* The receiver is as deep as its FIFO when that is on, and one deep otherwise.
LEMMA DepthFacts ==
    ASSUME TypeOK
    PROVE  /\ Depth \in Nat /\ 0 < Depth /\ Depth <= FifoDepth
           /\ Depth # 1 => Depth = FifoDepth /\ fifo /\ chip.model = "16550A"
           /\ fifo /\ chip.model = "16550A" => Depth = FifoDepth
BY Bounds DEF Depth

\* What a byte may be, what a status read leaves of it, and what it is when it overruns.
LEMMA ItemFacts ==
    ASSUME NEW x \in Items
    PROVE  /\ x.brk \in BOOLEAN /\ x.missed \in BOOLEAN /\ x.err \subseteq Flags
           /\ "OE" \notin x.err
           /\ \A m \in BOOLEAN : [brk |-> x.brk, err |-> {}, missed |-> m] \in Items
           /\ Overrunning(x) \in Items
           /\ Overrunning(x).brk = x.brk /\ Overrunning(x).err = x.err
           /\ Overrunning(x).missed = (pc = "take" /\ x.brk)
<1>1. /\ x.brk \in BOOLEAN /\ x.missed \in BOOLEAN
      /\ x.err \in SUBSET {"BI", "FE", "loop"}
  BY DEF Items
<1>2. ASSUME NEW m \in BOOLEAN PROVE [brk |-> x.brk, err |-> {}, missed |-> m] \in Items
  BY <1>1, Zenon DEF Items
<1> DEFINE late == pc = "take" /\ x.brk
<1>3. late \in BOOLEAN
  OBVIOUS
<1>4. Overrunning(x) = [brk |-> x.brk, err |-> x.err, missed |-> late]
  BY DEF Overrunning
<1> HIDE DEF late
<1>5. Overrunning(x) \in Items
  <2>1. [brk |-> x.brk, err |-> x.err, missed |-> late] \in Items
    BY <1>1, <1>3, Zenon DEF Items
  <2> QED
    BY <1>4, <2>1, Zenon
<1>6. /\ Overrunning(x).brk = x.brk /\ Overrunning(x).err = x.err
      /\ Overrunning(x).missed = late
  BY <1>4
<1> QED
  BY <1>1, <1>2, <1>5, <1>6 DEF Flags, late

\* The bytes the chip itself makes.
LEMMA Blank == Byte \in Items /\ Byte.brk = FALSE /\ Echoed \in Items /\ Echoed.brk = FALSE
<1>1. Byte \in Items /\ Echoed \in Items
  BY Zenon DEF Items, Byte, Echoed
<1> QED
  BY <1>1 DEF Byte, Echoed

\* What is left when the first byte is taken.
LEMMA FirstTaken ==
    ASSUME NEW S, NEW q \in Seq(S), q # <<>>
    PROVE  /\ Head(q) = q[1] /\ q[1] \in S /\ Tail(q) \in Seq(S)
           /\ Len(q) \in Nat /\ Len(q) > 0 /\ Len(Tail(q)) = Len(q) - 1
           /\ \A i \in 1..Len(Tail(q)) : Tail(q)[i] = q[i + 1]
OBVIOUS

\* What there is when a byte arrives.
LEMMA LastAppended ==
    ASSUME NEW S, NEW q \in Seq(S), NEW x \in S
    PROVE  /\ Append(q, x) \in Seq(S) /\ Append(q, x) # <<>>
           /\ Len(q) \in Nat /\ Len(Append(q, x)) = Len(q) + 1
           /\ \A i \in 1..Len(q) : Append(q, x)[i] = q[i]
           /\ Append(q, x)[Len(q) + 1] = x
OBVIOUS

\* A change of the first byte changes nothing else.
LEMMA FirstChanged ==
    ASSUME NEW q \in Seq(Items), q # <<>>, NEW x \in Items
    PROVE  LET p == [q EXCEPT ![1] = x]
           IN  /\ p \in Seq(Items) /\ p # <<>> /\ Len(p) = Len(q) /\ p[1] = x
               /\ \A i \in 2..Len(q) : p[i] = q[i]
<1>1. q[1] \in Items /\ Len(q) \in Nat /\ Len(q) > 0
  BY FirstTaken
<1> QED
  BY <1>1

\* A sequence of one.
LEMMA Single ==
    ASSUME NEW S, NEW x \in S
    PROVE  /\ <<x>> \in Seq(S) /\ <<x>> # <<>> /\ Len(<<x>>) = 1 /\ <<x>>[1] = x /\ Head(<<x>>) = x
           /\ Append(<<>>, x) = <<x>>
OBVIOUS

-----------------------------------------------------------------------------
(* What moves through the receiver *)

\* A byte just received shows its break.
Shown(item) == item.brk => "BI" \in item.err

\* A byte received keeps what is before it, unless the receiver has no FIFO.
LEMMA Receives ==
    ASSUME TypeOK, Len(rx) <= Depth, NEW item \in Items, Shown(item), Receive(item)
    PROVE  /\ rx' \in Seq(Items) /\ Len(rx') <= Depth /\ rx' # <<>>
           /\ MarkedFrom(2, rx) => MarkedFrom(2, rx')
           /\ Marked(item)
           /\ \/ rx = <<>> /\ rx'[1] = item
              \/ rx # <<>> /\ rx'[1] = rx[1]
              \/ rx # <<>> /\ rx'[1] = Overrunning(item)
           /\ \/ oe' = oe /\ raised' = raised
              \/ oe' = TRUE /\ raised' = raised + One(pc \in Serving /\ ~oe)
<1>1. rx \in Seq(Items) /\ Len(rx) \in Nat /\ Depth \in Nat /\ 0 < Depth
  BY Typed, DepthFacts
<1>0. Marked(item)
  BY DEF Shown, Marked
<1>2. CASE Len(rx) < Depth
  <2>1. rx' = Append(rx, item) /\ oe' = oe /\ raised' = raised
    BY <1>2 DEF Receive
  <2>2. /\ rx' \in Seq(Items) /\ rx' # <<>> /\ Len(rx') = Len(rx) + 1
        /\ \A i \in 1..Len(rx) : rx'[i] = rx[i]
        /\ rx'[Len(rx) + 1] = item
    BY <1>1, <2>1, LastAppended
  <2>3. (rx = <<>> /\ Len(rx) = 0) \/ (rx # <<>> /\ Len(rx) > 0)
    BY <1>1, EmptySeq
  <2>4. (rx = <<>> /\ rx'[1] = item) \/ (rx # <<>> /\ rx'[1] = rx[1])
    BY <1>1, <2>2, <2>3
  <2>5. ASSUME MarkedFrom(2, rx) PROVE MarkedFrom(2, rx')
    <3>1. SUFFICES ASSUME NEW i \in 2..Len(rx') PROVE Marked(rx'[i])
      BY DEF MarkedFrom
    <3>2. CASE i \in 2..Len(rx)
      <4>1. rx'[i] = rx[i]
        BY <1>1, <2>2, <3>2
      <4> QED
        BY <2>5, <3>2, <4>1 DEF MarkedFrom
    <3>3. CASE i = Len(rx) + 1
      BY <2>2, <3>3, <1>0
    <3> QED
      BY <1>1, <2>2, <3>2, <3>3
  <2>6. Len(rx') <= Depth
    BY <1>1, <1>2, <2>2
  <2> QED
    BY <1>0, <2>1, <2>2, <2>4, <2>5, <2>6
<1>3. CASE ~(Len(rx) < Depth)
  <2>1. /\ oe' = TRUE
        /\ rx' = IF Depth = 1 THEN <<Overrunning(item)>> ELSE rx
        /\ raised' = raised + One(pc \in Serving /\ ~oe)
    BY <1>3 DEF Receive
  <2>2. rx # <<>>
    BY <1>1, <1>3, EmptySeq
  <2>3. CASE Depth = 1
    <3>1. rx' = <<Overrunning(item)>> /\ Overrunning(item) \in Items
      BY <2>1, <2>3, ItemFacts
    <3>2. /\ rx' \in Seq(Items) /\ rx' # <<>> /\ Len(rx') = 1
          /\ rx'[1] = Overrunning(item)
      BY <3>1, Single
    <3>3. MarkedFrom(2, rx')
      BY <3>2 DEF MarkedFrom
    <3> QED
      BY <1>0, <2>1, <2>2, <2>3, <3>2, <3>3
  <2>4. CASE Depth # 1
    BY <1>0, <1>1, <2>1, <2>2, <2>4
  <2> QED
    BY <2>3, <2>4
<1> QED
  BY <1>2, <1>3

\* A byte read leaves the one behind it, which nothing has looked at.
LEMMA Shifts ==
    ASSUME NEW q \in Seq(Items), q # <<>>
    PROVE  /\ Tail(q) \in Seq(Items) /\ Len(Tail(q)) = Len(q) - 1
           /\ MarkedFrom(2, q) => MarkedFrom(1, Tail(q))
<1>1. /\ Tail(q) \in Seq(Items) /\ Len(Tail(q)) = Len(q) - 1 /\ Len(q) \in Nat /\ Len(q) > 0
      /\ \A i \in 1..Len(Tail(q)) : Tail(q)[i] = q[i + 1]
  BY FirstTaken
<1>2. ASSUME MarkedFrom(2, q), NEW i \in 1..Len(Tail(q)) PROVE Marked(Tail(q)[i])
  <2>1. i + 1 \in 2..Len(q) /\ Tail(q)[i] = q[i + 1]
    BY <1>1
  <2> QED
    BY <1>2, <2>1 DEF MarkedFrom
<1> QED
  BY <1>1, <1>2 DEF MarkedFrom

\* Every byte is marked if the first is and the rest are.
LEMMA MarkedParts ==
    ASSUME NEW q \in Seq(Items)
    PROVE  MarkedFrom(1, q) <=> MarkedFrom(2, q) /\ (q # <<>> => Marked(q[1]))
<1>1. Len(q) \in Nat /\ (q = <<>> <=> Len(q) = 0)
  BY EmptySeq, LenProperties
<1> QED
  BY <1>1 DEF MarkedFrom

\* A status read takes the mark of the first byte into what it shows, which a decoding
\* reader has and any other leaves unseen.
LEMMA Snaps ==
    ASSUME TypeOK, NEW decoded \in BOOLEAN, ReadLsr(decoded)
    PROVE  /\ rx' \in Seq(Items) /\ Len(rx') = Len(rx)
           /\ LsrShows \subseteq Flags
           /\ "OE" \in LsrShows <=> oe = TRUE
           /\ MarkedFrom(2, rx) => MarkedFrom(2, rx')
           /\ ~DR => rx' = rx
           /\ DR => /\ rx # <<>> /\ rx' # <<>>
                    /\ Marked(rx[1]) /\ rx'[1].brk
                         => rx'[1].missed \/ (decoded /\ "BI" \in LsrShows)
           /\ oe' = FALSE
           /\ unseen' = IF decoded THEN unseen ELSE unseen + One(oe)
<1>1. rx \in Seq(Items) /\ Len(rx) \in Nat /\ oe \in BOOLEAN /\ unseen \in Nat
  BY Typed
<1>2. oe = TRUE \/ oe = FALSE
  BY <1>1
<1>3. rx' = LsrLeaves(decoded) /\ oe' = FALSE /\ unseen' = unseen + One(oe /\ ~decoded)
  BY DEF ReadLsr
<1>4. unseen' = IF decoded THEN unseen ELSE unseen + One(oe)
  BY <1>1, <1>2, <1>3 DEF One
<1>5. CASE ~DR
  <2>1. rx' = rx
    BY <1>3, <1>5 DEF LsrLeaves
  <2>2. LsrShows = IF oe THEN {"OE"} ELSE {}
    BY <1>5 DEF LsrShows
  <2>3. LsrShows \subseteq Flags /\ ("OE" \in LsrShows <=> oe = TRUE)
    BY <1>2, <2>2 DEF Flags
  <2> QED
    BY <1>1, <1>3, <1>4, <1>5, <2>1, <2>3
<1>6. CASE DR
  <2> DEFINE gone == ~decoded /\ "BI" \in rx[1].err
             m == rx[1].missed \/ gone
             first == [brk |-> rx[1].brk, err |-> {}, missed |-> m]
  <2>1. rx # <<>>
    BY <1>6 DEF DR
  <2>11. rx[1] \in Items /\ Head(rx) = rx[1] /\ Len(rx) > 0
    BY <1>1, <2>1, FirstTaken
  <2>2. /\ rx[1] \in Items /\ Head(rx) = rx[1] /\ 1 \in DOMAIN rx
        /\ rx[1].missed \in BOOLEAN /\ rx[1].err \subseteq Flags /\ "OE" \notin rx[1].err
    <3>1. rx[1].missed \in BOOLEAN /\ rx[1].err \subseteq Flags /\ "OE" \notin rx[1].err
      BY <2>11, ItemFacts, Zenon
    <3>2. 1 \in DOMAIN rx
      BY <1>1, <2>11
    <3> QED
      BY <2>11, <3>1, <3>2
  <2>3. m \in BOOLEAN
    OBVIOUS
  <2>4. rx' = [rx EXCEPT ![1] = first]
    BY <1>3, <1>6 DEF LsrLeaves
  <2> HIDE DEF m
  <2>5. first \in Items /\ first.brk = rx[1].brk /\ first.missed = m
    BY <2>11, <2>3, ItemFacts
  <2> HIDE DEF first
  <2>6. /\ rx' \in Seq(Items) /\ rx' # <<>> /\ Len(rx') = Len(rx) /\ rx'[1] = first
        /\ \A i \in 2..Len(rx) : rx'[i] = rx[i]
    BY <1>1, <2>1, <2>4, <2>5, FirstChanged
  <2>7. LsrShows = (IF oe THEN {"OE"} ELSE {}) \cup rx[1].err
    BY <1>6, <2>2 DEF LsrShows
  <2>8. LsrShows \subseteq Flags /\ ("OE" \in LsrShows <=> oe = TRUE)
    BY <1>2, <2>2, <2>7 DEF Flags
  <2>9. MarkedFrom(2, rx) => MarkedFrom(2, rx')
    BY <2>6 DEF MarkedFrom
  <2>10. Marked(rx[1]) /\ rx'[1].brk => rx'[1].missed \/ (decoded /\ "BI" \in LsrShows)
    BY <2>5, <2>6, <2>7 DEF Marked, m
  <2> QED
    BY <1>3, <1>4, <1>6, <2>1, <2>6, <2>8, <2>9, <2>10
<1> QED
  BY <1>5, <1>6

-----------------------------------------------------------------------------
(* The chip as the driver takes it *)

\* What a write of FCR leaves, on a chip with a FIFO and on one without.
LEMMA FcrFacts ==
    ASSUME NEW on \in BOOLEAN, TypeOK, Len(rx) <= Depth, ~HasFifo => ~fifo, WriteFcr(on),
           chip' = chip
    PROVE  /\ rx' \in Seq(Items) /\ Len(rx') <= Depth' /\ tx' \in {0, tx} /\ fifo' \in BOOLEAN
           /\ HasFifo => rx' = <<>> /\ tx' = 0 /\ fifo' = on
           /\ ~HasFifo => rx' = rx /\ fifo' = fifo
           /\ oe' \in {oe, FALSE}
           /\ ~HasFifo' => ~fifo'
           /\ HasFifo' <=> HasFifo
<1>1. HasFifo' <=> HasFifo
  BY DEF HasFifo
<1>2. CASE HasFifo
  <2>1. fifo' = on /\ rx' = <<>> /\ oe' = FALSE /\ tx' = 0
    BY <1>2 DEF WriteFcr
  <2>2. rx' \in Seq(Items) /\ Len(rx') = 0
    BY <2>1
  <2>3. Depth' > 0 /\ Depth' \in Nat
    BY Bounds DEF Depth
  <2>4. Len(rx') <= Depth'
    BY <2>2, <2>3
  <2>5. fifo' \in BOOLEAN /\ oe' \in {oe, FALSE} /\ tx' \in {0, tx}
    BY <2>1, Zenon
  <2> QED
    BY <1>1, <1>2, <2>1, <2>2, <2>4, <2>5, Zenon
<1>3. CASE ~HasFifo
  <2>1. fifo' = fifo /\ rx' = rx /\ oe' = oe /\ tx' = tx
    BY <1>3 DEF WriteFcr
  <2>2. Depth' = Depth
    BY <2>1 DEF Depth
  <2>3. rx \in Seq(Items) /\ fifo \in BOOLEAN
    BY Typed
  <2>4. Len(rx') <= Depth'
    BY <2>1, <2>2
  <2> QED
    BY <1>1, <1>3, <2>1, <2>3, <2>4, Zenon
<1> QED
  BY <1>2, <1>3

\* The depth depends on the chip and its FIFO switch alone.
LEMMA SameDepth ==
    ASSUME chip' = chip, fifo' = fifo
    PROVE  Depth' = Depth /\ (HasFifo' <=> HasFifo)
BY DEF Depth, HasFifo

\* No step opens an interrupt path again.
LEMMA QuietSteps ==
    ASSUME TypeOK, QuietInv, [Next]_vars
    PROVE  QuietInv'
<1> USE DEF QuietInv, Configured, Live, Serving
<1>1. CASE ClearStale
  BY <1>1, Zenon DEF ClearStale
<1>2. CASE StoreTest
  BY <1>2, Zenon DEF StoreTest
<1>3. CASE Detect
  BY <1>3 DEF Detect
<1>4. CASE ProgramDivisor
  BY <1>4 DEF ProgramDivisor, chipVars
<1>5. CASE Configure
  BY <1>5 DEF Configure
<1>6. CASE EnterLoop \/ CheckEcho \/ EchoExpires \/ GoLive
  BY <1>6 DEF EnterLoop, CheckEcho, EchoExpires, GoLive
<1>7. CASE AwaitData \/ Take \/ Resnap \/ Burst \/ ThreExpires
  <2>1. ier' = ier /\ out2' = out2 /\ pc \in Serving /\ pc' \in Serving
    BY <1>7 DEF AwaitData, Take, Resnap, Burst, ThreExpires
  <2> QED
    BY <2>1
<1>11. CASE Quiesce
  BY <1>11 DEF Quiesce
<1>8. CASE StartRead \/ StartWrite \/ Close
  <2>1. ier' = ier /\ out2' = out2
    BY <1>8 DEF StartRead, StartWrite, Close, chipVars
  <2>2. pc \in Serving /\ pc' \in Serving
    BY <1>8 DEF StartRead, StartWrite, Close
  <2> QED
    BY <2>1, <2>2
<1>9. CASE LineSends \/ Shift \/ Out \/ ChipStops \/ Poll
  <2>1. UNCHANGED driverVars /\ ier' = ier /\ out2' = out2
    BY <1>9 DEF LineSends, Shift, Out, ChipStops, Poll
  <2>2. pc' = pc
    BY <2>1 DEF driverVars
  <2> QED
    BY <2>1, <2>2
<1>10. CASE UNCHANGED vars
  BY <1>10 DEF vars, chipVars, driverVars
<1> QED
  BY <1>1, <1>2, <1>3, <1>4, <1>5, <1>6, <1>7, <1>8, <1>9, <1>10, <1>11
     DEF Next, Driver, Open, Read

\* Every step keeps what the driver believes of the chip.
LEMMA ChipSteps ==
    ASSUME TypeOK, ChipInv, Next
    PROVE  /\ loop' <=> pc' = "echo"
           /\ ~HasFifo' => ~fifo'
           /\ chunk' # 1 => chip'.model = "16550A"
           /\ pc' \in Configured /\ chunk' # 1 => fifo'
           /\ pc' \in Unreset \cup {"stale", "loop"} => tx' = 0
           /\ txLost' = 0
<1> USE DEF ChipInv, Configured, Live, Serving, Unreset
<1>1. CASE ClearStale \/ StoreTest
  <2>1. UNCHANGED <<chip, loop, fifo, tx, txLost, chunk>> /\ pc' \in Unreset
    BY <1>1 DEF ClearStale, StoreTest
  <2>2. pc \in {"stale", "detect"}
    BY <1>1 DEF ClearStale, StoreTest
  <2> QED
    BY <2>1, <2>2, SameDepth
<1>3. CASE Detect
  <2>1. pc = "probe" /\ UNCHANGED <<chip, loop, txLost>>
    BY <1>3 DEF Detect
  <2>2. CASE ~Present
    <3>1. pc' = "failed" /\ UNCHANGED <<fifo, rx, oe, tx, chunk>>
      BY <1>3, <2>2 DEF Detect
    <3> QED
      BY <2>1, <3>1, SameDepth
  <2>3. CASE Present
    <3>1. pc' = "divisor" /\ WriteFcr(TRUE) /\ chunk' = IF Iir = "11" THEN FifoDepth ELSE 1
      BY <1>3, <2>3 DEF Detect
    <3>2. tx' \in {0, tx} /\ (~HasFifo' => ~fifo')
      BY <2>1, <3>1, FcrFacts
    <3>3. chunk' # 1 => chip.model = "16550A"
      BY <3>1 DEF Iir
    <3> QED
      BY <2>1, <3>1, <3>2, <3>3
  <2> QED
    BY <2>2, <2>3
<1>4. CASE ProgramDivisor
  <2>1. UNCHANGED chipVars /\ chunk' = chunk /\ pc = "divisor" /\ pc' \in {"failed", "setup"}
    BY <1>4 DEF ProgramDivisor
  <2>2. UNCHANGED <<chip, loop, fifo, tx, txLost>>
    BY <2>1 DEF chipVars
  <2> QED
    BY <2>1, <2>2, SameDepth
<1>5. CASE Configure
  <2> DEFINE on == chunk > 1
  <2>1. pc = "setup" /\ pc' = "loop" /\ WriteFcr(on) /\ UNCHANGED <<chip, loop, txLost, chunk>>
    BY <1>5 DEF Configure
  <2>3. (chunk # 1 => HasFifo /\ on = TRUE) /\ on \in BOOLEAN
    BY Bounds DEF TypeOK, HasFifo
  <2> HIDE DEF on
  <2>2. /\ tx' \in {0, tx} /\ (~HasFifo' => ~fifo')
        /\ HasFifo => fifo' = on
    BY <2>1, <2>3, FcrFacts, Zenon
  <2>4. chunk # 1 => fifo'
    BY <2>2, <2>3, Zenon
  <2> QED
    BY <2>1, <2>2, <2>4
<1>6. CASE EnterLoop
  <2>1. /\ pc = "loop" /\ pc' = "echo" /\ loop' = TRUE
        /\ UNCHANGED <<chip, fifo, txLost, chunk>>
    BY <1>6 DEF EnterLoop
  <2> QED
    BY <2>1, SameDepth
<1>7. CASE CheckEcho \/ EchoExpires
  <2>1. /\ pc = "echo" /\ pc' \in {"settle", "failed"} /\ loop' = FALSE
        /\ UNCHANGED <<chip, fifo, txLost, chunk>>
    BY <1>7 DEF CheckEcho, EchoExpires
  <2> QED
    BY <2>1, SameDepth
<1>8. CASE GoLive \/ Read
  <2>1. /\ pc \in Configured /\ pc # "echo" /\ pc' \in Live
        /\ UNCHANGED <<chip, loop, fifo, txLost, chunk>>
    BY <1>8 DEF GoLive, Read, AwaitData, Take, Resnap
  <2> QED
    BY <2>1, SameDepth
<1>9. CASE Burst
  <2> DEFINE n == IF left < chunk THEN left ELSE chunk
             fits == IF n < Depth THEN n ELSE Depth
  <2>1. /\ pc = "thre" /\ pc' \in {"live", "thre"} /\ txLost' = txLost + n - fits
        /\ UNCHANGED <<chip, loop, fifo, chunk>>
    BY <1>9 DEF Burst
  <2>2. chunk = 1 \/ (chunk # 1 /\ fifo /\ chip.model = "16550A")
    BY <2>1
  <2>3. chunk <= Depth /\ chunk \in Nat /\ Depth \in Nat /\ left \in Nat
    BY <2>2, Typed, DepthFacts, Bounds DEF TypeOK
  <2>4. n \in Nat /\ fits = n
    BY <2>3
  <2>5. txLost' = 0
    BY <2>1, <2>4
  <2> QED
    BY <2>1, <2>5, SameDepth
<1>15. CASE ThreExpires
  <2>1. pc \in Serving /\ pc' \in Serving /\ UNCHANGED <<chip, loop, fifo, txLost, chunk>>
    BY <1>15 DEF ThreExpires
  <2> QED
    BY <2>1, SameDepth
<1>10. CASE StartRead \/ StartWrite \/ Close
  <2>1. pc \in Serving /\ pc' \in Serving /\ UNCHANGED chipVars /\ chunk' = chunk
    BY <1>10 DEF StartRead, StartWrite, Close
  <2>2. UNCHANGED <<chip, loop, fifo, txLost>>
    BY <2>1 DEF chipVars
  <2> QED
    BY <2>1, <2>2, SameDepth
<1>11. CASE Quiesce
  <2>1. /\ pc = "closing" /\ pc' = "closed" /\ loop' = FALSE
        /\ UNCHANGED <<chip, fifo, txLost, chunk>>
    BY <1>11 DEF Quiesce
  <2> QED
    BY <2>1, SameDepth
<1>12. CASE LineSends \/ Out \/ Poll
  <2>1. UNCHANGED <<chip, loop, fifo, tx, txLost>> /\ UNCHANGED driverVars
    BY <1>12 DEF LineSends, Out, Poll
  <2>2. pc' = pc /\ chunk' = chunk
    BY <2>1 DEF driverVars
  <2> QED
    BY <2>1, <2>2, SameDepth
<1>13. CASE Shift
  <2>1. UNCHANGED <<chip, loop, fifo, txLost>> /\ UNCHANGED driverVars /\ tx # 0
    BY <1>13 DEF Shift
  <2>2. pc' = pc /\ chunk' = chunk
    BY <2>1 DEF driverVars
  <2> QED
    BY <2>1, <2>2, SameDepth
<1>14. CASE ChipStops
  <2>1. UNCHANGED <<loop, fifo, tx, txLost>> /\ UNCHANGED driverVars
    BY <1>14 DEF ChipStops
  <2>2. pc' = pc /\ chunk' = chunk
    BY <2>1 DEF driverVars
  <2>3. chip'.model = chip.model
    BY <1>14 DEF ChipStops, TypeOK
  <2>4. HasFifo' <=> HasFifo
    BY <2>3 DEF HasFifo
  <2> QED
    BY <2>1, <2>2, <2>3, <2>4
<1> QED
  BY <1>1, <1>3, <1>4, <1>5, <1>6, <1>7, <1>8, <1>9, <1>10, <1>11, <1>12, <1>13, <1>14,
     <1>15 DEF Next, Driver, Open

-----------------------------------------------------------------------------
(* The receiver's queue *)

\* A reset of the receiver leaves marked bytes only, and no overrun.
LEMMA Discards ==
    ASSUME TypeOK, MarkedFrom(2, rx), Discard
    PROVE  /\ rx' \in Seq(Items) /\ Len(rx') <= Len(rx) /\ MarkedFrom(1, rx')
           /\ Len(rx) <= 1 => rx' = <<>>
           /\ rx = <<>> => rx' = <<>>
           /\ oe' = FALSE
<1>1. rx \in Seq(Items) /\ Len(rx) \in Nat
  BY Typed
<1>2. CASE rx = <<>>
  <2>1. rx' = <<>> /\ oe' = FALSE
    BY <1>2 DEF Discard
  <2> QED
    BY <1>1, <1>2, <2>1 DEF MarkedFrom
<1>3. CASE rx # <<>>
  <2>1. rx' = Tail(rx) /\ oe' = FALSE
    BY <1>3 DEF Discard
  <2>2. rx' \in Seq(Items) /\ Len(rx') = Len(rx) - 1 /\ MarkedFrom(1, rx')
    BY <1>1, <1>3, <2>1, Shifts
  <2>3. Len(rx) <= 1 => rx' = <<>>
    BY <1>1, <2>2, EmptySeq
  <2> QED
    BY <1>1, <1>3, <2>1, <2>2, <2>3
<1> QED
  BY <1>2, <1>3

\* What the line sends shows its breaks; the sentinel is none.
LEMMA LineItem ==
    ASSUME LineSends
    PROVE  \E item \in Items : Shown(item) /\ Receive(item)
<1>1. PICK brk \in BOOLEAN :
        \E err \in IF brk THEN {{"BI"}, {"BI", "FE"}} ELSE {{}, {"FE"}} :
          Receive([brk |-> brk, err |-> err, missed |-> FALSE])
  BY DEF LineSends
<1>2. PICK err \in IF brk THEN {{"BI"}, {"BI", "FE"}} ELSE {{}, {"FE"}} :
        Receive([brk |-> brk, err |-> err, missed |-> FALSE])
  BY <1>1
<1> DEFINE item == [brk |-> brk, err |-> err, missed |-> FALSE]
<1>3. brk => "BI" \in err
  BY <1>2
<1>4. err \in SUBSET {"BI", "FE", "loop"}
  BY <1>2
<1>5. item \in Items
  BY <1>1, <1>4, Zenon DEF Items
<1>6. Shown(item)
  BY <1>3, Zenon DEF Shown
<1> QED
  BY <1>2, <1>5, <1>6, Zenon

\* The sentinel is a byte without a break, which overruns as it is.
LEMMA Sentinel ==
    /\ Echoed \in Items /\ Shown(Echoed)
    /\ pc # "take" => Overrunning(Echoed) = Echoed
<1>1. ASSUME pc # "take" PROVE Overrunning(Echoed) = Echoed
  <2>1. Overrunning(Echoed).missed = FALSE
    BY <1>1, Blank, ItemFacts
  <2>2. Overrunning(Echoed) = [brk |-> Echoed.brk, err |-> Echoed.err, missed |-> FALSE]
    BY <1>1 DEF Overrunning
  <2> QED
    BY <2>2 DEF Echoed
<1> QED
  BY <1>1, Blank DEF Shown

QueueOk == rx \in Seq(Items) /\ Len(rx) <= Depth /\ MarkedFrom(2, rx)

\* An action that leaves the receiver, and the mode of its FIFO, alone.
LEMMA SameReceiver ==
    ASSUME QueueOk, rx' = rx, chip'.model = chip.model, fifo' = fifo
    PROVE  QueueOk'
<1>1. Depth' = Depth
  BY DEF Depth
<1> QED
  BY <1>1 DEF QueueOk

\* The steps that read LSR decode it when they go on to take the byte.
LEMMA Reading ==
    ASSUME AwaitData \/ Resnap \/ Poll \/ Burst \/ ThreExpires \/ Quiesce
    PROVE  /\ \E decoded \in BOOLEAN :
                ReadLsr(decoded) /\ (decoded <=> pc # "take" /\ pc' = "take")
           /\ chip' = chip /\ fifo' = fifo /\ buf' = buf /\ pc # "take"
           /\ UNCHANGED <<overruns, boundVars, raised, intruded>>
<1>1. CASE AwaitData
  <2>1. ReadLsr(TRUE) /\ pc = "wait" /\ pc' = "take"
    BY <1>1 DEF AwaitData
  <2> QED
    BY <1>1, <2>1 DEF AwaitData
<1>2. CASE Resnap
  <2> DEFINE d == pc' = "take"
  <2>1. ReadLsr(d) /\ pc = "snap"
    BY <1>2 DEF Resnap
  <2>2. d \in BOOLEAN
    OBVIOUS
  <2>3. chip' = chip /\ fifo' = fifo /\ buf' = buf /\ UNCHANGED <<overruns, boundVars, raised, intruded>>
    BY <1>2 DEF Resnap
  <2> QED
    BY <2>1, <2>2, <2>3
<1>3. CASE Poll
  <2>1. ReadLsr(FALSE) /\ UNCHANGED driverVars /\ pc # "take"
    BY <1>3 DEF Poll
  <2>2. UNCHANGED <<pc, buf, overruns>>
    BY <2>1 DEF driverVars
  <2> QED
    BY <1>3, <2>1, <2>2 DEF Poll
<1>4. CASE Burst
  <2>1. ReadLsr(FALSE) /\ pc = "thre" /\ pc' # "take"
    BY <1>4 DEF Burst
  <2> QED
    BY <1>4, <2>1 DEF Burst
<1>5. CASE ThreExpires \/ Quiesce
  <2>1. ReadLsr(FALSE) /\ pc # "take" /\ pc' # "take"
    BY <1>5 DEF ThreExpires, Quiesce
  <2> QED
    BY <1>5, <2>1 DEF ThreExpires, Quiesce
<1> QED
  BY <1>1, <1>2, <1>3, <1>4, <1>5

\* Every step keeps the receiver within its depth and its later bytes marked.
LEMMA QueueSteps ==
    ASSUME TypeOK, ChipInv, BreakInv, Next
    PROVE  QueueOk'
<1>1. /\ rx \in Seq(Items) /\ Len(rx) \in Nat /\ Len(rx) <= Depth /\ MarkedFrom(2, rx)
      /\ Depth \in Nat
  BY Typed, DepthFacts DEF ChipInv, BreakInv
<1>20. QueueOk
  BY <1>1 DEF QueueOk
<1>2. ASSUME Discard, chip' = chip, fifo' = fifo PROVE QueueOk'
  <2>1. /\ rx' \in Seq(Items) /\ Len(rx') \in Nat /\ Len(rx') <= Len(rx)
        /\ MarkedFrom(1, rx')
    BY <1>1, <1>2, Discards, LenProperties
  <2>2. Depth' = Depth
    BY <1>2, SameDepth
  <2>3. MarkedFrom(2, rx')
    BY <2>1 DEF MarkedFrom
  <2> QED
    BY <1>1, <2>1, <2>2, <2>3 DEF QueueOk
<1>3. ASSUME NEW on \in BOOLEAN, WriteFcr(on), chip' = chip PROVE QueueOk'
  <2>1. rx' \in Seq(Items) /\ Len(rx') <= Depth' /\ (rx' = <<>> \/ rx' = rx)
    BY <1>3, FcrFacts, Zenon DEF ChipInv
  <2>2. MarkedFrom(2, rx')
    BY <1>1, <2>1 DEF MarkedFrom
  <2> QED
    BY <2>1, <2>2 DEF QueueOk
<1>4. ASSUME NEW item \in Items, Shown(item), Receive(item), chip' = chip, fifo' = fifo
      PROVE  QueueOk'
  <2>1. rx' \in Seq(Items) /\ Len(rx') <= Depth /\ MarkedFrom(2, rx')
    BY <1>1, <1>4, Receives
  <2> QED
    BY <1>4, <2>1, SameDepth DEF QueueOk
<1>5. ASSUME NEW decoded \in BOOLEAN, ReadLsr(decoded), chip' = chip, fifo' = fifo PROVE QueueOk'
  <2>1. rx' \in Seq(Items) /\ Len(rx') = Len(rx) /\ MarkedFrom(2, rx')
    BY <1>1, <1>5, Snaps
  <2> QED
    BY <1>1, <1>5, <2>1, SameDepth DEF QueueOk
<1>6. ASSUME rx' = rx, chip'.model = chip.model, fifo' = fifo PROVE QueueOk'
  BY <1>6, <1>20, SameReceiver
<1>7. CASE ClearStale \/ GoLive \/ CheckEcho
  BY <1>2, <1>7 DEF ClearStale, GoLive, CheckEcho
<1>8. CASE Detect
  <2>1. CASE Present
    BY <1>3, <1>8, <2>1 DEF Detect
  <2>2. CASE ~Present
    BY <1>6, <1>8, <2>2 DEF Detect
  <2> QED
    BY <2>1, <2>2
<1>9. CASE Configure
  <2>1. (chunk > 1) \in BOOLEAN
    OBVIOUS
  <2>2. WriteFcr(chunk > 1) /\ chip' = chip
    BY <1>9 DEF Configure
  <2> QED
    BY <1>3, <2>1, <2>2, Zenon
<1>10. CASE StoreTest \/ EnterLoop \/ EchoExpires \/ Shift
  BY <1>6, <1>10 DEF StoreTest, EnterLoop, EchoExpires, Shift
<1>11. CASE ProgramDivisor \/ StartRead \/ StartWrite \/ Close
  <2>1. UNCHANGED chipVars
    BY <1>11 DEF ProgramDivisor, StartRead, StartWrite, Close
  <2>2. rx' = rx /\ chip' = chip /\ fifo' = fifo
    BY <2>1 DEF chipVars
  <2> QED
    BY <1>6, <2>2
<1>12. CASE AwaitData \/ Resnap \/ Poll \/ Burst \/ ThreExpires \/ Quiesce
  BY <1>5, <1>12, Reading
<1>13. CASE Take
  <2>1. rx # <<>> /\ rx' = Tail(rx) /\ chip' = chip /\ fifo' = fifo
    BY <1>13 DEF Take, BreakInv, Hand
  <2>2. rx' \in Seq(Items) /\ Len(rx') = Len(rx) - 1 /\ MarkedFrom(1, rx')
    BY <1>1, <2>1, Shifts
  <2>3. MarkedFrom(2, rx')
    BY <1>1, <2>2 DEF MarkedFrom
  <2>4. Len(rx') <= Depth
    BY <1>1, <2>2
  <2> QED
    BY <2>1, <2>2, <2>3, <2>4, SameDepth DEF QueueOk
<1>14. CASE LineSends
  <2>1. PICK item \in Items : Shown(item) /\ Receive(item)
    BY <1>14, LineItem
  <2>2. chip' = chip /\ fifo' = fifo
    BY <1>14 DEF LineSends
  <2> QED
    BY <1>4, <2>1, <2>2
<1>15. CASE Out
  <2>1. Receive(Echoed) \/ UNCHANGED <<rx, oe, raised>>
    BY <1>15 DEF Out
  <2>2. chip' = chip /\ fifo' = fifo
    BY <1>15 DEF Out
  <2> QED
    BY <1>4, <1>6, <2>1, <2>2, Sentinel
<1>16. CASE ChipStops
  <2>1. chip'.model = chip.model /\ fifo' = fifo /\ rx' = rx
    BY <1>16 DEF ChipStops, TypeOK
  <2> QED
    BY <1>6, <2>1
<1> QED
  BY <1>7, <1>8, <1>9, <1>10, <1>11, <1>12, <1>13, <1>14, <1>15, <1>16
     DEF Next, Driver, Open, Read

\* Every step keeps the sentinel first, unless the line spoke.
LEMMA EchoSteps ==
    ASSUME TypeOK, ChipInv, EchoInv, BreakInv, Next
    PROVE  EchoInv'
<1> USE DEF EchoInv, WorkingChipOpens, Unreset
<1>1. /\ rx \in Seq(Items) /\ Len(rx) \in Nat /\ Len(rx) <= Depth /\ MarkedFrom(2, rx)
      /\ intruded \in BOOLEAN
  BY Typed DEF ChipInv, BreakInv
<1>2. CASE pc' \in Live \cup {"settle"}
  BY <1>2 DEF Live, Serving
<1>3. CASE ClearStale
  <2>1. Discard /\ pc' = "detect" /\ chip' = chip /\ fifo' = fifo
    BY <1>3 DEF ClearStale
  <2>2. ~HasFifo => Depth = 1
    BY DEF Depth, HasFifo
  <2>3. ~HasFifo => rx' = <<>>
    BY <1>1, <2>1, <2>2, Discards
  <2> QED
    BY <2>1, <2>3, SameDepth
<1>4. CASE StoreTest
  <2>1. pc = "detect" /\ pc' = "probe" /\ UNCHANGED <<chip, fifo, rx, intruded>>
    BY <1>4 DEF StoreTest, historyVars
  <2> QED
    BY <2>1, SameDepth
<1>5. CASE Detect
  <2>1. pc = "probe" /\ chip' = chip /\ intruded' = intruded
    BY <1>5 DEF Detect, historyVars
  <2>2. CASE ~Present
    <3>1. pc' = "failed" /\ chip'.fault = "absent"
      BY <1>5, <2>1, <2>2 DEF Detect, Present
    <3> QED
      BY <3>1
  <2>3. CASE Present
    <3>1. pc' = "divisor" /\ WriteFcr(TRUE)
      BY <1>5, <2>3 DEF Detect
    <3>2. (~HasFifo => rx' = rx) /\ (HasFifo' <=> HasFifo)
      BY <2>1, <3>1, FcrFacts DEF ChipInv
    <3> QED
      BY <2>1, <3>1, <3>2
  <2> QED
    BY <2>2, <2>3
<1>6. CASE ProgramDivisor
  <2>1. UNCHANGED chipVars /\ UNCHANGED historyVars /\ pc = "divisor"
        /\ pc' = IF chip.fault = "stuck" THEN "failed" ELSE "setup"
    BY <1>6 DEF ProgramDivisor
  <2>2. chip' = chip /\ fifo' = fifo /\ rx' = rx /\ intruded' = intruded
    BY <2>1 DEF chipVars, historyVars
  <2> QED
    BY <2>1, <2>2, SameDepth
<1>7. CASE Configure
  <2> DEFINE on == chunk > 1
  <2>1. pc = "setup" /\ pc' = "loop" /\ chip' = chip /\ WriteFcr(on) /\ intruded' = intruded
    BY <1>7 DEF Configure, historyVars
  <2>2. on \in BOOLEAN
    OBVIOUS
  <2> HIDE DEF on
  <2>3. (~HasFifo => rx' = rx) /\ (HasFifo => rx' = <<>>)
    BY <2>1, <2>2, FcrFacts, Zenon DEF ChipInv
  <2> QED
    BY <2>1, <2>3
<1>8. CASE EnterLoop
  <2>1. pc = "loop" /\ pc' = "echo" /\ rx' = rx /\ intruded' = intruded
    BY <1>8 DEF EnterLoop, historyVars
  <2> QED
    BY <2>1
<1>9. CASE CheckEcho
  <2>1. /\ pc = "echo" /\ rx # <<>> /\ chip' = chip /\ intruded' = intruded
        /\ pc' = IF Head(rx) = Echoed /\ chip.fault # "nomodem" THEN "settle" ELSE "failed"
    BY <1>9 DEF CheckEcho, historyVars, DR
  <2>2. intruded \/ Head(rx) = Echoed
    BY <2>1
  <2> QED
    BY <2>1, <2>2
<1>10. CASE EchoExpires
  <2>1. pc' = "failed" /\ chip' = chip /\ chip.fault # "none"
    BY <1>10 DEF EchoExpires
  <2> QED
    BY <2>1
<1>11. CASE GoLive \/ Read \/ Poll \/ Burst \/ ThreExpires \/ Quiesce \/ StartRead \/ StartWrite
            \/ Close
  <2>1. pc' \in Live \cup {"settle"}
    BY <1>11 DEF GoLive, Read, AwaitData, Take, Resnap, Poll, Burst, ThreExpires, Quiesce,
                 StartRead, StartWrite, Close, Live, Serving, driverVars
  <2> QED
    BY <1>2, <2>1
<1>12. CASE LineSends
  <2>1. UNCHANGED <<chip, fifo, driverVars>> /\ pc \notin {"failed", "closed"} /\ ~loop
        /\ intruded' = (\/ intruded \/ pc = "loop"
                        \/ ~HasFifo /\ pc \in {"detect", "probe", "divisor", "setup"})
    BY <1>12 DEF LineSends
  <2>2. pc' = pc /\ pc # "echo"
    BY <2>1 DEF driverVars, ChipInv
  <2>3. HasFifo' <=> HasFifo
    BY <2>1, SameDepth
  <2>4. ~intruded' => ~intruded /\ pc # "loop" /\ ~(~HasFifo /\ pc \in Unreset)
    BY <2>1, Zenon
  <2> QED
    BY <2>1, <2>2, <2>3, <2>4
<1>13. CASE Out
  <2>1. UNCHANGED <<chip, fifo, driverVars, intruded>>
    BY <1>13 DEF Out
  <2>2. pc' = pc
    BY <2>1 DEF driverVars
  <2>3. CASE loop /\ chip.fault # "dead"
    <3>1. pc = "echo" /\ Receive(Echoed)
      BY <1>13, <2>3 DEF Out, ChipInv
    <3>2. /\ rx' \in Seq(Items) /\ rx' # <<>>
          /\ rx'[1] = Echoed \/ (rx # <<>> /\ rx'[1] = rx[1])
      <4>1. Echoed \in Items /\ Shown(Echoed) /\ Overrunning(Echoed) = Echoed
        BY <3>1, Sentinel
      <4> QED
        BY <1>1, <3>1, <4>1, Receives
    <3>3. Head(rx') = rx'[1] /\ (rx # <<>> => Head(rx) = rx[1])
      BY <1>1, <3>2, FirstTaken
    <3> QED
      BY <2>1, <2>2, <3>1, <3>2, <3>3
  <2>4. CASE ~(loop /\ chip.fault # "dead")
    <3>1. rx' = rx
      BY <1>13, <2>4 DEF Out
    <3> QED
      BY <2>1, <2>2, <3>1, SameDepth
  <2> QED
    BY <2>3, <2>4
<1>14. CASE Shift
  <2>1. UNCHANGED <<chip, fifo, rx, driverVars, historyVars>>
    BY <1>14 DEF Shift
  <2>2. pc' = pc /\ intruded' = intruded
    BY <2>1 DEF driverVars, historyVars
  <2> QED
    BY <2>1, <2>2, SameDepth
<1>15. CASE ChipStops
  <2>1. pc \in Serving /\ UNCHANGED driverVars
    BY <1>15 DEF ChipStops
  <2>2. pc' \in Live
    BY <2>1 DEF driverVars, Live
  <2> QED
    BY <1>2, <2>2
<1> QED
  BY <1>3, <1>4, <1>5, <1>6, <1>7, <1>8, <1>9, <1>10, <1>11, <1>12, <1>13, <1>14, <1>15
     DEF Next, Driver, Open

-----------------------------------------------------------------------------
(* Breaks *)

\* A break is marked by what kept its mark, or by the first byte and the rest.
LEMMA FirstMarked ==
    ASSUME NEW q \in Seq(Items), MarkedFrom(2, q), q # <<>> => Marked(q[1])
    PROVE  MarkedFrom(1, q)
BY MarkedParts

\* Every step keeps breaks apart from data.
LEMMA BreakSteps ==
    ASSUME TypeOK, ChipInv, BreakInv, ReadInv, Next
    PROVE  BreakInv'
<1>1. /\ rx \in Seq(Items) /\ Len(rx) \in Nat /\ Len(rx) <= Depth /\ Depth \in Nat
      /\ buf \in Seq(Items) /\ Len(buf) \in Nat /\ Len(buf) <= ReadLen
  BY Typed, DepthFacts DEF ChipInv
<1>2. rx' \in Seq(Items) /\ MarkedFrom(2, rx')
  BY QueueSteps DEF QueueOk
<1>3. /\ MarkedFrom(2, rx) /\ (pc # "take" => MarkedFrom(1, rx)) /\ (pc = "take" => Hand)
      /\ BreaksAreNotData
  BY DEF BreakInv
<1>4. CASE Open
  <2>1. /\ pc \in Opening /\ pc # "take" /\ pc' # "take" /\ buf' = buf
    BY <1>4 DEF Open, ClearStale, StoreTest, Detect, ProgramDivisor, Configure, EnterLoop,
                CheckEcho, EchoExpires, GoLive, Opening
  <2>2. Discard \/ rx' = rx \/ rx' = <<>>
    BY <1>4 DEF Open, ClearStale, StoreTest, Detect, ProgramDivisor, Configure, EnterLoop,
                CheckEcho, EchoExpires, GoLive, WriteFcr, chipVars
  <2>3. MarkedFrom(1, rx')
    <3>1. CASE Discard
      BY <1>3, <3>1, Discards
    <3>2. CASE rx' = rx \/ rx' = <<>>
      BY <1>2, <1>3, <2>1, <3>2 DEF MarkedFrom
    <3> QED
      BY <2>2, <3>1, <3>2
  <2>4. BreaksAreNotData'
    BY <1>3, <2>1 DEF BreaksAreNotData
  <2> QED
    BY <1>2, <2>1, <2>3, <2>4 DEF BreakInv
<1>5. CASE StartRead \/ StartWrite \/ Close
  <2>1. /\ pc = "live" /\ pc' # "take" /\ (buf' = buf \/ buf' = <<>>) /\ UNCHANGED chipVars
    BY <1>5 DEF StartRead, StartWrite, Close
  <2>2. rx' = rx
    BY <2>1 DEF chipVars
  <2>3. BreaksAreNotData'
    BY <1>3, <2>1 DEF BreaksAreNotData
  <2> QED
    BY <1>2, <1>3, <2>1, <2>2, <2>3 DEF BreakInv
<1>6. CASE Shift \/ ChipStops
  <2>1. rx' = rx /\ UNCHANGED driverVars
    BY <1>6 DEF Shift, ChipStops
  <2>2. UNCHANGED <<rx, pc, snap, buf>>
    BY <2>1 DEF driverVars
  <2> QED
    BY <1>2, <1>3, <2>2 DEF BreakInv, Hand, BreaksAreNotData
<1>7. CASE AwaitData \/ Resnap \/ Poll \/ Burst \/ ThreExpires \/ Quiesce
  <2>1. PICK decoded \in BOOLEAN : ReadLsr(decoded) /\ (decoded <=> pc # "take" /\ pc' = "take")
    BY <1>7, Reading
  <2>2. buf' = buf /\ pc # "take" /\ MarkedFrom(1, rx)
    BY <1>3, <1>7, Reading
  <2>3. BreaksAreNotData'
    BY <1>3, <2>2 DEF BreaksAreNotData
  <2>4. /\ ~DR => rx' = rx
        /\ DR => /\ rx # <<>> /\ rx' # <<>>
                 /\ Marked(rx[1]) /\ rx'[1].brk
                      => rx'[1].missed \/ (decoded /\ "BI" \in LsrShows)
    BY <2>1, Snaps
  <2>5. rx # <<>> => Marked(rx[1])
    BY <1>1, <2>2, MarkedParts
  <2>6. CASE pc' # "take"
    <3>1. rx' # <<>> => Marked(rx'[1])
      BY <2>1, <2>4, <2>5, <2>6 DEF Marked
    <3>2. MarkedFrom(1, rx')
      BY <1>2, <3>1, FirstMarked
    <3> QED
      BY <1>2, <2>3, <2>6, <3>2 DEF BreakInv
  <2>7. CASE pc' = "take"
    <3>1. AwaitData \/ Resnap
      BY <1>7, <2>2, <2>7 DEF Poll, Burst, ThreExpires, Quiesce, driverVars
    <3>2. /\ snap' = LsrShows /\ DR
          /\ pc = "wait" \/ Len(buf) < ReadLen
      BY <2>7, <3>1 DEF AwaitData, Resnap
    <3>3. Len(buf') < ReadLen
      BY <1>1, <2>2, <3>2, Bounds DEF ReadInv
    <3>4. Hand'
      BY <2>4, <2>5, <3>2, <3>3 DEF Hand
    <3> QED
      BY <1>2, <2>3, <2>7, <3>4 DEF BreakInv
  <2> QED
    BY <2>6, <2>7
<1>8. CASE Take
  <2>1. /\ pc = "take" /\ pc' # "take" /\ rx' = Tail(rx)
    BY <1>8 DEF Take
  <2>2. Hand
    BY <1>3, <2>1
  <2>3. MarkedFrom(1, rx')
    BY <1>1, <1>3, <2>1, <2>2, Shifts DEF Hand
  <2>4. CASE "BI" \in snap
    <3>1. buf' = buf
      BY <1>8, <2>4 DEF Take
    <3>2. BreaksAreNotData'
      BY <1>3, <3>1 DEF BreaksAreNotData
    <3> QED
      BY <1>2, <2>1, <2>3, <3>2 DEF BreakInv
  <2>5. CASE "BI" \notin snap
    <3>1. buf' = Append(buf, rx[1]) /\ rx[1] \in Items
      BY <1>1, <1>8, <2>2, <2>5, FirstTaken DEF Take, Hand
    <3>2. /\ Len(buf') = Len(buf) + 1 /\ \A i \in 1..Len(buf) : buf'[i] = buf[i]
          /\ buf'[Len(buf) + 1] = rx[1]
      BY <1>1, <3>1, LastAppended
    <3>3. ASSUME NEW i \in 1..Len(buf'), buf'[i].brk PROVE buf'[i].missed
      <4>1. CASE i \in 1..Len(buf)
        BY <1>3, <3>2, <3>3, <4>1 DEF BreaksAreNotData
      <4>2. CASE i = Len(buf) + 1
        BY <2>2, <2>5, <3>2, <3>3, <4>2 DEF Hand
      <4> QED
        BY <1>1, <3>2, <4>1, <4>2
    <3>4. BreaksAreNotData'
      BY <3>3 DEF BreaksAreNotData
    <3> QED
      BY <1>2, <2>1, <2>3, <3>4 DEF BreakInv
  <2> QED
    BY <2>4, <2>5
<1>9. CASE LineSends \/ Out
  <2>1. UNCHANGED driverVars
    BY <1>9 DEF LineSends, Out
  <2>2. UNCHANGED <<pc, snap, buf>>
    BY <2>1 DEF driverVars
  <2>3. BreaksAreNotData'
    BY <1>3, <2>2 DEF BreaksAreNotData
  <2>4. CASE rx' = rx
    BY <1>2, <1>3, <2>2, <2>3, <2>4 DEF BreakInv, Hand
  <2>5. ASSUME NEW item \in Items, Shown(item), Receive(item) PROVE BreakInv'
    <3>1. /\ rx' # <<>> /\ Marked(item)
          /\ \/ rx = <<>> /\ rx'[1] = item
             \/ rx # <<>> /\ rx'[1] = rx[1]
             \/ rx # <<>> /\ rx'[1] = Overrunning(item)
      BY <1>1, <2>5, Receives
    <3>2. /\ Overrunning(item).brk = item.brk /\ Overrunning(item).err = item.err
          /\ Overrunning(item).missed = (pc = "take" /\ item.brk)
      BY ItemFacts
    <3>3. ASSUME pc' # "take" PROVE MarkedFrom(1, rx')
      <4>1. rx # <<>> => Marked(rx[1])
        BY <1>1, <1>3, <2>2, <3>3, MarkedParts
      <4>2. Marked(Overrunning(item))
        BY <2>5, <3>2 DEF Marked, Shown
      <4>3. Marked(rx'[1])
        BY <3>1, <4>1, <4>2
      <4> QED
        BY <1>2, <4>3, FirstMarked
    <3>4. ASSUME pc' = "take" PROVE Hand'
      <4>1. Hand
        BY <1>3, <2>2, <3>4
      <4>2. CASE rx'[1] = rx[1]
        BY <2>2, <3>1, <4>1, <4>2 DEF Hand
      <4>3. CASE rx'[1] = Overrunning(item)
        BY <2>2, <3>1, <3>2, <3>4, <4>1, <4>3 DEF Hand
      <4> QED
        BY <3>1, <4>1, <4>2, <4>3 DEF Hand
    <3> QED
      BY <1>2, <2>3, <3>3, <3>4 DEF BreakInv
  <2>6. CASE LineSends
    BY <2>5, <2>6, LineItem
  <2>7. CASE Out
    <3>1. Receive(Echoed) \/ rx' = rx
      BY <2>7 DEF Out
    <3> QED
      BY <2>4, <2>5, <3>1, Sentinel
  <2> QED
    BY <1>9, <2>6, <2>7
<1> QED
  BY <1>4, <1>5, <1>6, <1>7, <1>8, <1>9 DEF Next, Driver, Read

-----------------------------------------------------------------------------
(* Overruns *)

\* A step that moves no overrun.
LEMMA NoOverrun ==
    ASSUME OverrunInv, UNCHANGED <<oe, raised, overruns, unseen>>, Snapped' <=> Snapped,
           pc' \in Live <=> pc \in Live, sent \in Nat, sent' \in Nat, sent <= sent',
           raised \in Nat
    PROVE  OverrunInv'
<1>1. One(oe)' = One(oe) /\ One(Snapped)' = One(Snapped)
  BY DEF One
<1> QED
  BY <1>1 DEF OverrunInv

\* Every step keeps the overruns accounted for.
LEMMA OverrunSteps ==
    ASSUME TypeOK, ChipInv, OverrunInv, Next
    PROVE  /\ OverrunInv'
           /\ raised' \in Nat /\ overruns' \in Nat /\ unseen' \in Nat /\ sent' \in Nat
<1>1. /\ raised \in Nat /\ overruns \in Nat /\ unseen \in Nat /\ sent \in Nat
      /\ oe \in BOOLEAN /\ Snapped \in BOOLEAN /\ (oe = TRUE \/ oe = FALSE)
      /\ rx \in Seq(Items) /\ Len(rx) <= Depth
  BY Typed DEF Snapped, ChipInv
<1>2. /\ One(oe) = (IF oe = TRUE THEN 1 ELSE 0) /\ One(oe) \in Nat
      /\ One(Snapped) = (IF Snapped THEN 1 ELSE 0) /\ One(Snapped) \in Nat
  BY <1>1 DEF One
<1>3. CASE Open /\ ~GoLive
  <2>1. /\ pc \notin Live /\ pc' \notin Live /\ UNCHANGED <<overruns, boundVars, historyVars>>
    BY <1>3 DEF Open, ClearStale, StoreTest, Detect, ProgramDivisor, Configure, EnterLoop,
                CheckEcho, EchoExpires, Live, Serving
  <2>2. UNCHANGED <<sent, raised, unseen>>
    BY <2>1 DEF boundVars, historyVars
  <2> QED
    BY <1>1, <2>1, <2>2 DEF OverrunInv
<1>4. CASE GoLive
  <2>1. /\ pc = "settle" /\ pc' = "live" /\ oe' = FALSE
        /\ UNCHANGED <<overruns, boundVars, historyVars>>
    BY <1>4 DEF GoLive, Discard
  <2>2. UNCHANGED <<sent, raised, unseen>>
    BY <2>1 DEF boundVars, historyVars
  <2>3. raised = 0 /\ overruns = 0 /\ unseen = 0
    BY <2>1 DEF OverrunInv, Live, Serving
  <2>4. One(oe)' = 0 /\ One(Snapped)' = 0
    BY <2>1 DEF One, Snapped
  <2>5. pc' \in Live
    BY <2>1 DEF Live, Serving
  <2> QED
    BY <1>1, <2>1, <2>2, <2>3, <2>4, <2>5 DEF OverrunInv
<1>5. CASE StartRead \/ StartWrite \/ Close \/ Shift \/ ChipStops
  <2>1. /\ UNCHANGED <<oe, overruns, sent, raised, unseen>>
        /\ pc' \in Live <=> pc \in Live
        /\ pc = "take" <=> pc' = "take"
        /\ snap' = snap
    <3>1. CASE StartRead \/ StartWrite \/ Close
      BY <3>1 DEF StartRead, StartWrite, Close, chipVars, historyVars, boundVars, Live, Serving
    <3>2. CASE Shift \/ ChipStops
      BY <3>2 DEF Shift, ChipStops, driverVars, historyVars, boundVars
    <3> QED
      BY <1>5, <3>1, <3>2
  <2>2. Snapped' <=> Snapped
    BY <2>1 DEF Snapped
  <2> QED
    BY <1>1, <2>1, <2>2, NoOverrun
<1>6. CASE AwaitData \/ Resnap \/ Poll \/ Burst \/ ThreExpires \/ Quiesce
  <2>1. PICK decoded \in BOOLEAN : ReadLsr(decoded) /\ (decoded <=> pc # "take" /\ pc' = "take")
    BY <1>6, Reading
  <2>2. pc # "take" /\ UNCHANGED <<overruns, boundVars, raised>>
    BY <1>6, Reading
  <2>3. sent' = sent
    BY <2>2 DEF boundVars
  <2>4. pc \in Live /\ pc' \in Live
    <3>1. CASE AwaitData \/ Resnap
      BY <3>1 DEF AwaitData, Resnap, Live, Serving
    <3>2. CASE Poll
      BY <3>2 DEF Poll, driverVars, Live, Serving
    <3>3. CASE Burst \/ ThreExpires \/ Quiesce
      BY <3>3 DEF Burst, ThreExpires, Quiesce, Live, Serving
    <3> QED
      BY <1>6, <3>1, <3>2, <3>3
  <2>5. /\ oe' = FALSE /\ unseen' = IF decoded THEN unseen ELSE unseen + One(oe)
        /\ "OE" \in LsrShows <=> oe = TRUE
    BY <2>1, Snaps
  <2>6. One(oe)' = 0 /\ One(Snapped) = 0
    BY <2>2, <2>5 DEF One, Snapped
  <2>7. CASE pc' = "take"
    <3>1. snap' = LsrShows
      BY <1>6, <2>2, <2>7 DEF AwaitData, Resnap, Poll, Burst, ThreExpires, Quiesce, driverVars
    <3>2. Snapped' <=> oe = TRUE
      BY <2>5, <2>7, <3>1 DEF Snapped
    <3>3. One(Snapped)' = One(oe)
      BY <1>2, <3>2 DEF One
    <3>4. unseen' = unseen
      BY <2>1, <2>2, <2>5, <2>7
    <3> QED
      BY <1>1, <1>2, <2>2, <2>3, <2>4, <2>6, <3>3, <3>4 DEF OverrunInv
  <2>8. CASE pc' # "take"
    <3>1. One(Snapped)' = 0
      BY <2>8 DEF Snapped, One
    <3>2. unseen' = unseen + One(oe)
      BY <2>1, <2>5, <2>8
    <3> QED
      BY <1>1, <1>2, <2>2, <2>3, <2>4, <2>6, <3>1, <3>2 DEF OverrunInv
  <2> QED
    BY <2>7, <2>8
<1>8. CASE Take
  <2>1. /\ pc = "take" /\ pc' \in {"live", "snap"} /\ oe' = oe
        /\ overruns' = overruns + (IF "OE" \in snap THEN 1 ELSE 0)
        /\ UNCHANGED <<boundVars, historyVars>>
    BY <1>8 DEF Take
  <2>2. UNCHANGED <<sent, raised, unseen>>
    BY <2>1 DEF boundVars, historyVars
  <2>3. overruns' = overruns + One(Snapped) /\ ~Snapped'
    BY <2>1 DEF Snapped, One
  <2>4. One(oe)' = One(oe) /\ One(Snapped)' = 0
    BY <2>1, <2>3 DEF One
  <2>5. pc \in Live /\ pc' \in Live
    BY <2>1 DEF Live, Serving
  <2> QED
    BY <1>1, <1>2, <2>1, <2>2, <2>3, <2>4, <2>5 DEF OverrunInv
<1>9. CASE LineSends
  <2>1. UNCHANGED <<driverVars, unseen>> /\ sent' = sent + 1 /\ pc \notin {"failed", "closed"}
    BY <1>9 DEF LineSends
  <2>2. UNCHANGED <<pc, snap, overruns>>
    BY <2>1 DEF driverVars
  <2>3. Snapped' <=> Snapped
    BY <2>2 DEF Snapped
  <2>4. PICK item \in Items : Shown(item) /\ Receive(item)
    BY <1>9, LineItem
  <2>5. \/ oe' = oe /\ raised' = raised
        \/ oe' = TRUE /\ raised' = raised + One(pc \in Serving /\ ~oe)
    BY <1>1, <2>4, Receives
  <2>6. CASE oe' = oe /\ raised' = raised
    BY <1>1, <2>1, <2>2, <2>3, <2>6, NoOverrun
  <2>7. CASE oe' = TRUE /\ raised' = raised + One(pc \in Serving /\ ~oe)
    <3>1. One(Snapped)' = One(Snapped) /\ One(oe)' = 1
      BY <2>3, <2>7 DEF One
    <3>2. pc \in Serving <=> pc \in Live
      BY <2>1 DEF Live
    <3>3. CASE pc \in Live
      <4>1. raised' = raised + 1 - One(oe)
        BY <1>1, <1>2, <2>7, <3>2, <3>3 DEF One
      <4> QED
        BY <1>1, <1>2, <2>1, <2>2, <3>1, <3>3, <4>1 DEF OverrunInv
    <3>4. CASE pc \notin Live
      <4>1. raised' = raised
        BY <1>1, <2>7, <3>2, <3>4 DEF One
      <4> QED
        BY <1>1, <2>1, <2>2, <3>4, <4>1 DEF OverrunInv
    <3> QED
      BY <3>3, <3>4
  <2> QED
    BY <2>5, <2>6, <2>7
<1>10. CASE Out
  <2>1. UNCHANGED <<driverVars, boundVars, unseen>>
    BY <1>10 DEF Out
  <2>2. UNCHANGED <<pc, snap, overruns, sent>>
    BY <2>1 DEF driverVars, boundVars
  <2>3. Snapped' <=> Snapped
    BY <2>2 DEF Snapped
  <2>4. CASE oe' = oe /\ raised' = raised
    BY <1>1, <2>1, <2>2, <2>3, <2>4, NoOverrun
  <2>5. CASE loop /\ Receive(Echoed)
    <3>1. pc = "echo" /\ pc \notin Live
      BY <2>5 DEF ChipInv, Live, Serving
    <3>2. One(pc \in Serving /\ ~oe) = 0
      BY <3>1 DEF One, Serving
    <3>3. raised' = raised
      BY <1>1, <2>5, <3>2 DEF Receive
    <3> QED
      BY <1>1, <2>1, <2>2, <3>1, <3>3 DEF OverrunInv
  <2> QED
    BY <1>10, <2>4, <2>5 DEF Out
<1> QED
  BY <1>3, <1>4, <1>5, <1>6, <1>8, <1>9, <1>10 DEF Next, Driver, Read

-----------------------------------------------------------------------------
(* What a read returns *)

\* Every step keeps a read from returning nothing.
LEMMA ReadSteps ==
    ASSUME TypeOK, ReadInv, Next
    PROVE  /\ ReadInv'
           /\ left' \in 0..MaxLen /\ ret' \in -1..(ReadLen + MaxLen)
           /\ writes' \in 0..MaxWrites
<1>1. /\ left \in 0..MaxLen /\ ret \in -1..(ReadLen + MaxLen) /\ writes \in 0..MaxWrites
      /\ buf \in Seq(Items) /\ Len(buf) \in Nat /\ Len(buf) <= ReadLen
      /\ (buf = <<>> <=> Len(buf) = 0)
      /\ chunk \in Nat /\ chunk > 0
  BY Typed, Bounds, EmptySeq DEF TypeOK
<1>2. CASE Open \/ ThreExpires \/ Close \/ Quiesce \/ AwaitData
  <2>1. /\ pc' # "wait" /\ ret' \in {ret, -1} /\ left' \in {left, 0} /\ UNCHANGED boundVars
    BY <1>2 DEF Open, ClearStale, StoreTest, Detect, ProgramDivisor, Configure, EnterLoop,
                CheckEcho, EchoExpires, GoLive, ThreExpires, Close, Quiesce, AwaitData
  <2>2. writes' = writes
    BY <2>1 DEF boundVars
  <2> QED
    BY <1>1, <2>1, <2>2, Bounds DEF ReadInv
<1>3. CASE StartRead
  <2>1. buf' = <<>> /\ UNCHANGED <<left, ret, boundVars>>
    BY <1>3 DEF StartRead
  <2> QED
    BY <1>1, <2>1 DEF ReadInv, boundVars
<1>4. CASE StartWrite
  BY <1>1, <1>4, Bounds DEF StartWrite, ReadInv
<1>5. CASE Burst
  <2> DEFINE n == IF left < chunk THEN left ELSE chunk
  <2>1. left' = left - n /\ pc' # "wait" /\ UNCHANGED <<ret, boundVars>>
    BY <1>5 DEF Burst
  <2>2. left' \in 0..MaxLen
    BY <1>1, <2>1, Bounds
  <2> QED
    BY <1>1, <2>1, <2>2 DEF ReadInv, boundVars
<1>6. CASE Take
  <2>1. pc' # "wait" /\ ret' \in {ret, -1} /\ UNCHANGED <<left, boundVars>>
    BY <1>6 DEF Take
  <2> QED
    BY <1>1, <2>1, Bounds DEF ReadInv, boundVars
<1>7. CASE Resnap
  <2>1. /\ UNCHANGED <<buf, left, boundVars>>
        /\ ret' = IF pc' = "live" THEN Len(buf) ELSE ret
        /\ pc' = "live" => buf # <<>>
        /\ pc' = "wait" => ~(Len(buf) < ReadLen /\ DR) /\ buf = <<>>
    BY <1>7 DEF Resnap
  <2> QED
    BY <1>1, <2>1, Bounds DEF ReadInv, boundVars
<1>8. CASE LineSends \/ Shift \/ Out \/ ChipStops \/ Poll
  <2>1. UNCHANGED <<driverVars, writes>>
    BY <1>8 DEF LineSends, Shift, Out, ChipStops, Poll, boundVars
  <2> QED
    BY <1>1, <2>1 DEF ReadInv, driverVars
<1> QED
  BY <1>2, <1>3, <1>4, <1>5, <1>6, <1>7, <1>8 DEF Next, Driver, Read

-----------------------------------------------------------------------------
(* Types *)

\* The types of the chip's switches,
LEMMA FlagSteps ==
    ASSUME TypeOK, ChipInv, Next
    PROVE  /\ ier' \in BOOLEAN /\ out2' \in BOOLEAN /\ loop' \in BOOLEAN /\ fifo' \in BOOLEAN
           /\ oe' \in BOOLEAN /\ shifting' \in BOOLEAN /\ intruded' \in BOOLEAN
<1>1. /\ ier \in BOOLEAN /\ out2 \in BOOLEAN /\ loop \in BOOLEAN /\ fifo \in BOOLEAN
      /\ oe \in BOOLEAN /\ shifting \in BOOLEAN /\ intruded \in BOOLEAN
      /\ Len(rx) <= Depth /\ (~HasFifo => ~fifo)
  BY Typed DEF ChipInv
<1>2. FALSE \in BOOLEAN /\ TRUE \in BOOLEAN
  OBVIOUS
<1>3. CASE ClearStale \/ StoreTest \/ EnterLoop \/ CheckEcho \/ EchoExpires \/ GoLive
  <2>1. /\ ier' \in {ier, TRUE} /\ loop' \in {loop, TRUE, FALSE} /\ oe' \in {oe, FALSE}
        /\ UNCHANGED <<out2, fifo, shifting, historyVars>>
    BY <1>3 DEF ClearStale, StoreTest, EnterLoop, CheckEcho, EchoExpires, GoLive, Discard
  <2>2. intruded' = intruded
    BY <2>1 DEF historyVars
  <2> QED
    BY <1>1, <1>2, <2>1, <2>2, Zenon
<1>4. CASE Detect
  <2>1. ier' = FALSE /\ UNCHANGED <<chip, out2, loop, shifting, historyVars>>
    BY <1>4 DEF Detect
  <2>2. intruded' = intruded
    BY <2>1 DEF historyVars
  <2>3. WriteFcr(TRUE) \/ UNCHANGED <<fifo, oe>>
    BY <1>4 DEF Detect
  <2>4. fifo' \in BOOLEAN /\ oe' \in BOOLEAN
    BY <1>1, <1>2, <2>1, <2>3, FcrFacts, Zenon
  <2> QED
    BY <1>1, <1>2, <2>1, <2>2, <2>4, Zenon
<1>5. CASE Configure
  <2> DEFINE on == chunk > 1
  <2>1. /\ out2' = FALSE /\ ier' = FALSE /\ WriteFcr(on)
        /\ UNCHANGED <<chip, loop, shifting, historyVars>>
    BY <1>5 DEF Configure
  <2>2. intruded' = intruded /\ on \in BOOLEAN
    BY <2>1 DEF historyVars
  <2> HIDE DEF on
  <2>3. fifo' \in BOOLEAN /\ oe' \in BOOLEAN
    BY <1>1, <1>2, <2>1, <2>2, FcrFacts, Zenon
  <2> QED
    BY <1>1, <1>2, <2>1, <2>2, <2>3, Zenon
<1>6. CASE ProgramDivisor \/ StartRead \/ StartWrite \/ Close
  <2>1. UNCHANGED <<chipVars, historyVars>>
    BY <1>6 DEF ProgramDivisor, StartRead, StartWrite, Close
  <2> QED
    BY <1>1, <2>1 DEF chipVars, historyVars
<1>7. CASE Read
  <2>1. /\ UNCHANGED <<ier, out2, loop, fifo, shifting>> /\ (oe' = FALSE \/ oe' = oe)
        /\ (UNCHANGED historyVars \/ intruded' = intruded)
    BY <1>7 DEF Read, AwaitData, Take, Resnap, ReadLsr
  <2>2. intruded' = intruded
    BY <2>1 DEF historyVars
  <2> QED
    BY <1>1, <1>2, <2>1, <2>2, Zenon
<1>8. CASE Poll \/ Burst \/ ThreExpires \/ Quiesce \/ Shift
  <2>1. /\ ier' \in {ier, FALSE} /\ out2' \in {out2, FALSE} /\ loop' \in {loop, FALSE}
        /\ shifting' \in {shifting, TRUE} /\ oe' \in {oe, FALSE} /\ fifo' = fifo
        /\ (UNCHANGED historyVars \/ intruded' = intruded)
    BY <1>8 DEF Poll, Burst, ThreExpires, Quiesce, Shift, ReadLsr
  <2>2. intruded' = intruded
    BY <2>1 DEF historyVars
  <2> QED
    BY <1>1, <1>2, <2>1, <2>2, Zenon
<1>9. CASE LineSends
  <2> DEFINE late == \/ intruded \/ pc = "loop"
                     \/ /\ ~HasFifo
                        /\ pc \in {"detect", "probe", "divisor", "setup"}
  <2>1. UNCHANGED <<ier, out2, loop, fifo, shifting>> /\ intruded' = late
    BY <1>9, Zenon DEF LineSends
  <2>2. late \in BOOLEAN
    OBVIOUS
  <2>3. PICK item \in Items : Receive(item)
    BY <1>9, LineItem
  <2>4. oe' = oe \/ oe' = TRUE
    BY <2>3 DEF Receive
  <2> HIDE DEF late
  <2> QED
    BY <1>1, <1>2, <2>1, <2>2, <2>4, Zenon
<1>10. CASE Out
  <2>1. /\ UNCHANGED <<ier, out2, loop, fifo, intruded>> /\ shifting' = FALSE
        /\ (Receive(Echoed) \/ oe' = oe)
    BY <1>10 DEF Out
  <2>2. oe' = oe \/ oe' = TRUE
    BY <2>1 DEF Receive
  <2> QED
    BY <1>1, <1>2, <2>1, <2>2, Zenon
<1>11. CASE ChipStops
  <2>1. UNCHANGED <<ier, out2, loop, fifo, oe, shifting, historyVars>>
    BY <1>11 DEF ChipStops
  <2> QED
    BY <1>1, <2>1 DEF historyVars
<1> QED
  BY <1>3, <1>4, <1>5, <1>6, <1>7, <1>8, <1>9, <1>10, <1>11 DEF Next, Driver, Open

\* of the chip,
LEMMA ChipTyped ==
    ASSUME TypeOK, Next
    PROVE  chip' \in [model : Models, fault : Faults]
<1>1. chip \in [model : Models, fault : Faults]
  BY DEF TypeOK
<1>2. CASE ChipStops
  BY <1>1, <1>2 DEF ChipStops, Faults
<1>3. CASE ~ChipStops
  <2>1. CASE Open \/ Read \/ Poll \/ Burst \/ ThreExpires \/ Quiesce
    BY <1>1, <2>1 DEF Open, ClearStale, StoreTest, Detect, ProgramDivisor, Configure, EnterLoop,
                 CheckEcho, EchoExpires, GoLive, Read, AwaitData, Take, Resnap, Poll, Burst,
                 ThreExpires, Quiesce, chipVars
  <2>2. CASE StartRead \/ StartWrite \/ Close
    BY <1>1, <2>2 DEF StartRead, StartWrite, Close, chipVars
  <2>3. CASE LineSends \/ Shift \/ Out
    BY <1>1, <2>3 DEF LineSends, Shift, Out
  <2> QED
    BY <1>3, <2>1, <2>2, <2>3 DEF Next, Driver
<1> QED
  BY <1>2, <1>3

\* of the transmitter,
LEMMA TransmitTyped ==
    ASSUME TypeOK, ChipInv, Next
    PROVE  tx' \in 0..FifoDepth
<1>1. /\ tx \in 0..FifoDepth /\ FifoDepth \in Nat /\ FifoDepth > 1 /\ left \in Nat /\ chunk \in Nat
      /\ Depth \in Nat /\ Depth <= FifoDepth
      /\ Len(rx) <= Depth /\ (~HasFifo => ~fifo)
  BY Bounds, DepthFacts DEF TypeOK, ChipInv
<1>2. CASE Detect \/ Configure
  <2>1. tx' \in {0, tx}
    BY <1>1, <1>2 DEF Detect, Configure, WriteFcr
  <2> QED
    BY <1>1, <2>1
<1>3. CASE EnterLoop
  <2>1. tx = 0 /\ tx' = tx + 1
    BY <1>3 DEF EnterLoop, ChipInv
  <2> QED
    BY <1>1, <2>1
<1>4. CASE Burst
  <2> DEFINE n == IF left < chunk THEN left ELSE chunk
             fits == IF n < Depth THEN n ELSE Depth
  <2>1. tx' = fits
    BY <1>4 DEF Burst
  <2>2. n \in Nat
    BY <1>1
  <2>3. fits \in Nat /\ fits <= Depth
    BY <1>1, <2>2
  <2> HIDE DEF fits
  <2> QED
    BY <1>1, <2>1, <2>3
<1>5. CASE Shift
  BY <1>1, <1>5 DEF Shift
<1>6. CASE ClearStale \/ StoreTest \/ ProgramDivisor \/ CheckEcho \/ EchoExpires \/ GoLive
  BY <1>1, <1>6 DEF ClearStale, StoreTest, ProgramDivisor, CheckEcho, EchoExpires, GoLive, chipVars
<1>7. CASE Read \/ Poll \/ ThreExpires \/ Quiesce \/ LineSends \/ Out \/ ChipStops
  BY <1>1, <1>7 DEF Read, AwaitData, Take, Resnap, Poll, ThreExpires, Quiesce, LineSends, Out,
                    ChipStops
<1>8. CASE StartRead \/ StartWrite \/ Close
  BY <1>1, <1>8 DEF StartRead, StartWrite, Close, chipVars
<1> QED
  BY <1>2, <1>3, <1>4, <1>5, <1>6, <1>7, <1>8 DEF Next, Driver, Open

\* of the driver's variables,
LEMMA DriverTyped ==
    ASSUME TypeOK, BreakInv, Next
    PROVE  /\ pc' \in Opening \cup Serving \cup {"failed", "closed"}
           /\ chunk' \in {1, FifoDepth}
           /\ snap' \subseteq Flags
           /\ buf' \in Seq(Items) /\ Len(buf') <= ReadLen
           /\ sent' \in 0..MaxLine
<1>1. /\ pc \in Opening \cup Serving \cup {"failed", "closed"}
      /\ chunk \in {1, FifoDepth}
      /\ snap \subseteq Flags
      /\ buf \in Seq(Items) /\ Len(buf) \in Nat /\ Len(buf) <= ReadLen
      /\ sent \in 0..MaxLine /\ MaxLine \in Nat /\ ReadLen \in Nat
  BY Typed, Bounds DEF TypeOK
<1>2. CASE Open
  <2>1. /\ pc' \in Opening \cup {"failed", "live"} /\ chunk' \in {chunk, 1, FifoDepth}
        /\ UNCHANGED <<snap, buf, boundVars>>
    BY <1>2 DEF Open, ClearStale, StoreTest, Detect, ProgramDivisor, Configure, EnterLoop,
                CheckEcho, EchoExpires, GoLive, Opening
  <2>2. sent' = sent
    BY <2>1 DEF boundVars
  <2> QED
    BY <1>1, <2>1, <2>2 DEF Serving
<1>3. CASE StartRead
  <2>1. pc' = "wait" /\ buf' = <<>> /\ UNCHANGED <<chunk, snap, boundVars>>
    BY <1>3 DEF StartRead
  <2>2. sent' = sent
    BY <2>1 DEF boundVars
  <2>3. buf' \in Seq(Items) /\ Len(buf') = 0
    BY <2>1
  <2> QED
    BY <1>1, <2>1, <2>2, <2>3 DEF Serving
<1>4. CASE AwaitData \/ Resnap
  <2>1. LsrShows \subseteq Flags
    BY <1>4, Reading, Snaps
  <2>2. /\ pc' \in {"take", "live", "wait"} /\ snap' = LsrShows
        /\ UNCHANGED <<chunk, buf, boundVars>>
    BY <1>4 DEF AwaitData, Resnap
  <2>3. sent' = sent
    BY <2>2 DEF boundVars
  <2> QED
    BY <1>1, <2>1, <2>2, <2>3 DEF Serving
<1>5. CASE Take
  <2>1. /\ pc = "take" /\ pc' \in {"live", "snap"}
        /\ (buf' = buf \/ buf' = Append(buf, Head(rx)))
        /\ UNCHANGED <<chunk, snap, boundVars>>
    BY <1>5 DEF Take
  <2>2. sent' = sent
    BY <2>1 DEF boundVars
  <2>3. rx \in Seq(Items) /\ rx # <<>> /\ Len(buf) < ReadLen
    BY <2>1, Typed DEF BreakInv, Hand
  <2>4. Head(rx) \in Items
    BY <2>3, FirstTaken
  <2>5. buf' \in Seq(Items) /\ Len(buf') <= ReadLen
    BY <1>1, <2>1, <2>3, <2>4, LastAppended
  <2> QED
    BY <1>1, <2>1, <2>2, <2>5 DEF Serving
<1>6. CASE Burst \/ Quiesce \/ StartWrite \/ ThreExpires \/ Close
  <2>1. /\ pc' \in {"live", "thre", "closing", "closed"}
        /\ UNCHANGED <<chunk, snap, buf>>
        /\ (UNCHANGED boundVars \/ sent' = sent)
    BY <1>6 DEF Burst, Quiesce, StartWrite, ThreExpires, Close
  <2>2. sent' = sent
    BY <2>1 DEF boundVars
  <2> QED
    BY <1>1, <2>1, <2>2 DEF Serving
<1>7. CASE LineSends \/ Shift \/ Out \/ ChipStops \/ Poll
  <2>1. /\ UNCHANGED driverVars
        /\ (UNCHANGED boundVars \/ (sent' = sent + 1 /\ sent < MaxLine))
    BY <1>7 DEF LineSends, Shift, Out, ChipStops, Poll
  <2>2. (sent' = sent \/ (sent' = sent + 1 /\ sent < MaxLine))
    BY <2>1 DEF boundVars
  <2>3. UNCHANGED <<pc, chunk, snap, buf>>
    BY <2>1 DEF driverVars
  <2> QED
    BY <1>1, <2>2, <2>3
<1> QED
  BY <1>2, <1>3, <1>4, <1>5, <1>6, <1>7 DEF Next, Driver, Read

\* and of everything.
LEMMA TypeSteps ==
    ASSUME UartInv, Next
    PROVE  TypeOK'
<1>1. TypeOK /\ ChipInv /\ BreakInv /\ OverrunInv /\ ReadInv
  BY DEF UartInv
<1>2. chip' \in [model : Models, fault : Faults] /\ tx' \in 0..FifoDepth
  BY <1>1, ChipTyped, TransmitTyped
<1>3. {ier, out2, loop, fifo, oe, shifting, intruded}' \subseteq BOOLEAN
  BY <1>1, FlagSteps, Zenon
<1>4. rx' \in Seq(Items) /\ Len(rx') <= FifoDepth
  <2>1. rx' \in Seq(Items) /\ Len(rx') <= Depth'
    BY <1>1, QueueSteps DEF QueueOk
  <2>2. Depth' \in Nat /\ Depth' <= FifoDepth
    BY Bounds DEF Depth
  <2> QED
    BY <2>1, <2>2, LenProperties, Bounds
<1>5. txLost' \in Nat
  BY <1>1, ChipSteps
<1>6. /\ pc' \in Opening \cup Serving \cup {"failed", "closed"}
      /\ chunk' \in {1, FifoDepth}
      /\ snap' \subseteq Flags
      /\ buf' \in Seq(Items) /\ Len(buf') <= ReadLen
      /\ sent' \in 0..MaxLine
  BY <1>1, DriverTyped
<1>7. /\ left' \in 0..MaxLen /\ ret' \in -1..(ReadLen + MaxLen)
      /\ writes' \in 0..MaxWrites
  BY <1>1, ReadSteps
<1>8. overruns' \in 0..MaxLine /\ raised' \in 0..MaxLine /\ unseen' \in 0..MaxLine
  <2>1. /\ OverrunInv' /\ raised' \in Nat /\ overruns' \in Nat /\ unseen' \in Nat
        /\ sent' \in Nat /\ sent' <= MaxLine
    BY <1>1, <1>6, OverrunSteps, Bounds
  <2>3. One(oe)' \in {0, 1} /\ One(Snapped)' \in {0, 1}
    BY DEF One
  <2>2. raised' <= sent' /\ overruns' <= raised' /\ unseen' <= raised'
    BY <2>1, <2>3 DEF OverrunInv
  <2> QED
    BY <2>1, <2>2, Bounds
<1> QED
  BY <1>2, <1>3, <1>4, <1>5, <1>6, <1>7, <1>8, Zenon DEF TypeOK

-----------------------------------------------------------------------------
(* The theorems *)

\* The invariant holds at the start.
LEMMA Starts ==
    ASSUME Init
    PROVE  UartInv
<1>1. /\ chip \in Chips /\ ier \in BOOLEAN /\ out2 \in BOOLEAN /\ loop = FALSE
      /\ fifo \in BOOLEAN /\ (~HasFifo => ~fifo)
      /\ oe \in BOOLEAN /\ shifting = FALSE /\ intruded = FALSE
  BY DEF Init
<1>2. /\ tx = 0 /\ txLost = 0 /\ pc = "stale" /\ chunk = 1
      /\ snap = {} /\ buf = <<>> /\ left = 0 /\ ret = 1 /\ overruns = 0
      /\ sent = 0 /\ writes = 0 /\ raised = 0 /\ unseen = 0
  BY DEF Init
<1>3. chip \in [model : Models, fault : Faults]
  BY <1>1, UartAssumption
<1>4. Depth \in Nat /\ Depth <= FifoDepth
  BY Bounds DEF Depth
<1>5. /\ rx \in Seq(Items) /\ Len(rx) \in Nat /\ Len(rx) <= Depth
      /\ \A i \in 1..Len(rx) : rx[i].brk = FALSE
  <2>1. PICK n \in 0..Depth : rx = [i \in 1..n |-> Byte]
    BY DEF Init
  <2>2. n \in Nat /\ n <= Depth
    BY <1>4, <2>1
  <2>3. rx \in Seq(Items) /\ Len(rx) = n /\ \A i \in 1..n : rx[i] = Byte
    BY <2>1, <2>2, Blank
  <2> QED
    BY <2>2, <2>3, Blank
<1>6. TypeOK
  <2>4. /\ ier \in BOOLEAN /\ out2 \in BOOLEAN /\ loop \in BOOLEAN /\ fifo \in BOOLEAN
        /\ oe \in BOOLEAN /\ shifting \in BOOLEAN /\ intruded \in BOOLEAN
    BY <1>1
  <2>1. {ier, out2, loop, fifo, oe, shifting, intruded} \subseteq BOOLEAN
    BY <2>4, Zenon
  <2>2. Len(rx) <= FifoDepth
    BY <1>4, <1>5, Bounds
  <2>3. /\ tx \in 0..FifoDepth /\ txLost \in Nat
        /\ pc \in Opening \cup Serving \cup {"failed", "closed"}
        /\ chunk \in {1, FifoDepth}
        /\ snap \subseteq Flags
        /\ buf \in Seq(Items) /\ Len(buf) <= ReadLen
        /\ left \in 0..MaxLen /\ ret \in -1..(ReadLen + MaxLen)
        /\ overruns \in 0..MaxLine /\ raised \in 0..MaxLine /\ unseen \in 0..MaxLine
        /\ sent \in 0..MaxLine /\ writes \in 0..MaxWrites
    BY <1>2, Bounds DEF Opening
  <2> QED
    BY <1>3, <1>5, <2>1, <2>2, <2>3, Zenon DEF TypeOK
<1>7. ChipInv
  BY <1>1, <1>2, <1>5 DEF ChipInv, Configured, Live, Serving
<1>8. QuietInv
  BY <1>2 DEF QuietInv, Configured, Live, Serving
<1>9. EchoInv
  BY <1>2 DEF EchoInv, Unreset, WorkingChipOpens
<1>10. BreakInv
  BY <1>2, <1>5 DEF BreakInv, BreaksAreNotData, MarkedFrom, Marked
<1>11. OverrunInv
  BY <1>2 DEF OverrunInv, Live, Serving
<1>12. ReadInv
  BY <1>2 DEF ReadInv
<1> QED
  BY <1>6, <1>7, <1>8, <1>9, <1>10, <1>11, <1>12 DEF UartInv

\* Every step keeps it.
LEMMA Steps ==
    ASSUME UartInv, [Next]_vars
    PROVE  UartInv'
<1>1. CASE Next
  <2>1. TypeOK /\ ChipInv /\ QuietInv /\ EchoInv /\ BreakInv /\ OverrunInv /\ ReadInv
    BY DEF UartInv
  <2>2. TypeOK'
    BY <1>1, TypeSteps
  <2>3. ChipInv'
    <3>1. Len(rx') <= Depth'
      BY <1>1, <2>1, QueueSteps DEF QueueOk
    <3> QED
      BY <1>1, <2>1, <3>1, ChipSteps DEF ChipInv
  <2>4. OverrunInv'
    BY <1>1, <2>1, OverrunSteps
  <2>5. QuietInv' /\ EchoInv' /\ BreakInv' /\ ReadInv'
    BY <1>1, <2>1, <2>4, QuietSteps, EchoSteps, BreakSteps, ReadSteps
  <2> QED
    BY <2>2, <2>3, <2>4, <2>5 DEF UartInv
<1>2. CASE UNCHANGED vars
  BY <1>2 DEF vars, chipVars, driverVars, boundVars, historyVars, UartInv, TypeOK, ChipInv,
     QuietInv, EchoInv, BreakInv, OverrunInv, ReadInv, Depth, HasFifo, WorkingChipOpens,
     BreaksAreNotData, MarkedFrom, Marked, Hand, Snapped, One
<1> QED
  BY <1>1, <1>2

\* It implies both properties.
LEMMA Implied ==
    ASSUME UartInv
    PROVE  ChipSound /\ ReceptionSound
<1>1. TransmitterNeverOverrun
  BY DEF UartInv, ChipInv, TransmitterNeverOverrun
<1>2. InterruptsStayOff
  <2>1. /\ pc \in Opening \cup Serving \cup {"failed", "closed"}
        /\ ier \in BOOLEAN /\ out2 \in BOOLEAN
    BY Typed DEF UartInv, TypeOK
  <2>2. pc \in Serving \cup {"closed"} => ~ier /\ ~out2
    BY DEF UartInv, QuietInv, Configured, Live
  <2>3. ier /\ out2 => pc \in {"stale", "detect", "probe"}
    BY <2>1 DEF UartInv, QuietInv, Configured, Live, Opening
  <2> QED
    BY <2>2, <2>3 DEF InterruptsStayOff
<1>3. WorkingChipOpens
  BY DEF UartInv, EchoInv
<1>4. BreaksAreNotData
  BY DEF UartInv, BreakInv
<1>5. OverrunsAreCounted
  BY DEF UartInv, OverrunInv, Snapped, OverrunsAreCounted, Live
<1>6. NeverZero
  BY DEF UartInv, ReadInv, NeverZero
<1> QED
  BY <1>1, <1>2, <1>3, <1>4, <1>5, <1>6 DEF ChipSound, ReceptionSound, UartInv

\* The inductive invariant of the driver, the line and the chip, whose status register
\* forgets its error bits at every read of it, by the polls of a write as of a read.
THEOREM UartCorrect == Spec => []UartInv
<1>1. Init => UartInv
  BY Starts
<1>2. UartInv /\ [Next]_vars => UartInv'
  BY Steps
<1> QED
  BY <1>1, <1>2, PTL DEF Spec

\* A port that opens is quiet to the interrupt controller, a working chip's port opens unless
\* the line spoke over the self-test, and no burst is more than the transmitter takes.
THEOREM ChipIsUsedAsItIs == Spec => []ChipSound
<1>1. UartInv => ChipSound
  BY Implied
<1> QED
  BY <1>1, UartCorrect, PTL

\* Of what reads deliver: a break's 0x00 is among the data only when its BI went to a read
\* of LSR that decodes nothing, or the break overran a byte whose snapshot was taken;
\* the overruns the chip flagged are the ones counted, shown, under the driver's hand or
\* taken by such a read, each once; no read returns 0.
THEOREM ReadsAreTheLine == Spec => []ReceptionSound
<1>1. UartInv => ReceptionSound
  BY Implied
<1> QED
  BY <1>1, UartCorrect, PTL

=============================================================================
