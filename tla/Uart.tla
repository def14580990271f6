--------------------------------- MODULE Uart ---------------------------------
(***************************************************************************)
(* uart.c: the Win32s serial route, which drives a 16550 by polling.  The    *)
(* driver runs beside two things it does not control: the line, which        *)
(* delivers bytes and breaks at any moment, also between two port accesses,  *)
(* and the chip, whose status register forgets its error bits when it is     *)
(* read.  One action is one group of port accesses nothing can come between  *)
(* with effect.  Byte values, baud rates and addresses are left out.         *)
(***************************************************************************)
EXTENDS Integers, Sequences

CONSTANTS
    Chips,      \* the chips of the behaviours: records of Models and Faults
    FifoDepth,  \* bytes in the FIFOs of a 16550 (16)
    ReadLen,    \* length of the buffer a read is given
    MaxLine,    \* bound on what the line sends
    MaxWrites,  \* bound on the writes
    MaxLen      \* bound on the length of a write

Models == {"8250", "16450", "16550", "16550A"}
Faults == {"none", "absent", "stuck", "dead", "nomodem", "never"}

ASSUME UartAssumption ==
    /\ Chips \subseteq [model : Models, fault : Faults]
    /\ FifoDepth \in Nat \ {0, 1} /\ ReadLen \in Nat \ {0}
    /\ MaxLine \in Nat /\ MaxWrites \in Nat /\ MaxLen \in Nat \ {0}

\* What the receiver holds: a byte or a break's 0x00, with the error bits the
\* status register has still to show for it ("loop" tells the self-test's sentinel
\* apart), and whether its BI is out of the decoding's sight.
Items == [brk : BOOLEAN, err : SUBSET {"BI", "FE", "loop"}, missed : BOOLEAN]
Byte == [brk |-> FALSE, err |-> {}, missed |-> FALSE]
Echoed == [brk |-> FALSE, err |-> {"loop"}, missed |-> FALSE]
Flags == {"OE", "BI", "FE", "loop"}

Opening == {"stale", "detect", "probe", "divisor", "setup", "loop", "echo", "settle"}
Serving == {"live", "wait", "take", "snap", "thre", "closing"}
One(condition) == IF condition THEN 1 ELSE 0

VARIABLES
    chip,       \* the chip; it may stop working
    ier, out2, loop,    \* IER armed; MCR OUT2 and LOOP
    fifo,       \* FCR: the FIFOs are on
    rx, oe,     \* what it received; an overrun not yet shown
    tx, shifting,       \* bytes in the transmitter, and in its shift register
    txLost,     \* history: bytes written to a full transmitter
    pc,         \* where the driver is
    chunk,      \* UartDriver.tx_chunk; above 1 exactly when fifo_enabled
    snap,       \* the error bits of its latest LSR snapshot
    buf,        \* what the read under way has collected
    left,       \* bytes the write under way has still to send
    ret,        \* what the latest read or write returned
    overruns,   \* UartDriver.overrun_count
    sent, writes,       \* bytes of the line and writes so far
    raised,     \* history: overruns the chip flagged since the driver went live
    unseen,     \* history: of them, those a read of LSR took and nothing decoded
    intruded    \* history: a byte of the line may stand before the sentinel

chipVars == <<chip, ier, out2, loop, fifo, rx, oe, tx, shifting, txLost>>
driverVars == <<pc, chunk, snap, buf, left, ret, overruns>>
boundVars == <<sent, writes>>
historyVars == <<raised, unseen, intruded>>
vars == <<chipVars, driverVars, boundVars, historyVars>>

TypeOK ==
    /\ chip \in [model : Models, fault : Faults]
    /\ {ier, out2, loop, fifo, oe, shifting, intruded} \subseteq BOOLEAN
    /\ rx \in Seq(Items) /\ Len(rx) <= FifoDepth
    /\ tx \in 0..FifoDepth /\ txLost \in Nat
    /\ pc \in Opening \cup Serving \cup {"failed", "closed"}
    /\ chunk \in {1, FifoDepth}
    /\ snap \subseteq Flags
    /\ buf \in Seq(Items) /\ Len(buf) <= ReadLen
    /\ left \in 0..MaxLen /\ ret \in -1..(ReadLen + MaxLen)
    /\ overruns \in 0..MaxLine /\ raised \in 0..MaxLine /\ unseen \in 0..MaxLine
    /\ sent \in 0..MaxLine /\ writes \in 0..MaxWrites

-----------------------------------------------------------------------------
(* The chip *)

Present == chip.fault # "absent"
Works == chip.fault \notin {"absent", "never"}
HasFifo == chip.model \in {"16550", "16550A"}
\* The FIFO of the first 16550 does not work: it is no deeper than a 16450.
Depth == IF fifo /\ chip.model = "16550A" THEN FifoDepth ELSE 1
DR == Works /\ rx # <<>>
THRE == Works /\ tx = 0
TEMT == THRE /\ ~shifting

\* What reading LSR shows.
LsrShows == (IF oe THEN {"OE"} ELSE {}) \cup (IF DR THEN Head(rx).err ELSE {})

\* Any read of LSR takes the error bits, of the overrun and of the byte in front,
\* whether its reader decodes them or looks for DR, THRE or TEMT only.
LsrLeaves(decoded) ==
    IF DR THEN [rx EXCEPT ![1] = [brk |-> @.brk, err |-> {},
                                  missed |-> @.missed \/ (~decoded /\ "BI" \in @.err)]]
          ELSE rx
ReadLsr(decoded) ==
    /\ rx' = LsrLeaves(decoded)
    /\ oe' = FALSE
    /\ unseen' = unseen + One(oe /\ ~decoded)

\* Reading LSR and RBR and throwing them away (UartClearStale).
Discard == oe' = FALSE /\ rx' = IF rx = <<>> THEN rx ELSE Tail(rx)

\* FCR with the two reset bits, or turned from on to off: both FIFOs are empty.
\* A chip without FIFOs has no FCR.
WriteFcr(on) ==
    IF HasFifo
      THEN fifo' = on /\ rx' = <<>> /\ oe' = FALSE /\ tx' = 0
      ELSE UNCHANGED <<fifo, rx, oe, tx>>

\* A byte enters the receiver.  One too many is dropped by a FIFO, and replaces
\* the one that a receiver without FIFO holds, be it behind a snapshot of the other.
Overrunning(item) ==
    [brk |-> item.brk, err |-> item.err, missed |-> pc = "take" /\ item.brk]
Receive(item) ==
    IF Len(rx) < Depth THEN rx' = Append(rx, item) /\ UNCHANGED <<oe, raised>>
    ELSE /\ oe' = TRUE
         /\ rx' = IF Depth = 1 THEN <<Overrunning(item)>> ELSE rx
         /\ raised' = raised + One(pc \in Serving /\ ~oe)

\* The line, which the internal loop cuts off.
LineSends ==
    /\ sent < MaxLine /\ sent' = sent + 1
    /\ Works /\ ~loop /\ pc \notin {"failed", "closed"}
    /\ \E brk \in BOOLEAN : \E err \in IF brk THEN {{"BI"}, {"BI", "FE"}} ELSE {{}, {"FE"}} :
         Receive([brk |-> brk, err |-> err, missed |-> FALSE])
    /\ intruded' = (\/ intruded \/ pc = "loop"
                    \/ /\ ~HasFifo
                       /\ pc \in {"detect", "probe", "divisor", "setup"})
    /\ UNCHANGED <<chip, ier, out2, loop, fifo, tx, shifting, txLost, driverVars, writes,
                   unseen>>

\* The transmitter: THR to the shift register, and out, or into the receiver
\* while LOOP is on.
Shift ==
    /\ Works /\ ~shifting /\ tx > 0
    /\ tx' = tx - 1 /\ shifting' = TRUE
    /\ UNCHANGED <<chip, ier, out2, loop, fifo, rx, oe, txLost, driverVars, boundVars, historyVars>>

Out ==
    /\ Works /\ shifting
    /\ shifting' = FALSE
    /\ IF loop /\ chip.fault # "dead" THEN Receive(Echoed) ELSE UNCHANGED <<rx, oe, raised>>
    /\ UNCHANGED <<chip, ier, out2, loop, fifo, tx, txLost, driverVars, boundVars,
                   unseen, intruded>>

\* A chip that served stops: DR, THRE and TEMT never rise again.
ChipStops ==
    /\ pc \in Serving /\ chip.fault = "none"
    /\ chip' = [chip EXCEPT !.fault = "never"]
    /\ UNCHANGED <<ier, out2, loop, fifo, rx, oe, tx, shifting, txLost, driverVars,
                   boundVars, historyVars>>

-----------------------------------------------------------------------------
(* The open ladder *)

\* A chip is found as whoever used it left it.
Init ==
    /\ chip \in Chips
    /\ ier \in BOOLEAN /\ out2 \in BOOLEAN /\ loop = FALSE
    /\ fifo \in IF HasFifo THEN BOOLEAN ELSE {FALSE}
    /\ rx \in {[i \in 1..n |-> Byte] : n \in 0..Depth}
    /\ oe \in BOOLEAN /\ (oe => rx # <<>>)
    /\ tx = 0 /\ shifting = FALSE /\ txLost = 0
    /\ pc = "stale" /\ chunk = 1
    /\ snap = {} /\ buf = <<>> /\ left = 0 /\ ret = 1 /\ overruns = 0
    /\ sent = 0 /\ writes = 0
    /\ raised = 0 /\ unseen = 0 /\ intruded = FALSE

ClearStale ==
    /\ pc = "stale" /\ pc' = "detect"
    /\ Discard
    /\ UNCHANGED <<chip, ier, out2, loop, fifo, tx, shifting, txLost, chunk, snap, buf, left,
                   ret, overruns, boundVars, historyVars>>

\* UartDetect: the store test leaves IER armed until it is read back.
StoreTest ==
    /\ pc = "detect" /\ pc' = "probe"
    /\ ier' = TRUE
    /\ UNCHANGED <<chip, out2, loop, fifo, rx, oe, tx, shifting, txLost, chunk, snap, buf, left,
                   ret, overruns, boundVars, historyVars>>

\* IIR's top bits after FCR = 0xE7.
Iir == CASE chip.model = "16550A" -> "11" [] chip.model = "16550" -> "10" [] OTHER -> "00"

\* Faulty variant of Detect: any FIFO bit counts.
DetectAnyFifo ==
    /\ pc = "probe"
    /\ ier' = FALSE
    /\ IF ~Present
         THEN pc' = "failed" /\ UNCHANGED <<fifo, rx, oe, tx, chunk>>
         ELSE /\ pc' = "divisor"
              /\ WriteFcr(TRUE)
              /\ chunk' = IF Iir # "00" THEN FifoDepth ELSE 1
    /\ UNCHANGED <<chip, out2, loop, shifting, txLost, snap, buf, left, ret, overruns,
                   boundVars, historyVars>>

Detect ==
    /\ pc = "probe"
    /\ ier' = FALSE
    /\ IF ~Present
         THEN pc' = "failed" /\ UNCHANGED <<fifo, rx, oe, tx, chunk>>
         ELSE /\ pc' = "divisor"
              /\ WriteFcr(TRUE)
              /\ chunk' = IF Iir = "11" THEN FifoDepth ELSE 1
    /\ UNCHANGED <<chip, out2, loop, shifting, txLost, snap, buf, left, ret, overruns,
                   boundVars, historyVars>>

\* UartProgramDivisor reads the latch back.
ProgramDivisor ==
    /\ pc = "divisor"
    /\ pc' = IF chip.fault = "stuck" THEN "failed" ELSE "setup"
    /\ UNCHANGED <<chipVars, chunk, snap, buf, left, ret, overruns, boundVars, historyVars>>

\* UartOpenSequence: FIFO on for a 16550A, off otherwise; no interrupt path.
Configure ==
    /\ pc = "setup" /\ pc' = "loop"
    /\ WriteFcr(chunk > 1)
    /\ out2' = FALSE /\ ier' = FALSE
    /\ UNCHANGED <<chip, loop, shifting, txLost, chunk, snap, buf, left, ret, overruns,
                   boundVars, historyVars>>

\* UartLoopbackSelfTest: LOOP on, the sentinel out.
EnterLoop ==
    /\ pc = "loop" /\ pc' = "echo"
    /\ loop' = TRUE /\ tx' = tx + 1
    /\ UNCHANGED <<chip, ier, out2, fifo, rx, oe, shifting, txLost, chunk, snap, buf, left, ret,
                   overruns, boundVars, historyVars>>

\* The first byte there is must be the sentinel, and the modem lines follow.
CheckEcho ==
    /\ pc = "echo" /\ DR
    /\ pc' = IF Head(rx) = Echoed /\ chip.fault # "nomodem" THEN "settle" ELSE "failed"
    /\ Discard
    /\ loop' = FALSE
    /\ UNCHANGED <<chip, ier, out2, fifo, tx, shifting, txLost, chunk, snap, buf, left, ret,
                   overruns, boundVars, historyVars>>

\* The bound on the polls is long after a working chip's echo.
EchoExpires ==
    /\ pc = "echo" /\ ~DR /\ chip.fault \in {"dead", "never"} /\ pc' = "failed"
    /\ loop' = FALSE
    /\ UNCHANGED <<chip, ier, out2, fifo, rx, oe, tx, shifting, txLost, chunk, snap, buf, left,
                   ret, overruns, boundVars, historyVars>>

\* The last ClearStale, and live.
GoLive ==
    /\ pc = "settle" /\ pc' = "live"
    /\ Discard
    /\ UNCHANGED <<chip, ier, out2, loop, fifo, tx, shifting, txLost, chunk, snap, buf, left,
                   ret, overruns, boundVars, historyVars>>

Open == \/ ClearStale \/ StoreTest \/ Detect \/ ProgramDivisor \/ Configure
        \/ EnterLoop \/ CheckEcho \/ EchoExpires \/ GoLive

-----------------------------------------------------------------------------
(* UartRxDrain *)

StartRead ==
    /\ pc = "live" /\ pc' = "wait"
    /\ buf' = <<>>
    /\ UNCHANGED <<chipVars, chunk, snap, left, ret, overruns, boundVars, historyVars>>

\* The idle loop polls LSR until data is ready.
AwaitData ==
    /\ pc = "wait" /\ DR /\ pc' = "take"
    /\ snap' = LsrShows /\ ReadLsr(TRUE)
    /\ UNCHANGED <<chip, ier, out2, loop, fifo, tx, shifting, txLost, chunk, buf, left, ret,
                   overruns, boundVars, raised, intruded>>

\* Faulty variant of Take: only a break with a framing error is a break, and
\* only a data byte's overrun counts.
TakeBreaks ==
    /\ pc = "take"
    /\ overruns' = overruns + (IF "OE" \in snap /\ "BI" \notin snap THEN 1 ELSE 0)
    /\ rx' = Tail(rx)
    /\ IF {"BI", "FE"} \subseteq snap
         THEN pc' = "live" /\ ret' = -1 /\ UNCHANGED buf
         ELSE pc' = "snap" /\ buf' = Append(buf, Head(rx)) /\ UNCHANGED ret
    /\ UNCHANGED <<chip, ier, out2, loop, fifo, oe, tx, shifting, txLost, chunk, snap, left,
                   boundVars, historyVars>>

\* Faulty variant of Take: a lone break goes round the loop before RBR and LSR
\* are read.
TakeSpins ==
    /\ pc = "take" /\ ("BI" \in snap => "FE" \in snap)
    /\ overruns' = overruns + (IF "OE" \in snap THEN 1 ELSE 0)
    /\ rx' = Tail(rx)
    /\ IF "BI" \in snap
         THEN pc' = "live" /\ ret' = -1 /\ UNCHANGED buf
         ELSE pc' = "snap" /\ buf' = Append(buf, Head(rx)) /\ UNCHANGED ret
    /\ UNCHANGED <<chip, ier, out2, loop, fifo, oe, tx, shifting, txLost, chunk, snap, left,
                   boundVars, historyVars>>

\* The snapshot is decoded, then RBR is read: a break's byte is dropped, and a
\* break with a framing error ends the read, with what it had collected.
Take ==
    /\ pc = "take"
    /\ overruns' = overruns + (IF "OE" \in snap THEN 1 ELSE 0)
    /\ rx' = Tail(rx)
    /\ IF "BI" \in snap
         THEN /\ pc' = IF "FE" \in snap THEN "live" ELSE "snap"
              /\ ret' = IF "FE" \in snap THEN -1 ELSE ret
              /\ UNCHANGED buf
         ELSE pc' = "snap" /\ buf' = Append(buf, Head(rx)) /\ UNCHANGED ret
    /\ UNCHANGED <<chip, ier, out2, loop, fifo, oe, tx, shifting, txLost, chunk, snap, left,
                   boundVars, historyVars>>

\* LSR again, for the next byte.  When the buffer is full, or nothing is ready,
\* the bits it showed are decoded by nobody.
Resnap ==
    /\ pc = "snap"
    /\ snap' = LsrShows
    /\ pc' = CASE Len(buf) < ReadLen /\ DR                   -> "take"
               [] ~(Len(buf) < ReadLen /\ DR) /\ buf # <<>>  -> "live"
               [] OTHER                                      -> "wait"
    /\ ReadLsr(pc' = "take")
    /\ ret' = IF pc' = "live" THEN Len(buf) ELSE ret
    /\ UNCHANGED <<chip, ier, out2, loop, fifo, tx, shifting, txLost, chunk, buf, left,
                   overruns, boundVars, raised, intruded>>

Read == AwaitData \/ Take \/ Resnap

-----------------------------------------------------------------------------
(* UartTxChunk, UartDrainAndClose *)

StartWrite ==
    /\ pc = "live" /\ pc' = "thre"
    /\ writes < MaxWrites /\ writes' = writes + 1
    /\ left' \in 1..MaxLen /\ ret' = left'
    /\ UNCHANGED <<chipVars, chunk, snap, buf, overruns, sent, historyVars>>

\* A poll of LSR that does not find the bit it waits for, DR, THRE or TEMT, takes
\* the error bits of the byte in front all the same.
Poll ==
    /\ \/ pc = "wait" /\ ~DR
       \/ pc = "thre" /\ ~THRE
       \/ pc = "closing" /\ ~TEMT
    /\ ReadLsr(FALSE)
    /\ UNCHANGED <<chip, ier, out2, loop, fifo, tx, shifting, txLost, driverVars, boundVars,
                   raised, intruded>>

\* The transmitter is empty, says a poll: a burst goes out.
Burst ==
    /\ pc = "thre" /\ THRE
    /\ LET n == IF left < chunk THEN left ELSE chunk
           fits == IF n < Depth THEN n ELSE Depth
       IN /\ tx' = fits /\ txLost' = txLost + n - fits
          /\ left' = left - n
          /\ pc' = IF left = n THEN "live" ELSE "thre"
    /\ ReadLsr(FALSE)
    /\ UNCHANGED <<chip, ier, out2, loop, fifo, shifting, chunk, snap, buf, ret,
                   overruns, boundVars, raised, intruded>>

\* The bound on the polls is long after a working transmitter is empty.
ThreExpires ==
    /\ pc = "thre" /\ ~Works /\ pc' = "live"
    /\ ret' = -1 /\ left' = 0
    /\ ReadLsr(FALSE)
    /\ UNCHANGED <<chip, ier, out2, loop, fifo, tx, shifting, txLost, chunk, snap, buf, overruns,
                   boundVars, raised, intruded>>

Close ==
    /\ pc = "live" /\ pc' = "closing"
    /\ UNCHANGED <<chipVars, chunk, snap, buf, left, ret, overruns, boundVars, historyVars>>

\* TEMT, or the poll's bound; then IER and MCR are cleared.
Quiesce ==
    /\ pc = "closing" /\ (TEMT \/ ~Works) /\ pc' = "closed"
    /\ ier' = FALSE /\ out2' = FALSE /\ loop' = FALSE
    /\ ReadLsr(FALSE)
    /\ UNCHANGED <<chip, fifo, tx, shifting, txLost, chunk, snap, buf, left, ret,
                   overruns, boundVars, raised, intruded>>

Driver == Open \/ Read \/ Poll \/ Burst \/ ThreExpires \/ Quiesce
Next == \/ Driver \/ StartRead \/ StartWrite \/ Close
        \/ LineSends \/ Shift \/ Out \/ ChipStops

Spec == Init /\ [][Next]_vars

\* The polling loops run, and a working chip transmits.
FairSpec == Spec /\ WF_vars(Driver) /\ WF_vars(Shift) /\ WF_vars(Out)

-----------------------------------------------------------------------------
(* Properties *)

\* A burst never exceeds what the chip can take, whatever the chip says it is.
TransmitterNeverOverrun == txLost = 0

\* No UART interrupt can reach the 8259 while the driver serves or has closed,
\* and before that only during the store test, by the OUT2 it found.
InterruptsStayOff ==
    /\ pc \in Serving \cup {"closed"} => ~ier /\ ~out2
    /\ ier /\ out2 => pc \in {"stale", "detect", "probe"}

\* A working chip is refused only when the line spoke between the last reset of
\* the receiver and the self-test.
WorkingChipOpens == pc = "failed" /\ chip.fault = "none" => intruded

\* The chip is used as the chip can be: a port that opens is quiet, a working
\* chip's port opens, and its transmitter gets what it has room for.
ChipSound == TransmitterNeverOverrun /\ InterruptsStayOff /\ WorkingChipOpens

\* "BI: drop the spurious 0x00", as far as the code does it: the breaks a read takes
\* for data are those whose BI went to a read of LSR that decodes nothing, of a write's
\* or a close's poll or at the end of a full buffer, and those that, without a FIFO,
\* overran the byte their snapshot was taken for.  Every other break is dropped.
BreaksAreNotData ==
    \A i \in 1..Len(buf) : buf[i].brk => buf[i].missed

\* Every overrun the chip flagged is once in overrun_count, or about to be, or went
\* to a read of LSR that decodes nothing.
OverrunsAreCounted ==
    pc \in Serving \cup {"closed"} =>
      raised = overruns + unseen + One(oe) + One(pc = "take" /\ "OE" \in snap)

\* A read never returns 0, the transport's "peer closed".
NeverZero == pc = "live" => ret # 0

\* What a read delivers is the line's data, and what is missing shows.
ReceptionSound == TypeOK /\ BreaksAreNotData /\ OverrunsAreCounted /\ NeverZero

\* Every loop of the open, the write and the close is bounded.
BoundedCallsReturn ==
    pc \in Opening \cup {"thre", "closing"} ~> pc \in {"failed", "live", "closed"}

\* A read that has a byte to deliver, behind any number of breaks, returns,
\* unless the chip stops or, without a FIFO, a break overruns the byte.
ReadReturns ==
    pc = "wait" /\ (\E i \in 1..Len(rx) : ~rx[i].brk)
      ~> pc = "live" \/ ~Works \/ (Depth = 1 /\ raised > 0)

\* No call of the driver polls a dead chip for ever, and none waits for a byte
\* that is already there.
DriverReturns == BoundedCallsReturn /\ ReadReturns
==============================================================================
