# MCP-Win32s in TLA+

MCP-Win32s lets an MCP client drive an old Windows machine. Two programs do it:

* the **device** (`src/`, C): a single-threaded server that runs on anything from
  Win32s to current Windows, takes one JSON command per line over TCP or a serial
  line, and answers one JSON line;
* the **bridge** (`bridge/`, Rust): a tokio program that speaks MCP to the client and
  relays its tool calls to the one device, behind a rate limiter, a circuit breaker
  and an audit log.

This directory holds models of both, the TLC configurations that check them on
small instances, and proofs that TLAPS checks for every value of the constants.
`PROJECT.json` lists the components, the runs, the source lines behind every
definition, the hazards and the theorems. Paths below are relative to the
repository's root.

    tlc -config BridgeDispatch.cfg MCBridgeDispatch      # a run
    tlapm BridgeDispatchProofs.tla                       # a proof

## 1. The system

    MCP client --> tool handlers --> rate limiter --> breaker --> device mutex --> device.rs
                   |  (server.rs)    RateLimiter      Breaker     BridgeDispatch       |
                   |                                       '-> audit file  AuditFile   | Link
                   '-- build tools   Toolchain                                         |
        TCP | serial API | 16550 by port I/O  Uart  <----------------------------------+
        (chosen at start: Startup)
               |
        main loop and framing  Link --> JsonLine --> command dispatch
               |-- exec, ptyExec    Catalog, ArgvLine, ExecGate (what is run), BinFmt (what it is)
               |                    ExecDomain (which run may start), ExecCapture and PtyExec (one run)
               |-- memory verbs     MemTable, with the audit sink; MemRange
               '-- file verbs       FileCommands; Base64, Utf, Encoding for what they carry

| Component | State | Operations | What is hard | What makes it correct |
|---|---|---|---|---|
| Rate limiter, `ratelimit.rs` | a bucket per tool | `try_acquire` | integer refill, first use, long gaps | no window admits more than a burst and its refills; nobody is shed while tokens are due |
| Circuit breaker, `breaker.rs` | state, failures, `open_until`, `half_open` | `admit`, `record_success`, `record_failure` | its lock is dropped between admission and outcome | opens only on a run of failures; the latch is always released; an outage spares the device |
| Dispatch, `server.rs` | three locks; calls under way | `dispatch`, `run_build`, the unsafe gate | concurrent tasks, six return paths | one command on the link; each power call audited with what the client was told; a refusal never reaches the device |
| Device client, `device.rs`, `wire.rs` | a stream and a line buffer | `connect`, `read_ready`, `write_line`, `call` | no ids compared, no timeout, ends inside a line | answers match their calls |
| Bridge audit log, `audit.rs` | a file, its rotation | `record` | disks that fill, renames that fail | the newest records are there, whole, within the size |
| Toolchains, `toolchain/`, `toolchain_probe.c` | the registry | probe, register, generate tools, emit an argv | limits of the wire and the gate on the way | the tools offered are those the device has; a compiler gets what its call spells |
| Main loop and framing, `mcp-w32s.c` | the connection, `LineBuffer` | accept, `Serve`, `ProcessBuffer` | clients that vanish, restarts | a line in, a line out; no line made of two commands |
| Start, `transport.c`, `tcp.c`, `serial.c`, `main` | the configuration | parse the command line, open a transport | flags found anywhere in a line, a fallback, a probe that errs | the link is the one asked for; the chip is driven only where nothing else can |
| UART driver, `uart.c` | registers, a few counters | open ladder, receive, transmit, close | a chip and a line that change between two accesses | a byte delivered is a byte sent; losses are counted; every loop ends |
| Exec capture, `exec_ops.c` | pipes, child, two readers, timeout | `ExecOpRun` | a child, readers, an heir of the pipes, limits | output complete or marked; kills reported; nothing leaks |
| Pseudo-console, `pty_exec.c` | console, pipes, reader thread | `PtyExecRun` | eleven resources, a console that waits to be read | every resource released once; all output or marked |
| Exec busy domain, `mcp-w32s.c` | `g_orphanHandle` | `HandleExec` | a 16-bit child that outlives its run | one child at a time; one handle kept |
| Exec gate, `catalog.c`, `argv.c`, `binfmt.c` | the catalog | load, look up, validate, join, escape, classify | quoting, limits, torn files | what runs is what was looked at; a 16-bit program is known |
| Memory verbs, `mem_ops.c`, `audit.c` | retained processes and tokens; the sink | spawn, release, terminate, peek, poke | tokens outlive what they name; write and record are two steps | a token names its process or nothing; a record is of a poke that was made, and a poke without one is told as such; a poke stays in its region |
| File verbs, `file_ops.c` | the host's files | read, write, list, delete, copy, move, mkdir, rmdir | several OS calls per verb, other programs between them, sizes | ok is said only of what was done; nothing else is touched |
| Text, `json_parser.c`, `base64.c`, `encoding.c`, `charset_tables.c` | none | parse, build, encode, decode, convert | cuts, rooms, windows | what goes in comes out, or is refused |

The places where components meet are where properties can fail: the bridge's tasks
share one device through a mutex; bridge and device share one ordered line stream
without request ids; the device and the child it spawned share pipes, a clock and
a process handle; the server and the outside world share files; the driver and the
chip share registers that forget when they are read; and a request's text passes through five
codecs between the client and the program that is run. The device runs one request at a time, so
*within* it the concurrency is with children, reader threads, hardware and
other programs, never between two requests.

## 2. The modules

| Module | Models |
|---|---|
| `TokenBucket`, `RateLimiter` | `ratelimit.rs`: one bucket; `try_acquire` over a map of buckets |
| `Breaker` | `breaker.rs`: operators on one breaker record |
| `BridgeDispatch` | `server.rs`: `dispatch`, `round_trip`, `round_trip_power`, `run_build`, unsafe gate; uses `TokenBucket` and `Breaker` |
| `Link` | `device.rs`, `main`, `SendReady`, `Serve`, `ProcessBuffer`: both ends of the line stream, with stops and restarts of either |
| `Uart` | `uart.c` against a model of 8250 to 16550A chips and of the line |
| `ExecCapture`, `ExecPromise` | `exec_ops.c`: `ExecOpRun` step by step; and what a run promises its caller, which the first is shown to implement |
| `ExecDomain` | `mcp-w32s.c`: `HandleExec` over many requests, a run being one step |
| `PtyExec` | `pty_exec.c`: `ExecDomain` with its pseudo-console runs told step by step, shown to implement `ExecDomain` |
| `MemTable`, `MemRange` | `mem_ops.c`, `audit.c`: the table and the poke; the arithmetic of addresses, ranges and regions |
| `FileCommands` | `file_ops.c` and its dispatch, OS call by OS call, on a shared file system |
| `Symbols`, `Base64`, `JsonLine`, `Utf`, `Encoding` | the text of the wire |
| `Catalog`, `ArgvLine`, `ExecGate` | the whitelist, the command line, and the way of a request through both |
| `BinFmt` | `binfmt.c`: which kind of program a name stands for |
| `Toolchain` | `toolchain_probe.c`, `definition.rs`, `argv.rs` and the registry of `server.rs`; uses `ExecGate` and `JsonLine` |
| `Startup` | `ParseCommandLine`, the host families of `feat.c`, `TransportOpen` and its backends |
| `AuditFile` | the file sink of the bridge's `audit.rs` |
| `Codecs` | grows inputs piece by piece for the pure modules above, and states their properties |
| `*Proofs`, `MC*` | theorems about, and TLC constants for, the module they are named for |

No module declares a RECURSIVE operator: recursion is folds and recursive functions, so that every
module can be proved about.

### How state and actions correspond

**BridgeDispatch.** `pc[c]` is the `.await` at which call `c` is parked: `limit` the
limiter's lock, `admit` the breaker's, `device` the device mutex, `link` the
device's answer, `record` the breaker's lock again. `devQueue` is tokio's fair
mutex: its head holds the guard. `Arrive` is the tool handler up to `dispatch`, with the
unsafe gate; `RefuseBuildParams` the early refusals of `run_build`; `RateLimit`,
`PassBreaker`/`ShortCircuit`, `WriteCommand`/`DeviceReturns` and `Settle` are the
numbered stages of `dispatch`. The limiter's and breaker's locks are never held
across another await, so each critical section is one action. The device is the
environment: every command ends ok, in an error status, or with a failed link.
`sent`, `trials`, `failRun` and `outage` (when the breaker opened, and which calls it had let
through by then) are histories that nothing reads. A build whose output cannot be parsed is told to its client as
`BadOutput` after it was recorded as relayed (`Recorded`).

**ExecCapture.** `pc` follows `ExecOpRun`: the two capture paths (`pump` ... and
`threads` ...) are chosen as in the code, by `g_features` and the target's class.
`handles` is the set of kernel handles held. A pipe is a number of units, as is a
capture buffer; that is what the code's counters tell apart. The child writes
while it runs, ends when it likes with any class of exit code (zero, nonzero, the
job-limit status, 259), may obey CTRL+BREAK or not, and may leave a process behind
that that holds the pipes' write ends (`heir`). `death` says what ended it, by itself in time or `late`, the break, the kill or a cap; the code does not know
it, and infers it. One `PumpPipe` call is one step. call is one step.

**ExecDomain, PtyExec.** A request that is no pseudo-console run is one step, because the
server is single-threaded; what one run does inside its step is `ExecCapture`'s
matter. `orphan` is `g_orphanHandle`, `open` the process handles held. The poll of
the orphan goes by its exit code, as the code's does, so that 259 reads as running. `PtyExec` replaces
the pseudo-console request by the steps of `PtyExecRun`. Every resource has two faces there: `held`, what the
server has, and `locals`, what its variables say; cleanup goes by the variables, so that a
handle closed without its variable being cleared is closed twice, and shows. `waits` says whether
this Windows' `ClosePseudoConsole` waits for the console host.

**MemTable.** `slots`, `seq`, `armed` are `g_slots`, `g_seq`, `g_armed`; `sink` is whether the file opens. A poke is
three steps, `PokeFloors`, `PokeWrite`, `PokeRecord`, since the file and the target
change between them although no other request runs. The token's salt is any value of
`Salts`: the code's generator is seeded by the clock.

**FileCommands.** A request passes `Receive` (the line buffer, the parser, the cut fields), then the
steps of its verb: `OpenRead`, `ReadChunk`, `FinishRead`; `OpenWrite`, `WriteData`; `OpenList`, `PutEntry`, `FindNext`,
`FindEnds`; the others are one OS call each. `entry` is the find data, `found` the buffer; `given` are the names the host gave, `steady` those that
were there throughout, and `cut` says that its search has failed (`SearchFails`): all three of the host's side, which the server cannot see. A file's content is who wrote it and how long it is,
`Torn` when bytes of two contents were read. `Others` is any other program on the host, between any two steps; `sharing`
says whether the host enforces the modes files are opened with, `codepage` whether it takes only names its page can spell.

**Link.** `up[s]` and `down[s]` are the two directions of session `s`'s connection; on
a serial line all sessions share wire 1. A command line travels in two pieces, so that
either end can vanish inside it; `lineBuf` is `Serve`'s `LineBuffer`. `TransportWriteAll`'s
result is ignored, as in the code (`Put`). `Stop(heard)` is a device that stops: over TCP the bridge hears of it when the server ended and its system
lives, and does not when the power went with nothing left to acknowledge (`silent`). `HoldUp` is a command whose readers are held by a process it
left (`held`; that is `ExecCapture`'s `heir`).

**Uart.** `rx` holds bytes and breaks with the error bits LSR has yet to show;
`LsrShows`/`LsrLeaves` are what a read of LSR returns and leaves. Every poll of THRE, TEMT or DR is such a read and takes the error bits of the byte in
front, found or not (`ReadLsr`, in `Poll`, `Burst`, `ThreExpires`, `Quiesce`). `raised` counts the overruns the chip flagged, `unseen` those that went to a read that decodes nothing. `snap` is the driver's
LSR snapshot. The open ladder (`ClearStale` ... `GoLive`), the drain (`AwaitData`, `Take`,
`Resnap`), the transmit burst and the close follow the order of the port accesses.

**Codecs.** Characters are symbols. Each scanner of the code (`ParseJsonCommand`, `CatalogLoad`, `Base64Decode`) is a
fold whose accumulator is the loop's local state. Where the other side of a conversion is not in the
repository it is modelled from its documented rules and marked external: a JSON writer, the C runtime's
argument parser (`ArgvRead`), `cmd.exe` (`CmdRead`), `VirtualQuery`, `GetBinaryType`. Each property compares the code's operator with
a definition made from the other direction: what was encoded, what the parser of the line reads,
what the file's loader does with the file.

## 3. The runs

Passing runs. A faulty variant stands beside the definition it breaks (`...Unaudited`, `...Leaking`);
with it in place of the definition the property fails.

| Run | Instance | What it shows |
|---|---|---|
| `RateLimiter.cfg` | 2 tools, burst 2, interval 2, clock to 7, 6 calls | `AllowanceBound`: no window lets through more than a burst and its refills. `ShedIsEarned`: a tool is shed only if it used its allowance |
| `BridgeDispatch.cfg` | 4 calls (exec, build, two reads), no unsafe exec, burst 1, threshold 2, cooldown 1, clock to 2 | audit, refusal, mutex and breaker invariants under every interleaving; `OutageIsSpared`: while the breaker is open one command per elapsed cooldown reaches the device, those of the calls let through before it opened apart; every call is answered |
| `ExecCapture.cfg` | 4 host families, both binary classes, every set of caps; pipe 2, buffer 1, up to 3 units a stream | `HandlesAccounted`: what stays open is known, and nothing but with an orphan; `CaptureSound`: complete or marked output; `KeepsPromise`: `ExecPromise` is implemented, so a kill is reported, a 16-bit child never killed, and a child that ended in time told as timed out only by a poll that missed it; `ReturnsOrHeirHolds` |
| `ExecDomain.cfg` | 4 requests of either kind; pipe 2, buffer 2, 3 units; both kinds of console | `OnlyOrphanHandle`; `AdmissionIsExclusive`: no second child beside a running one; `PtySound`: every resource closed once, all output or marked; `DomainHolds`: the pseudo-console run implements the domain; `PtyReturns` |
| `MemTable.cfg` | 2 slots, 2 salts, 3 spawns, 2 pokes of 2 bytes, 2 clients, two memory tiers | tokens and handles; `PokeIsAudited`: a line of the audit file is a write that was made and told ok, and a write without a line is told as `audit_failed` |
| `Link.cfg` | TCP and serial, 3 bridges, 3 commands, 2 stops of the device | `FramingSound`: lines are whole, one message owed; `AnswersMatch`; `BridgeReturns`: calls and connects come back, unless the line stays deaf |
| `Uart.cfg` | a working chip of each of four models, a 16550A with each of five faults; FIFO 2, buffer 2, 4 items on the line, a write of up to 3 bytes | `ChipSound`: no chip is overrun, armed or refused for nothing; `ReceptionSound`: a break is data only if a read of LSR that does not decode it took its mark, each overrun is counted, pending or went to such a read, never 0; `DriverReturns` |
| `FileCommands.cfg` | 2 directories, 2 names and one too long for its field; sizes 0, 2, 7, 9, 18 with 2^32 = 16 and a buffer of 6; 2 requests, 2 changes by others | `BuffersHold`; `ReadTellsTheFile`; `ListTellsTheDirectory`: an ok listing is every name the host gave, in order; `ChangesAreAnswered`: the file system changes only where the request says, and ok means done; `RequestEnds` |
| `Codecs.cfg` | every input of up to 6 pieces for 21 subjects | see below |

The properties of `Codecs.cfg`:

| Property | What it says |
|---|---|
| `WireSound` | base64 without padding inside is decoded whole or refused, and undoes encoding; a request's fields are what its JSON says, cut to their size and never past an integer's range; a torn request is refused; a response reads back; a catalog file is loaded whole or not at all |
| `TextSound` | the UTF codecs take any input and mark what they replace; what leaves the device is valid UTF-8 that says what came in, across windows, rooms and pages; a path is converted whole or refused |
| `GateSound` | a catalog allows what its listing offers, with a value after a flag or glued on, and refuses a flag that is not listed; what an enforced catalog lets run is what it looked at, through quoting, escapes, the shell's prefix and the limits |
| `RangeSound` | memory is touched only inside both the request and its region; a number of the wire is what it spells or is refused |
| `ToolchainSound` | a toolchain's tools are offered, each once, exactly if its compiler is catalogued and printed a supported version; no registration reaches an uncatalogued program; a compiler gets exactly the elements its call spells |
| `AuditSound` | the audit file and its rotation hold the last records, in order, whole, within the size, whatever faults come between |
| `ProgramSound` | a 16-bit program is spared at its timeout and a 32-bit one is not, however odd the header; a program gets the argument list its command line was made from, with or without the shell between, no operator acts, and a variable is expanded only in a line that needed quotes |
| `StartSound` | a mode is on exactly if it is an argument, a value is the one given, a port is the number it spells; the device listens where it was told, falls back to the serial line only under `/AUTO`, drives the chip only on Win32s, and fails to start only if what was asked cannot be opened |

Runs that must find a violation: places where the program and a text about it disagree.

| Run | Claim | What happens |
|---|---|---|
| `BridgeTrials.cfg` | "A trial is already in flight; do not admit a second" (`bridge/src/breaker.rs:98`) | a call admitted while the breaker was closed fails during the trial, trips it again and clears the latch; after that cooldown a second trial joins the first |
| `ExecHeir.cfg` | "Execution is never unbounded" (`specs/process-ops.allium:172`) | the readers are joined with `INFINITE`; a process that inherited the pipes' write end keeps the run waiting past its timeout |
| `LinkResync.cfg` | "the client matches a response to its request by id" (`specs/wire-contract.allium:164`) | a serial device restarted under an open session answers every later call with the previous one's answer |

### Bounds, and why they are enough

* *Clock and counters.* Time matters only relative to the interval, the cooldown and
  the timeout. The limiter's clock passes three intervals, so that a remainder
  survives a refill; the dispatch clock passes a trip, its cooldown and another trip.
* *The count of intervals.* `Refill` cuts it to 32 bits (`CountRange`) before it moves `last_refill`; the bounds keep the clock below that,
  which at an interval of a second is 136 years of idling (`LimiterAssumption` in the proofs).
* *Calls.* Four calls are needed for a second trip: two failures open the breaker, one
  call is its trial, one is left behind from before the trip. Two of them
  share a bucket. The argument for any number of calls is the proof's.
* *Pipes and buffers.* A pipe of 2 and a buffer of 1 give each of: room, exactly full,
  excess, and a pipe that blocks its writer; 3 units make a stream do all in a row.
* *Requests.* Four requests give an orphan, a busy answer, its reaping and a pseudo-console run, in any order.
* *Slots.* Two slots and three spawns reuse a slot under a token that is still held; two
  salts make two tokens differ by salt alone; two clients make a token outlive a session.
* *Files.* The sizes stand for: empty, small, just too large, 2 GB (negative as an int), and
  just above 4 GB. Two directories and two names give every pair a move or a copy can have, onto something included. Two changes
  by others put one before a step and one after it.
* *Listings.* Two names and room for one: a listing that fits, one that does not, a search that fails on its way, and a change before and behind the name in hand.
* *Sessions.* Three bridges and two device stops restart either end inside a line of the other, twice.
* *UART.* A FIFO of 2 stands for 16: empty, partly full, full and overrun all occur; the
  code treats depths alike except by `tx_chunk`. Four items on the line fill it, overrun it and leave
  one behind. A transmit of 3 takes a whole burst and a rest.
* *Codecs.* Alphabets hold one piece for each case the code distinguishes: each class of UTF-8 lead and trail
  byte, each row of its table's limits, each delimiter. Sizes are scaled so that every limit is met by the inputs: bytes of 16
  and symbols of 8 values keep base64's 4:3; fields of 3 to 5; a conversion window of 4, which a
  four-byte character fills; words of 16 for the address space; an integer limit of 214 with its last digit; program headers of
  0 to 63 bytes, offsets over the whole signed field; an audit file of 5 with records of 2 (several fit) and 6 (none does);
  a port's text of 8 digits, of which an int of 21 bits holds six; two code pages, one with lead bytes whose trail is a backslash. Builds take up to two settings of any role of the two built-in toolchains.
* *Symmetry* is used for the salts alone, in a run without liveness. Deadlock checking
  is off where the model truly stops: no client is left, an input has its full length, or a bound is reached.

### Fairness

* **BridgeDispatch**: weak fairness of each call's own step. tokio polls every runnable
  task, and its mutex is a queue. That the device answers or its link fails is an
  assumption, and a strong one: `dev.call` has no timeout, so a device that keeps its link and
  says nothing stops every tool. The clock is under no obligation.
* **ExecCapture, PtyExec**: weak fairness of the server thread, of each reader, and of the timer,
  that a terminated child ends, and that a console host able to write its last frame goes. The child and
  its heir owe nothing: they may run, or write nothing, for ever.
* **FileCommands**: weak fairness of the server's own steps. Other programs and failing OS calls are under none.
* **Link**: weak fairness of either program while it runs, of the server only while no command is held up, and of a command under way being written.
  Nobody is bound to start a stopped device, to connect, to call, or to end what holds a command up.
* **Uart**: weak fairness of the driver and of the chip's shift register. The line and the chip's
  failure are under none.

### Exceptions the properties name

They are stated where they are because the code does this, not to make a run pass:

* *Uart.* LSR forgets when it is read, and the driver reads it where it looks for another bit: in each poll of THRE (`uart.c:382`) and of TEMT, and once more
  behind the last byte of a full buffer (`uart.c:470`). A break whose BI goes there is later delivered as 0x00 (`missed`), an overrun goes uncounted (`unseen`);
  `ReceptionSound` says that these are all. Without a FIFO a byte can
  replace another between the LSR and RBR accesses. A byte that arrives between the FIFO reset and
  LOOP stands before the sentinel and a working port fails to open (`intruded`).
* *ExecCapture.* `ReturnsOrHeirHolds`: a run need not return while an heir holds the pipes. `HandlesAccounted`: the job of an orphan is lost, by name (`LostJob`).
  `KeepsPromise`: `BeatTheKill` and `MissTheEnd` of `ExecPromise` are a child that ended by itself and is told as timed out, past its deadline, or in time where a poll missed it.
* *MemTable.* `PokeIsAudited`: a write whose line fails stays (`Unlogged`), and is told `audit_failed`.
* *BridgeDispatch.* `OutageIsSpared`: the calls let through before the breaker opened.
* *PtyExec.* `Jammed`: when no reader thread could be started, a console that waits to be read keeps
  `ClosePseudoConsole`, and so the server, for ever.
* *Link.* `AnswersMatch` excepts a serial device restarted during a session. `BridgeReturns` claims nothing if in the end the bridge is `Deaf` for good: a stopped serial device,
  one restarted before the bridge read its ready line, a connection lost without a word, a command held up.
* *FileCommands.* `ReadTellsTheFile`: a file of 4 GB or more reads as what its size modulo 2^32 says; only on a host
  that enforces sharing. `ListTellsTheDirectory`: what was there throughout may be missing after a search that failed (`cut`).
  `ChangesAreAnswered`: a failed write has already replaced the old content.
* *Codecs.* `WireSound`: of a base64 text with data behind its padding (`PadWithin`) only that it stays in its room. `ProgramSound`: the offset whose sum with 2 overflows, a class nobody could look up, and a PE header
  past the 512 bytes read. `StartSound`: values without a `/`, ports within an int, a first thread that starts, ports of one digit. `ToolchainSound`: calls of more, or longer, elements than a request holds. `AuditSound`: the record after a cut one.

## 4. The proofs

TLAPS proves the following for all values of the constants, under the named assumptions of the modules:
`BucketAssumption`, `LimiterAssumption`, `BreakerAssumption`, `DispatchAssumption`, `DomainAssumption`, `PtyAssumption`,
`CaptureAssumption`, `MemAssumption`, `MemRangeAssumption`, `CodecsAssumption`, `LinkAssumption`, `UartAssumption`, `FilesAssumption`. They say
what the constants' types are, which are positive, that a value that stands for "none" is none of the others, and how
sizes of the code compare (`CodecsAssumption`: what the inputs that are numbers range over; a peek's limit is below the address space, the read buffer is less than half of 2^32). `FilesAssumption`
also says that requests respect the model's one-level tree. No type is bounded: the limits
on clocks, calls, sessions and sizes are any natural numbers.

Every safety property that a passing run checks is proved, except four of the eight of `Codecs`; so are both refinements. None of them is inductive
by itself; what each needs in addition is said below.

**`BridgeDispatchProofs`.** `TypeCorrect`, `LinkIsExclusive`, `Answers`, `Audited`, `NeverSent`,
`BreakerCorrect`, `OpensOnEvidence`, `LatchIsHeld`, `OutageCorrect`, `OutageSpared`. Four inductive invariants:

* `QueueInv`: the device queue holds exactly the calls at `device` or `link`, each once, and a call at
  `link` is its head. `OneCommandOnTheLink` follows; without "each once" the dequeue of
  the head could leave a second copy of the same call behind.
* `AnswerInv`: for every call, its place determines what it has sent, what it was told, and what
  was recorded. `PowerToolsAreAudited` and `RefusedNeverSent` are read off it.
* `BreakerInv`: every call counted as a trial is in flight; a latched breaker is open and has one;
  the breaker is open exactly if the run of failures reached the threshold. `failures` alone
  is not enough: it is not reset by a trip, and a late failure counts on.
* `OutageInv`: each call let through during an outage was a trial and used up one cooldown, so the deadline lies a cooldown per
  such call behind the opening, and one further while no trial is latched. The stale answers of the calls queued before only move the deadline on.
  `OutageIsSpared` follows, as a call must have been let through to be written.

**`RateLimiterProofs`.** `LimiterCorrect`, `AllowanceKept`, `ShedsAreEarned`. A bucket's tokens say nothing about when calls were accepted, so
`LimiterInv` ages them: the refill moves the bucket's instant by whole intervals only, hence every accepted call lies in
a definite, say the m-th, interval back from it (`Aged`), and from that call on calls and tokens together are at most
`Capacity + m`, and more than m unless the bucket was full in between. The first half gives the bound on every window; the second says what
a shed call's tool must have used (`Earned`), which fails for a refill that forgets the remainder of an interval. `Begun` counts from the first call, for
the bound on the lifetime. With an interval of 0 the code never refills (`ratelimit.rs:37`); neither bound is stated for it.

**`ExecCaptureProofs`.** `CaptureCorrect`, `CaptureIsSound`, `OpenHandles`, `PromiseIsKept`. `CaptureInv` says that the place in
`ExecOpRun` determines the handles held (`HandleInv`), how the child stands and what can have ended it (`FateInv`), who
can have been killed or left (`VerdictInv`); that every unit written is in the pipe, in the buffer, or cut off from a full
buffer (`BalanceInv`); and that a reader that ended, or the last poll, left its pipe empty (`ReaderInv`). The last two
make a report complete: without "the child is gone" in `ReaderInv` it could still write into a pipe already drained. `PromiseIsKept` is the refinement: each step of the run, its readers,
the child and the timer is one named step of `ExecPromise` or leaves what the caller sees unchanged (`SpawnIsStart` ... `StepIsPromised`).

**`ExecDomainProofs`.** For the one-step requests `DomainInv` adds to the type that the orphan is a request already
handled, that later requests have no child, that the orphan's is the one handle, and that
its is the one child that may run. The lemma `PollFindsNone` says when the poll clears the orphan. `DomainCorrect`,
`HandleKept`, `OrphanAloneRuns` and the action property `Exclusive` follow.

For `PtyExec`, `PtyInv` says that `DomainInv` holds between runs and that during one only the run's own child may be
running (`RunInv`); that what is held is what the variables name, by where the run is (`ResourceInv`); how child, console and
reader stand (`PhaseInv`); and where each unit of output is (`OutputInv`). `PtyCorrect`, `PtyRunsSound` and `PtyExclusive` follow. `PtyRefinesDomain` maps
a run to one request, at the step that answers it: the child's end and the reaped orphan are hidden until then. That works only because no run returns
while its child runs, which is a part of `PhaseInv`.

**`MemTableProofs`.** `TableInv` ties slots, tokens, handles and histories together: tokens are numbered by the sequence,
so no two slots hold the same token and `FindSlot` finds the one; a slot's process is unconsumed and of
this session. `PokeInv` says that during a poke the session and the target do not move, and what each
finished poke stored, logged and answered, the one whose line failed included. `MemInv` is their conjunction; `TokensHold`,
`HandlesHold`, `TargetHeld` and `PokesAudited` follow.

It also holds what is proved about the pure modules under `Codecs`, for inputs of every length (memory's ranges and numbers are one of their
subjects): `RangeHolds`, `LogHolds`, `ProgramHolds`, `GateHolds`. Of the behaviour of `Codecs` they need only that inputs stay sequences of their
pieces (`InputTyped`); the rest is about folds. A fold is a CHOSEN recursive function, of which nothing is known until such a function is
known to exist; the library's induction theorems, which would give that, take an operator as a parameter and cannot be instantiated. `SetInduction`
is induction over a set of numbers instead, from the well-foundedness of `<`; from it follow `RunExists` (a fold by any function from A x B to A exists)
and `FoldHasSteps` (it takes one step per element). A loop of the code then needs a lemma that its fold is such a
fold (`ParsedSteps`, `LoggedSteps`, `RowsSteps`, `QuoteSteps`, `ReadSteps`, `CheckSteps`, `ScanSteps`), and its property an invariant of the loop:

* `RangeHolds`: no region, address and length get past the floors of peek and poke into anything outside the request or the region, even where base and size
  wrap around (`AccessHolds`); one digit of `MemParseU32` gives the exact number or a refusal (`DigitIsExact`), so that, by induction along the text, the
  number is what the text spells, or refused because it leaves the word or a digit is none (`ParsedIsSpelled`).
* `LogHolds`: `AuditInv` says after each call that rotation and current file together are the end of all that reached the disk (`PlacedAt`), that what
  rotation dropped made room for all but the longest record, and that each line of either file ends in a newline unless the last record was cut. A record that is
  still there, was not cut, and was not written behind a cut one, stands whole in it (`FileInv`). That the files' lines, as a reader puts them together byte by byte,
  are then those records in order is a second induction, along the file (`WholeIsLine`).
* `ProgramHolds`: what `BinFmtClassify` reads of a header is what the loader reads, but for the overflow and the short read the property names (`HeaderIsTold`, `FileIsTold`).
  That the argument list arrives (`ArgvArrives`) is about two scanners that run one behind the other: the invariant of the first says where the second is: what `ArgvEscapeArg` has written of an
  argument leaves the runtime's reader inside its quotes with what was taken of it, but for the backslashes still held back, which a quote to come would
  double (`HeldBack`, `QuotedIsRead`). Reading a text is reading its parts in turn (`ReadsThen`), so a line is read argument by argument (`LineIsRead`). What
  `ArgvCmdEscape` has written leaves the shell with the line so far, in quotes exactly where the escape thinks so, and no caret pending (`HandedOn`); a line has a
  percent sign or a quote only if an argument put it there (`LineHasOnlyTheirs`).
* `GateHolds`: `CatalogValidateArgs` passes over the token after a flag that takes an argument; the invariant of its loop says that whatever was passed over is no flag
  (`CheckedTo`), so that it lets a list pass exactly if each of its flags is one of the command's (`ValidateIs`). With that, and with `FindOption` and `CatalogLookup`
  being the first that matches (`OptionIs`, `LookupIs`), a listed flag passes in all three forms (`FlagPasses`), one that begins with no listed flag is refused (`FlagRefused`), and every flag that
  runs is listed (`FlagsAreListed`). What then runs is what was looked at by the lemmas of `ProgramHolds` (`PassedRuns`). Of the loader only the type of what it gives is needed
  (`LoadedIs`); that it gives the whole file is in `WireSound`. The same command with the whitelist off is the same line (`GateRefuses`). The texts of these lemmas are over `Chars`, which adds
  to STRING the strings the modules spell out: the prover does not know that they are strings.

**`LinkProofs`.** `LinkCorrect`, `FramingIsSound`, `AnswersAreOwn`. `LinkInv` follows a command through the pieces of the wire and
the line buffer: whatever bridges vanished, the pieces under way are `Framed`, each followed by the rest of its line or by the
beginning of another, and the line buffer goes before them (`FrameInv`); that holds on a serial wire because a bridge writes only after a ready line, and a device
sends one only when it starts, with nothing buffered. The latest piece is the one the bridge wrote last (`LatestInv`). A bridge that waits for its ready line has
nothing else on its link (`GreetInv`), and a ready link carries the pending command, or its answer, or has lost it for good (`ExchangeInv`). A response
carries an id nobody compares, so that `AnswersAreOwn` rests on `ExchangeInv` alone; `resync` marks the case of `LinkResync.cfg`, where it fails.

**`UartProofs`.** `UartCorrect`, `ChipIsUsedAsItIs`, `ReadsAreTheLine`. `UartInv` says what the driver believes of the chip and the chip
bears out (`ChipInv`: a burst of more than 1 only on an enabled 16550A FIFO), that no interrupt path opens again (`QuietInv`), that the sentinel comes first unless the line spoke
over the self-test (`EchoInv`), that a break in the queue keeps its BI until a snapshot takes it, or is marked as missed when a poll took it first, and that the byte under the driver's hand is
the one its snapshot is of (`BreakInv`), and that the overruns raised are those in the counter, in LSR, in the snapshot and unseen, added up (`OverrunInv`). Breaks need the
overrun part: without a FIFO an overrun replaces the byte between the two accesses.

**`FileCommandsProofs`.** `FilesCorrect`, `BuffersAreKept`, `ReadsTell`, `ListsTell`, `ChangesTold`. `FileInv` adds to the type that a file stands only in a
directory that stands (`Tree`), that a read in progress holds a beginning of the file as it stands where files are locked, and never more
than it believes the file to have (`ReadInv`), that a write's directory stays (`WriteInv`), and that a listing's buffer and find data together are what the host gave (`ListInv`). The last three theorems are action properties.

**Only model-checked.** Liveness (`EveryCallAnswered`, `ReturnsOrHeirHolds`, `PtyReturns`,
`BridgeReturns`, `DriverReturns`, `RequestEnds`) and anything about ENABLED: outside what the prover supports. So are `WireSound`,
`TextSound`, `ToolchainSound` and `StartSound` of `Codecs`. Each relates scanners of whole texts, as the argument list of `ProgramSound` does, and needs its own
invariant that relates the loops symbol by symbol; the fold lemmas would carry them, but their proofs are not written.

## 5. What is not modelled, and known differences

### Not modelled

* *Bridge capabilities*: a table of six feature names filtered by flags, without state.
* *Diagnostics* (`toolchain/diagnostics.rs`): the parsing of compiler output is regular expressions under a
  bounded engine; what it finds is the expressions' text, which a model would copy.
* *The arguments of a bridge tool* before dispatch, the redaction in an audit record, the wording of messages, the ready line's fields,
  the JSON of lists: formatting.
* *Feature probe*: the look-up of each function. A flag is set when all its functions are there; its results are the host
  families of the models.
* *Generated tables* of `charset_tables_data.c` (29 015 lines): data. `Encoding` takes a page as a constant; two small pages stand for them.
* Build files, tools, tests, vendored code, runtime helpers.

Abstracted in what is modelled: payloads (units of output, who wrote a file), baud rates, the text of names. Directories do not nest in
`FileCommands`: a path's form says whether a file or a directory can stand there, and requests use it so. `u32` wrap of the token
sequence needs 2^32 spawns in one server process; the model caps it. `Codecs` leaves out the NUL that `Base64Decode` stores one past
a full room: the callers' fields are too short to fill it.

### Seen while modelling, and not the subject of a run

*Exec.* Where there are job objects `SetUpJob` puts a 16-bit child into one as well; when it becomes an orphan the handle, a local of
`ExecOpRun`, is neither closed nor kept (`HandlesAccounted` names it `LostJob`), where `exec_ops.c:644` says "hJob is never set for the orphan path". A child that
ends by itself behind the check of its timeout is told as killed: the wait after the break (`exec_ops.c:286`), or `TerminateProcess` (292), whose
result nobody looks at, meets one that is over; `specs/process-ops.allium:86` says "timed_out strictly means killed on timeout" (`BeatTheKill`, `MissTheEnd`).
A parameter refusal of `run_build` writes no audit record, while `bridge/src/audit.rs:3-5` speaks of every outcome
(`BadParams`, exempt in `PowerToolsAreAudited`). The polling capture leaves what does not fit in the pipe, which
stalls a child that goes on writing until its timeout. A CPU cap is inferred from any nonzero exit code. An orphan that ended with
code 259 is busy for ever (`mcp-w32s.c:266`, against the comment at 261). The pseudo-console's timeout kills a 16-bit
child, which `specs/process-ops.allium` says is left alone (`VdmTimeoutNotKilled`); so are a `.com` file without MZ, a 16-bit program that is named with an
extension but found only on the path, and anything behind the shell. A reader thread that cannot start refuses a pseudo-console request
whose child already ran. A PE whose header lies past byte 510 is classed MZ and left running. For the two highest offsets of a new header
`lfanew + 2` overflows a signed long (`binfmt.c:167`): a build that wraps takes the offset for valid and reads outside the 512 bytes, where lines 165-166 say that
"the 2-byte extended signature lies within the bytes we actually read".

*Start.* `find_flag` and `find_flag_tok` look at every `/` of the command line, so that a value with slashes, or the program's own
path, can set a mode (`/CATALOG:c:/x/unsafe`); the value of a quoted argument ends at its first blank. `/SERIAL` wins over `/AUTO`
over `/TCP` over `/PIPE`, and `/TCP` without a port is the serial line. A port's digits can leave an int. A bind address other than
four octets is every address. `/PIPE` parses but has no backend. A host whose first thread cannot start is taken for Win32s
(`feat.c:80-83`), so that an NT under pressure takes the direct UART route that `serial.c:218-226` calls structurally unreachable
there. `COM10` to `COM19` are taken for `COM1` on the direct route. The `/BAUD` flag of `uart.c:645-647` does not exist.
`has_proc_thread_attr_list` is never consulted.

*Catalog and command line.* `catalog/README.md:83` says `/UNSAFE` still consults the catalog for shell routing, and its lines 87-90
that without a catalog every command is rejected; the code looks nothing up in either case and runs the command
(`mcp-w32s.c:325-326`, as `specs/catalog.allium:84-88` has it for the second). `catalog.allium` says an unsafe entry is "still consulted for routing", where the code has no entry; and that "glued and split
forms validate identically", where a split value that begins with `-` or `/` is refused (`catalog.c:722-728`). The memory spawn has
"identical semantics to HandleExec" but validates no arguments and ignores the unsafe flag. Through the shell, `cmd` strips the quotes around a tail
that begins with one, and expands `%` inside quotes. A builtin entry without a shell string leaves an empty prefix. `supports_win32s` is never consulted.

*Memory.* `MemPoke` writes the memory before its line (`mem_ops.c:718`): when the sink fails between `AuditIsWritable` and `AuditWritePoke` the change
stays without one and is told `audit_failed` (`Unlogged`). `audit.h:8` says "a write that cannot be recorded must NOT happen", as do its lines 69-71 and
`specs/memory-ops.allium:302-307`.

*Link.* A TCP device that loses its power after it took a command in closes nothing. `device.rs:77` reads without a timeout on a connection without keepalive, so the
bridge waits for ever (`silent`, in `Deaf`), and with it every tool; `specs/wire-contract.allium:67-68` has "one request per line in, one response per line out"
and `device.rs:73` "a closed link is an error". So does a command that an heir holds up (`ExecHeir.cfg`; `held`).

*UART.* The poll of THRE (`uart.c:382`) takes the BI of a break that arrived during a write, and the next read delivers its 0x00, where `uart.h:184`
says "BI -> drop the spurious 0x00"; an overrun flagged there goes uncounted (`missed`, `unseen`).

*Wire.* `Base64Decode` stops at the first `=` and drops what follows (`base64.c:142`), where `base64.h:26-28` "Rejects any other non-alphabet character
(including '=') in the middle of data"; `WireSound` claims no more of such a text than its room. `json_unescape`
keeps the `\uXXXX` that `json_escape` emits. Integers from 2147483640 on lose their last digit. A path or an id longer than its field
is cut; an id is echoed unescaped; elements of `argv` past the 64th are dropped and long ones cut, where `json_parser.c:388-396` says the dispatcher
polices it, which it does not. The comment on `encoding.c:301-305` and the LOSSY comment of the codepage tier describe cases that do not arise.

*Files.* A `FindNextFile` that fails ends a listing like the last name does (`file_ops.c:375`), and the names so far are answered ok (`cut`). An empty file is an
"encode error", since `Base64Encode` returns 0 for it (`mcp-w32s.c:871`), where `specs/file-ops.allium:152-155` has it read. A file too large for base64's room is an "encode error". A file just above 4 GB reads as its first bytes.

*Toolchains.* Registered definitions are said to appear "on the next session" (`server.rs:563`), but tools are made only when a bridge starts, from the built-in
definitions. `emit_argv` is described as never letting a value become a flag (`argv.rs:246-250`), which a positional value does as
it stands. An empty value leaves `/I` or `/D` alone, which takes the next element. The `wlink` template emits `file` and `library`
without an operand when their list is empty. `wcl386` is probed but not in the catalog. `compile_only` is never emitted.

*Bridge audit.* A failed rotation is ignored, so the file outgrows its cap; a record cut by a full disk runs into the next one.

## 6. Plan

Done: the dispatch path and its two policies; one exec run, plain and pseudo-console, and the domain around them; the memory
table; the link; the UART driver; the file verbs; the pure parts of the device and the build tools; the proofs of all of these but some of the pure parts. Next, in this order:

1. Proofs of the other four properties of `Codecs`, first the start (`StartSound`) and that a torn catalog file never loads (a part of `WireSound`).
2. `Link` over `Uart`'s losses.

A new question joins an existing run where it shares a module's instance; a disagreement already
shown by a run is kept only as long as the text it quotes stands.
