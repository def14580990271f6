-------------------------------- MODULE Startup --------------------------------
(***************************************************************************)
(* How the device starts: what it makes of its command line (transport.c),  *)
(* the host it finds itself on, and the link it opens.  A command line is a *)
(* sequence of pieces: a digit, a mark, or a word, a flag's name being one  *)
(* whatever its case.                                                       *)
(***************************************************************************)
EXTENDS Integers, Sequences, SequencesExt, FiniteSetsExt, Symbols

CONSTANTS
    PortMax,        \* 65535
    DefaultPort,    \* DEFAULT_TCP_PORT
    IntHalf,        \* 2^31: an int is in -IntHalf..IntHalf - 1
    PortRoom,       \* the digits ParseCommandLine keeps of a port, and the NUL
    NameRoom,       \* the port's name and the NUL
    AddressRoom,    \* the bind address and the NUL
    PathRoom        \* a path and the NUL

ASSUME StartupAssumption ==
    /\ {PortMax, DefaultPort, IntHalf} \subseteq Nat \ {0} /\ PortMax < IntHalf /\ DefaultPort <= PortMax
    /\ {PortRoom, NameRoom, AddressRoom, PathRoom} \subseteq Nat \ {0, 1}

Switch == "/"
Colon == ":"
Dot == "."
Com1 == <<"com", "1">>

Piece(line, i) == IF i \in DOMAIN line THEN line[i] ELSE Blank

\* find_flag and find_flag_tok: where the first flag of that name ends, 0 when
\* there is none; the one must have a value, the other may.  Neither looks at
\* what stands before the switch.
FlagEnd(line, flag, after) ==
    LET ends == {i + 2 : i \in {j \in DOMAIN line :
                    /\ line[j] = Switch /\ Piece(line, j + 1) = flag
                    /\ Piece(line, j + 2) \in after}}
    IN  IF ends = {} THEN 0 ELSE Min(ends)
FindFlag(line, flag) == FlagEnd(line, flag, {Colon})

\* Faulty variant of FindFlagTok: a longer word that begins like the flag is it.
FindFlagTokPrefix(line, flag) == FlagEnd(line, flag, {Colon, Blank} \cup {Piece(line, i) : i \in DOMAIN line})

FindFlagTok(line, flag) == FlagEnd(line, flag, {Colon, Blank})

\* copy_until_space
UntilSpace(line, i, room) ==
    LET blanks == {k \in i..Len(line) : line[k] = Blank}
    IN  SubSeq(line, i, Min({Len(line), i + room - 2} \cup {k - 1 : k \in blanks}))
ValueOf(line, flag, room) ==
    LET colon == FindFlag(line, flag) IN IF colon = 0 THEN <<>> ELSE UntilSpace(line, colon + 1, room)

LeadingDigits(text) ==
    LET others == {k \in DOMAIN text : text[k] \notin Digits}
    IN  SubSeq(text, 1, Min({Len(text)} \cup {k - 1 : k \in others}))

\* simple_atoi, whose sum wraps.
SimpleAtoi(text) ==
    FoldLeft(LAMBDA n, d : ((n * 10 + DigitValue(d) + IntHalf) % (2 * IntHalf)) - IntHalf, 0, LeadingDigits(text))

\* McpInetAddr: what is no digit and no dot is passed over, an octet is cut to
\* its byte, and a text of other than four octets is every address.
AnyAddress == <<>>
McpInetAddr(text) ==
    LET Step(octets, c) ==
            IF c = Dot THEN Append(octets, 0)
            ELSE IF c \in Digits THEN [octets EXCEPT ![Len(octets)] = (@ * 10 + DigitValue(c)) % 256] ELSE octets
        octets == FoldLeft(Step, <<0>>, text)
    IN  IF Len(octets) = 4 THEN octets ELSE AnyAddress

-----------------------------------------------------------------------------
(* The command line *)

NoTransport == [transport |-> "invalid"]
Serial(port) == [transport |-> "serial", autodetect |-> FALSE, port |-> port]
Tcp(n, autodetect) ==
    IF n \in 1..PortMax
    THEN [transport |-> "tcp", autodetect |-> autodetect, port |-> Com1, tcpPort |-> n] ELSE NoTransport
Pipe == [transport |-> "pipe", autodetect |-> FALSE, port |-> Com1]

\* The transport is that of the first of /SERIAL, /AUTO, /TCP and /PIPE in this
\* order, wherever they stand; without any it is the first serial port.
Transport(line) ==
    LET auto == FindFlagTok(line, "auto")
        port(colon) == SimpleAtoi(UntilSpace(line, colon + 1, PortRoom))
    IN  IF FindFlag(line, "serial") # 0 THEN Serial(ValueOf(line, "serial", NameRoom))
        ELSE IF auto # 0
        THEN Tcp(IF Piece(line, auto) = Colon THEN port(auto) ELSE DefaultPort, TRUE)
        ELSE IF FindFlag(line, "tcp") # 0 THEN Tcp(port(FindFlag(line, "tcp")), FALSE)
        ELSE IF FindFlag(line, "pipe") # 0 THEN Pipe
        ELSE Serial(Com1)

ParseCommandLine(line) ==
    [link |-> Transport(line),
     bindAddr |-> ValueOf(line, "bind", AddressRoom),
     unsafeMode |-> FindFlagTok(line, "unsafe") # 0,
     catalogPath |-> ValueOf(line, "catalog", PathRoom),
     allowMemWrite |-> FindFlagTok(line, "allowmemwrite") # 0,
     auditPath |-> ValueOf(line, "audit", PathRoom)]

-----------------------------------------------------------------------------
(* The host *)

\* FeatInit, of a host whose first thread may not start, which is then taken for
\* Win32s; and UartTierWantsDirect.
IsWin32s(host) == (~host.nt /\ host.major = 3) \/ ~host.threads

-----------------------------------------------------------------------------
(* The link *)

\* uart_base_for_port: by the fourth letter alone, whatever follows.
UartBase(port) == 
    IF Piece(port, 1) = "com" /\ Piece(port, 2) \in {"1", "2", "3", "4"} THEN port[2] ELSE "none"

NoLink == [kind |-> "none"]

\* What the world allows: Winsock is there and works, the system's serial port
\* opens, the UART passes its ladder.
Worlds == [tcp : {"works", "absent", "fails"}, serial : BOOLEAN, uart : BOOLEAN]

TcpBackendOpen(config, world) ==
    IF world.tcp # "works" THEN NoLink
    ELSE [kind |-> "tcp", port |-> config.link.tcpPort, address |-> McpInetAddr(config.bindAddr)]

\* SerialBackendOpen: the way is chosen before anything is opened, and the one
\* does not stand in for the other.
SerialBackendOpen(config, host, world) ==
    IF IsWin32s(host)
    THEN IF UartBase(config.link.port) # "none" /\ world.uart
         THEN [kind |-> "uart", base |-> UartBase(config.link.port)] ELSE NoLink
    ELSE IF world.serial THEN [kind |-> "serial", port |-> config.link.port] ELSE NoLink

\* TransportOpen: the transport asked for, which for a pipe has no backend; then,
\* under /AUTO, the serial port.
TransportOpen(config, host, world) ==
    LET wanted == CASE config.link.transport = "tcp" -> TcpBackendOpen(config, world)
                    [] config.link.transport = "serial" -> SerialBackendOpen(config, host, world)
                    [] config.link.transport = "pipe" -> NoLink
    IN  IF wanted = NoLink /\ config.link.autodetect THEN SerialBackendOpen(config, host, world) ELSE wanted

\* main, up to its first connection.
Start(config, host, world) ==
    IF config.link = NoTransport THEN NoLink ELSE TransportOpen(config, host, world)

-----------------------------------------------------------------------------

Spelled(digits) == FoldLeft(LAMBDA n, d : n * 10 + DigitValue(d), 0, digits)
IsNumber(text) == text # <<>> /\ ToSet(text) \subseteq Digits

\* An argument is what stands between blanks; one is the flag's if it is its name
\* alone or with a value behind a colon.
Given(line, flag) ==
    SelectSeq(Parts(line, Blank), LAMBDA w :
        Len(w) >= 2 /\ w[1] = Switch /\ w[2] = flag /\ (Len(w) = 2 \/ w[3] = Colon))
Valued(line, flag) == SelectSeq(Given(line, flag), LAMBDA w : Len(w) > 2)
ValueGiven(line, flag, room) ==
    IF Valued(line, flag) = <<>> THEN <<>>
    ELSE LET w == Valued(line, flag)[1] IN SubSeq(w, 4, Min({Len(w), room + 2}))

Asked(line) ==
    {t \in {"serial", "tcp", "pipe"} : Valued(line, t) # <<>>} \cup {t \in {"auto"} : Given(line, t) # <<>>}

\* The TCP port that is asked for by one flag alone.
PortIsRead(flag, given, valued, digits, link) ==
    /\ link # NoTransport => link.transport = "tcp" /\ link.tcpPort \in 1..PortMax
    /\ given = 1 /\ IsNumber(digits) /\ Spelled(digits) < IntHalf => link = Tcp(Spelled(digits), flag = "auto")
    /\ valued = 0 => link = Tcp(DefaultPort, TRUE)

\* A command line whose values hold no switch sets what its arguments say: a mode
\* is on exactly if it is an argument, a value is the one that was given, and a
\* port is the number it spells unless its digits leave an int.  Whatever the
\* values hold, a mode that was asked for is on.
CommandLineIsRead(line, config) ==
    /\ Given(line, "unsafe") # <<>> => config.unsafeMode
    /\ (\A w \in ToSet(Parts(line, Blank)) : \A k \in 2..Len(w) : w[k] # Switch) =>
         /\ config.unsafeMode => Given(line, "unsafe") # <<>>
         /\ config.allowMemWrite <=> Given(line, "allowmemwrite") # <<>>
         /\ config.catalogPath = ValueGiven(line, "catalog", PathRoom)
         /\ config.auditPath = ValueGiven(line, "audit", PathRoom)
         /\ Asked(line) = {} => config.link = Serial(Com1)
         /\ Asked(line) = {"serial"} => config.link = Serial(ValueGiven(line, "serial", NameRoom))
         /\ \A flag \in {"tcp", "auto"} : Asked(line) = {flag} =>
              PortIsRead(flag, Len(Given(line, flag)), Len(Valued(line, flag)), ValueGiven(line, flag, PortRoom), config.link)

IsOctet(text) == IsNumber(text) /\ Spelled(text) < 256
ListensAt(octets, address) ==
    Len(octets) = 4 /\ (\A i \in 1..4 : IsOctet(octets[i])) => address = [i \in 1..4 |-> Spelled(octets[i])]

\* A device that listens does so at the address it was given if that is one, and
\* the serial line stands in only under /AUTO and only when TCP does not work; the
\* UART is driven by port I/O exactly where the host has no other way, and at the
\* port named; and a start that fails could not do otherwise.
OpensAsAsked(line, config, host, world, direct, link) ==
    /\ link.kind = "tcp" => ListensAt(Parts(config.bindAddr, Dot), link.address)
    /\ link.kind \in {"serial", "uart"} =>
         config.link.transport = "serial" \/ (Given(line, "auto") # <<>> /\ world.tcp # "works")
    /\ link.kind = "uart" /\ Len(config.link.port) = 2 => config.link.port = <<"com", link.base>>
    /\ host.threads \/ direct =>
         /\ link.kind = "uart" => direct
         /\ link.kind = "serial" => ~direct
         /\ link.kind = "none" /\ config.link.transport = "tcp" => world.tcp # "works"
         /\ link.kind = "none" /\ (config.link.transport = "serial"
                                   \/ (config.link.transport = "tcp" /\ config.link.autodetect)) =>
              IF direct THEN ~(world.uart /\ config.link.port \in {<<"com", d>> : d \in {"1", "2", "3", "4"}})
              ELSE ~world.serial

ServesAsAsked(line, config, hosts) ==
    \A host \in hosts, world \in Worlds :
      OpensAsAsked(line, config, host, world, ~host.nt /\ host.major = 3, Start(config, host, world))

StartsAsAsked(line, config, hosts) == CommandLineIsRead(line, config) /\ ServesAsAsked(line, config, hosts)
===============================================================================
