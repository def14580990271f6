-------------------------------- MODULE Codecs --------------------------------
(***************************************************************************)
(* The pure parts of both programs, over every input up to a bound.  A      *)
(* behaviour picks one subject and grows one input for it, piece by piece;  *)
(* the properties compare what the code computes of the input with what it  *)
(* should.                                                                  *)
(***************************************************************************)
EXTENDS Base64, ExecGate, JsonLine, Encoding, MemRange, AuditFile, BinFmt, Startup

CONSTANTS
    Alphabet,   \* subject -> the pieces its inputs are made of
    MaxLen,     \* subject -> bound on an input
    Room,       \* sizes of the buffer a result goes to
    Catalogs,   \* the catalogs a gate may enforce
    Startups,   \* the hosts a device may start on
    VersionMax, \* as in Toolchain
    BuildArgv,  \* the limits a build's call meets: elements,
    BuildArg,   \* the size of one,
    BuildLine   \* and the length of its command line

\* What the inputs of a subject are made of, where it is not left open: digits and
\* the mark of a hexadecimal, the halves of a range, the calls of the audit log, the
\* size and the offset of a header, arguments, and the entries of a catalog.
Pieces == [number |-> 0..HexMark, range |-> Addresses, exec |-> CatalogText, catalog |-> CatalogEntry,
           audit |-> [len : Nat, fault : Faults], program |-> Nat]

ASSUME CodecsAssumption ==
    /\ MaxLen \in [DOMAIN Alphabet -> Nat] /\ Room \subseteq Nat /\ Catalogs \subseteq Seq(CatalogEntry)
    /\ \A s \in DOMAIN Pieces \cap DOMAIN Alphabet : Alphabet[s] \subseteq Pieces[s]

VARIABLES subject, input

inputVars == <<subject, input>>

InputInit == subject \in DOMAIN Alphabet /\ input = <<>>

Grow ==
    /\ Len(input) < MaxLen[subject]
    /\ \E c \in Alphabet[subject] : input' = Append(input, c)
    /\ UNCHANGED subject

InputSpec == InputInit /\ [][Grow]_inputVars

\* The build tools, whose lines are longer than those of the other subjects.
Build == INSTANCE Toolchain WITH
    MaxArgv <- BuildArgv, ArgSize <- BuildArg,
    LineRoom <- BuildLine, ShellMax <- BuildLine, DirectMax <- BuildLine

-----------------------------------------------------------------------------
(* Properties *)

\* Base64Decode takes a text whole or not at all, unless it has padding inside,
\* which base64.h says is refused and is not; and it undoes Base64Encode.  A
\* request's fields are what its JSON says, cut to their size and never past an
\* integer's range, a torn request is refused; a response reads back as it was.
\* A catalog is loaded whole or not at all.
WireSound ==
    /\ subject = "text" => \A room \in Room : DecodeIsExact(input, room)
    /\ subject = "bytes" => EncodeIsReversed(input)
    /\ subject = "request" => RequestIsRead(input)
    /\ subject = "value" => \A room \in 30..50 : ResponseIsRead(input, room)
    /\ subject = "catalog" => CatalogIsWhole(input)

\* The text codecs take any input, and what leaves the device is UTF-8 that says
\* what came in, whatever the windows, buffers and code pages between.
TextSound ==
    /\ subject = "utf8" => \A cap \in 0..6 : DecodingIsTotal(input, cap)
    /\ subject = "utf16" => \A cap \in 0..9 : EncodingIsValid(input, cap)
    /\ subject = "stream" => \A cap \in {4, 100} : WireIsText(Utf8Id, input, cap)
    /\ subject = "page" => \A cp \in DOMAIN Pages \cup {0} : \A cap \in {3, 100} : WireIsText(cp, input, cap)
    /\ subject = "units" => \A cp \in DOMAIN Pages : \A cap \in {2, 100} : NarrowingIsStrict(cp, input, cap)
    /\ subject = "path" => \A host \in Hosts : PathIsWhole(host, input)

LineOf(tokens) ==
    FlattenSeq([i \in DOMAIN tokens |-> (IF i > 1 THEN <<Blank>> ELSE <<>>) \o tokens[i]])

\* A catalog allows what its listing offers, and refuses a flag that is not on it;
\* and what an enforced catalog lets run is what it looked at.
GateSound ==
    /\ subject = "catalog" => \A room \in Room \cup {1000} : ListedIsAllowed(input, room)
    /\ subject = "exec" =>
         \A session \in Sessions(Catalogs), req \in Requests({input, <<>>}, {LineOf(input)}, {"decoded"}) :
           RunsWhatPassed(session, req) /\ GateOnlyRefuses(session, req)

\* Memory is touched only where the request and the region both allow, and an
\* address of the wire is the number it spells.
RangeSound ==
    /\ subject = "number" => ParseIsExact(input)
    /\ subject = "range" /\ Len(input) = 2 =>
         \A region \in Regions : AccessStaysInRegion(region, input[1], input[2])

\* The build tools offered are those of the compilers the device found, whatever
\* was registered; and a compiler is given the elements its call spells.
ToolchainSound ==
    /\ subject = "banner" => Build!ToolsMatchDevice(input)
    /\ subject = "registry" => Build!RegistryIsCatalogued(input)
    /\ subject = "build" => Build!BuildArrives(input)

\* The audit log keeps the last of what was written, whole and within its size.
AuditSound == subject = "audit" => AuditIsKept(input)

\* A program is told from its file as what it runs as, and gets the argument list
\* its command line was made from, through the shell or without it.
ProgramSound ==
    /\ subject = "program" /\ Len(input) = 2 => BinaryIsTold(input[1], input[2])
    /\ subject = "argv" => \A room \in Room \cup {100} : ArgumentsArrive(Parts(input, "next"), room)

\* A device is started as its command line says, with the link it names, and
\* drives the chip itself only where the host leaves it no other way.
StartSound ==
    subject = "start" =>
      StartsAsAsked(FlattenSeq(input), ParseCommandLine(FlattenSeq(input)), Startups)
===============================================================================
