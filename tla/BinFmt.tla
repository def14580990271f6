-------------------------------- MODULE BinFmt --------------------------------
(***************************************************************************)
(* binfmt.c: which kind of program a name stands for, which decides whether *)
(* its run is ended at its timeout.  A file's bytes are numbers below Base; *)
(* the offset in its header is a field of two of them, signed.              *)
(***************************************************************************)
EXTENDS Integers, Sequences, SequencesExt

CONSTANTS
    Base,           \* 256
    DosSize,        \* 0x40, the DOS header, whose last field is the offset
    ReadBytes       \* BINFMT_READ_BYTES, 512

ASSUME BinFmtAssumption ==
    Base \in Nat /\ Base > 5 /\ DosSize \in Nat /\ DosSize >= 4 /\ ReadBytes \in Nat /\ ReadBytes > DosSize

MZ == <<1, 2>>
NE == <<3, 4>>
PE == <<5, 4, 0, 0>>
Wrap(n) == LET m == n % (Base * Base) IN IF 2 * m < Base * Base THEN m ELSE m - Base * Base
Offset(file) == Wrap(file[DosSize - 1] + Base * file[DosSize])
Says(file, offset, magic) ==
    Len(file) >= offset + Len(magic) /\ SubSeq(file, offset + 1, offset + Len(magic)) = magic

-----------------------------------------------------------------------------

\* The sum of an offset near the top and 2 overflows: a build that wraps reads
\* far outside the buffer, one that does not finds the offset too large.
NewHeader(buf) ==
    IF Offset(buf) < DosSize THEN {"mz"}
    ELSE IF Wrap(Offset(buf) + 2) < 0 THEN {"mz", "ne16", "pe32", "fault"}
    ELSE IF Says(buf, Offset(buf), PE) THEN {"pe32"}
    ELSE IF Says(buf, Offset(buf), NE) THEN {"ne16"} ELSE {"mz"}

FirstBytes(file) == SubSeq(file, 1, IF Len(file) < ReadBytes THEN Len(file) ELSE ReadBytes)

\* Faulty variant of HeaderClasses: a file without the whole DOS header is no program.
HeaderClassesWhole(file) ==
    LET buf == FirstBytes(file)
    IN  IF ~Says(buf, 0, MZ) \/ Len(buf) < DosSize THEN {"unknown"} ELSE NewHeader(buf)

\* classify_from_header, of a file that could be read: the classes it can come to.
HeaderClasses(file) ==
    LET buf == FirstBytes(file)
    IN  IF ~Says(buf, 0, MZ) THEN {"unknown"}
        ELSE IF Len(buf) < DosSize THEN {"mz"} ELSE NewHeader(buf)

\* map_scs, by what GetBinaryType calls a program.
ScsClass == [win32 |-> "pe32", win64 |-> "pe32", dos |-> "mz", wow |-> "ne16", os2 |-> "ne16",
             pif |-> "unknown", posix |-> "unknown"]

\* A host, as far as a name's class depends on it: whether its file is in the
\* server's directory or on the path only, what the kernel's classifier says, and
\* whether the file can be read.
Lookups(answers) == [found : {"here", "on path", "nowhere"}, kernel : {"absent", "fails"} \cup answers, readable : BOOLEAN]

Opens(name) == IF name = "bare" THEN {"here", "on path"} ELSE {"here"}

\* BinFmtClassify.  A name with a separator or an extension is opened as it is;
\* a bare one is searched for, and is the shell's when no file has it.
Classify(name, host, file) ==
    IF name = "bare" /\ host.found = "nowhere" THEN {"shell"}
    ELSE IF host.kernel \in DOMAIN ScsClass THEN {ScsClass[host.kernel]}
    ELSE IF host.readable /\ host.found \in Opens(name)
    THEN HeaderClasses(file)
    ELSE {"unknown"}

\* What TimeoutTerminate spares: the shared VDM would go down with it.
Spared(class) == class \in {"ne16", "mz"}

-----------------------------------------------------------------------------

\* What a file is to the system that starts it.
Kind(file) ==
    IF ~Says(file, 0, MZ) THEN "other"
    ELSE IF Len(file) < DosSize THEN "mz"
    ELSE IF Offset(file) >= DosSize /\ Says(file, Offset(file), PE) THEN "pe32"
    ELSE IF Offset(file) >= DosSize /\ Says(file, Offset(file), NE) THEN "ne16" ELSE "mz"
AnswersFor(kind) ==
    CASE kind = "pe32" -> {"win32", "win64"} [] kind = "mz" -> {"dos"}
      [] kind = "ne16" -> {"wow", "os2"} [] kind = "other" -> {"pif", "posix"}

\* A header of the given size and offset, with a magic where the offset says.
Program(size, offset, magic) ==
    LET at == Wrap(offset)
        whole == [i \in 1..size |->
            IF i <= 2 THEN MZ[i]
            ELSE IF i = DosSize - 1 THEN offset % Base
            ELSE IF i = DosSize THEN offset \div Base
            ELSE IF i > DosSize /\ i - at \in DOMAIN magic THEN magic[i - at] ELSE 0]
    IN  whole

\* A 16-bit program is spared at its timeout and a 32-bit one is not, however
\* small or odd its header, where its file was found and read, its offset does
\* not overflow, and the new header of a 32-bit one is in the bytes read.
BinaryIsTold(size, offset) ==
    \A magic \in {MZ, NE, PE} :
      LET file == Program(size, offset, magic)
          kind == Kind(file)
      IN  \A name \in {"path", "extension", "bare"}, host \in Lookups(AnswersFor(kind)) :
            LET told == Classify(name, host, file)
                asked == host.kernel \in DOMAIN ScsClass
                read == host.readable /\ host.found \in Opens(name)
                overflows == Len(file) >= DosSize /\ Offset(file) + 2 # Wrap(Offset(file) + 2)
            IN  ((asked /\ host.found # "nowhere") \/ (read /\ ~overflows)) =>
                  /\ kind \in {"mz", "ne16"} => \A class \in told : Spared(class)
                  /\ kind = "pe32" /\ (asked \/ Offset(file) + Len(PE) <= ReadBytes) => told = {"pe32"}
===============================================================================
