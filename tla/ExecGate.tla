------------------------------- MODULE ExecGate -------------------------------
(***************************************************************************)
(* HandleExec of mcp-w32s.c from the request to the command line it spawns: *)
(* the refusals in their order, the catalog gate and the two routes, past   *)
(* the busy domain and before the spawn.                                    *)
(***************************************************************************)
EXTENDS Catalog, ArgvLine

CONSTANTS
    LineRoom,       \* the buffers of a command line, 32768
    ShellMax,       \* EXEC_SHELL_CMDLINE_MAX, 8192
    DirectMax       \* 32766

ASSUME ExecGateAssumption ==
    LineRoom \in Nat /\ ShellMax \in Nat /\ DirectMax \in Nat /\ DirectMax < LineRoom

\* The server's side: its catalog, /UNSAFE, the host; and what a request adds
\* besides its arguments.
Sessions(catalogs) ==
    [catalog : catalogs \cup {NoCatalog}, unsafeMode : BOOLEAN, win32s : BOOLEAN, hasPty : BOOLEAN]
Stdins == {"none", "decoded", "invalid", "too large"}
Requests(argvs, lines, stdins) ==
    [argv : argvs, line : lines, stdin : stdins,
     pty : BOOLEAN, shell : BOOLEAN, unsafe : BOOLEAN]

ShellPrefix(win32s) == IF win32s THEN <<"command.com">> ELSE <<"cmd.exe">>

-----------------------------------------------------------------------------

\* argv[0], or the line up to its first blank.
CommandName(req) ==
    IF req.argv # <<>> THEN req.argv[1]
    ELSE LET stop == SelectInSeq(req.line, LAMBDA c : c = Blank)
         IN  IF stop = 0 THEN req.line ELSE SubSeq(req.line, 1, stop - 1)

Enforced(session, req) == ~req.unsafe /\ ~session.unsafeMode /\ session.catalog # NoCatalog
EntryOf(session, req) ==
    IF Enforced(session, req) THEN CatalogLookup(session.catalog, CommandName(req)) ELSE NoEntry
Builtin(session, req) == EntryOf(session, req) # NoEntry /\ EntryOf(session, req).builtin
ViaShell(session, req) == req.shell \/ Builtin(session, req)

\* The catalog's own shell string stands for the command's name only when the
\* request is an argument list.
UsesBuiltinPrefix(session, req) == Builtin(session, req) /\ req.argv # <<>>

\* The part of the line that comes from the request, joined but not yet escaped.
Joined(session, req) ==
    IF req.argv = <<>> THEN req.line
    ELSE ArgvJoin(IF UsesBuiltinPrefix(session, req) THEN SubSeq(req.argv, 2, Len(req.argv))
                  ELSE req.argv, LineRoom)

\* Faulty variant of RequestTail: a builtin's arguments are taken for trusted.
TailUnescaped(session, req) ==
    IF UsesBuiltinPrefix(session, req) THEN Joined(session, req)
    ELSE ArgvCmdEscape(Joined(session, req), LineRoom)

RequestTail(session, req) == ArgvCmdEscape(Joined(session, req), LineRoom)

Prefix(session, req) ==
    IF ~UsesBuiltinPrefix(session, req) THEN ShellPrefix(session.win32s)
    ELSE IF session.win32s THEN EntryOf(session, req).shellWin32s ELSE EntryOf(session, req).modern

CommandLine(session, req) ==
    IF ~ViaShell(session, req) THEN Joined(session, req)
    ELSE Prefix(session, req) \o (IF RequestTail(session, req) = <<>> THEN <<>>
                                  ELSE <<Blank>> \o RequestTail(session, req))

TooLongLine(session, req) ==
    \/ ViaShell(session, req) /\ RequestTail(session, req) = NoLine
    \/ Len(CommandLine(session, req)) >= LineRoom
    \/ Len(CommandLine(session, req)) > (IF ViaShell(session, req) THEN ShellMax ELSE DirectMax)

\* What the client is told, the first refusal HandleExec comes to, or "run".
Told(session, req) ==
    IF CommandName(req) = <<>> THEN "empty command line"
    ELSE IF req.stdin = "invalid" THEN "invalid base64"
    ELSE IF req.stdin = "too large" THEN "stdin too large"
    ELSE IF req.pty /\ ~session.hasPty THEN "pty not available"
    ELSE IF Enforced(session, req) /\ EntryOf(session, req) = NoEntry THEN "command not in catalog"
    ELSE IF Enforced(session, req) /\ req.argv # <<>> /\ ~CatalogValidateArgs(EntryOf(session, req), req.argv)
         THEN "argument not allowed"
    ELSE IF Joined(session, req) = NoLine THEN "invalid argv"
    ELSE IF TooLongLine(session, req) THEN "command line too long"
    ELSE "run"

Runs(session, req) == Told(session, req) = "run"

-----------------------------------------------------------------------------

\* The arguments the program ends up with: on the shell's route, what the shell
\* makes of the tail, read by the program's runtime.
SeenArgs(session, req) ==
    ArgvRead(IF ViaShell(session, req) THEN CmdRead(RequestTail(session, req)).line
             ELSE CommandLine(session, req))

\* The shell hands a tail on as it is unless the tail is all that follows its /c
\* and begins with a quote, or a percent sign stands within its quotes.
PlainTail(session, req) ==
    LET tail == RequestTail(session, req) IN
      /\ ~UsesBuiltinPrefix(session, req) => tail = <<>> \/ tail[1] # Quote
      /\ ~CmdRead(tail).expanded

\* Behind an enforced catalog runs what the gate let pass and nothing else: a
\* catalogued command, with the argument list that was looked at, none of its
\* tokens split, joined or acted on by the shell, and no flag its entry lacks;
\* unless the request or the operator asked otherwise, and then the program gets
\* its arguments just the same.
RunsWhatPassed(session, req) ==
    Runs(session, req) =>
      /\ ViaShell(session, req) => ~CmdRead(RequestTail(session, req)).operated
      /\ req.argv # <<>> /\ (ViaShell(session, req) => PlainTail(session, req)) =>
           SeenArgs(session, req) = IF UsesBuiltinPrefix(session, req) THEN SubSeq(req.argv, 2, Len(req.argv))
                                    ELSE req.argv
      /\ Enforced(session, req) =>
           \E i \in DOMAIN session.catalog :
             LET e == session.catalog[i] IN
               /\ SameText(e.name, CommandName(req))
               /\ e.builtin => ViaShell(session, req)
               /\ \A k \in 2..Len(req.argv) : IsFlagToken(req.argv[k]) =>
                    \E o \in ToSet(e.options) :
                      \/ SameText(o.flag, req.argv[k])
                      \/ o.hasArg /\ IsPrefix(Fold(o.flag), Fold(req.argv[k]))

\* The gate only refuses: a request it lets pass tells the program the same, on the
\* same route, with the whitelist off.  A builtin is the exception, which only the
\* gate sends through the shell.
GateOnlyRefuses(session, req) ==
    LET off == [session EXCEPT !.unsafeMode = TRUE] IN
      Runs(session, req) /\ Enforced(session, req) /\ ~Builtin(session, req) =>
        Runs(off, req) /\ CommandLine(off, req) = CommandLine(session, req)
===============================================================================
