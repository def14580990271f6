------------------------------- MODULE ArgvLine -------------------------------
(***************************************************************************)
(* argv.c: from an argument list to the one command line CreateProcess      *)
(* takes, and the escape of a line that goes through the command shell.     *)
(* Characters are symbols; what the program's C runtime and the shell do    *)
(* with the line is external and modelled from the rules argv.c reverses.   *)
(***************************************************************************)
EXTENDS Symbols

Caret == "caret"
Operator == "operator"      \* & | < > ( )
Percent == "percent"        \* names a variable, in quotes too

-----------------------------------------------------------------------------
(* ArgvEscapeArg, ArgvJoin, ArgvCmdEscape; the caller learns -1 when the room is
   too small, and NoLine stands for it *)

NoLine == <<"no line">>
Fit(line, room) == IF Len(line) <= room - 1 THEN line ELSE NoLine

\* Faulty variant of ArgvNeedsQuoting: an empty argument is left out of the line.
NeedsQuotingNonEmpty(arg) == {Blank, Quote} \cap ToSet(arg) # {}

ArgvNeedsQuoting(arg) == arg = <<>> \/ {Blank, Quote} \cap ToSet(arg) # {}

\* Backslashes are doubled before a quote, the closing one too, and only there.
Quoted(arg) ==
    LET Put(s, c) ==
            IF c = Slash THEN [s EXCEPT !.run = @ + 1]
            ELSE IF c = Quote THEN [out |-> s.out \o Times(2 * s.run + 1, Slash) \o <<Quote>>, run |-> 0]
            ELSE [out |-> s.out \o Times(s.run, Slash) \o <<c>>, run |-> 0]
        end == FoldLeft(Put, [out |-> <<Quote>>, run |-> 0], arg)
    IN  end.out \o Times(2 * end.run, Slash) \o <<Quote>>

ArgvEscapeArg(arg) == IF ArgvNeedsQuoting(arg) THEN Quoted(arg) ELSE arg

ArgvJoin(argv, room) ==
    Fit(FlattenSeq([i \in DOMAIN argv |->
          (IF i > 1 THEN <<Blank>> ELSE <<>>) \o ArgvEscapeArg(argv[i])]), room)

ArgvCmdEscape(line, room) ==
    LET Put(s, c) ==
            IF c = Quote THEN [out |-> Append(s.out, c), quoted |-> ~s.quoted]
            ELSE IF c \in {Operator, Caret, Percent} /\ ~s.quoted
            THEN [s EXCEPT !.out = @ \o <<Caret, c>>]
            ELSE [s EXCEPT !.out = Append(@, c)]
    IN  Fit(FoldLeft(Put, [out |-> <<>>, quoted |-> FALSE], line).out, room)

-----------------------------------------------------------------------------
(* The readers: the C runtime (CommandLineToArgvW past the program's name) and
   the command shell *)

ArgvRead(line) ==
    LET Put(s, c) ==
            IF c = Slash THEN [s EXCEPT !.run = @ + 1, !.in = TRUE]
            ELSE IF c = Quote THEN
              LET cur == s.cur \o Times(s.run \div 2, Slash) IN
                IF s.run % 2 = 1 THEN [s EXCEPT !.cur = Append(cur, Quote), !.run = 0, !.in = TRUE]
                ELSE [s EXCEPT !.cur = cur, !.run = 0, !.quoted = ~@, !.in = TRUE]
            ELSE LET cur == s.cur \o Times(s.run, Slash) IN
                IF c # Blank \/ s.quoted THEN [s EXCEPT !.cur = Append(cur, c), !.run = 0, !.in = TRUE]
                ELSE IF s.in THEN [s EXCEPT !.args = Append(@, cur), !.cur = <<>>, !.run = 0, !.in = FALSE]
                ELSE s
        end == FoldLeft(Put, [args |-> <<>>, cur |-> <<>>, run |-> 0, quoted |-> FALSE, in |-> FALSE], line)
    IN  IF end.in THEN Append(end.args, end.cur \o Times(end.run, Slash)) ELSE end.args

\* The line the shell hands on, whether an operator acted on it and whether a
\* variable was expanded in it.
CmdRead(line) ==
    LET Put(s, c) ==
            IF s.caret THEN [s EXCEPT !.line = Append(@, c), !.caret = FALSE]
            ELSE IF c = Quote THEN [s EXCEPT !.line = Append(@, c), !.quoted = ~@]
            ELSE IF c = Caret /\ ~s.quoted THEN [s EXCEPT !.caret = TRUE]
            ELSE [s EXCEPT !.line = Append(@, c),
                           !.operated = @ \/ (c = Operator /\ ~s.quoted),
                           !.expanded = @ \/ c = Percent]
    IN  FoldLeft(Put, [line |-> <<>>, quoted |-> FALSE, caret |-> FALSE,
                       operated |-> FALSE, expanded |-> FALSE], line)

-----------------------------------------------------------------------------

\* The program gets the arguments that were asked for, as many and as they were,
\* on either route: no quote, backslash or blank in one moves a boundary, no
\* operator reaches the shell, and it expands a variable only where some argument
\* needs quotes.  A line that does not fit is refused, never cut.
ArgumentsArrive(argv, room) ==
    LET line == ArgvJoin(argv, room)
        tail == ArgvCmdEscape(line, room)
        read == CmdRead(tail)
    IN  line # NoLine =>
          /\ ArgvRead(line) = argv
          /\ tail # NoLine => /\ read.line = line
                              /\ ~read.operated
                              /\ read.expanded =>
                                   /\ \E i \in DOMAIN argv : Percent \in ToSet(argv[i])
                                   /\ \E i \in DOMAIN argv : ArgvNeedsQuoting(argv[i])
===============================================================================
