------------------------------- MODULE JsonLine -------------------------------
(***************************************************************************)
(* json_parser.c: the one-line JSON objects of the wire.  A character is a  *)
(* symbol; a key and the words true, false and null are one symbol each.    *)
(***************************************************************************)
EXTENDS Symbols

CONSTANTS
    Size,       \* string field -> its buffer, terminating NUL included
    Ints,       \* keys of the integer fields
    Bools,      \* keys of the Boolean fields
    MaxArgv,    \* MCP_MAX_ARGV
    ArgSize,    \* MCP_MAX_ARG_LEN
    IntLimit    \* 214748364: a number that reached it takes no further digit

Strings == DOMAIN Size

ASSUME JsonAssumption ==
    /\ \A f \in Strings : Size[f] \in Nat \ {0}
    /\ MaxArgv \in Nat /\ ArgSize \in Nat \ {0}
    /\ IntLimit \in Nat \ {0}

Radix == 10

Control == "control"        \* below 0x20 and without a short escape
NewLine == "newline"        \* stands for the six characters that have one
Short == [newline |-> "n", quote |-> Quote, backslash |-> Slash]
Escape == [n |-> NewLine, quote |-> Quote, backslash |-> Slash]
LongForm == <<Slash, "u", "0", "0", "1", "f">>

-----------------------------------------------------------------------------
(* Strings *)

Cut(seq, n) == SubSeq(seq, 1, IF Len(seq) <= n THEN Len(seq) ELSE n)

\* json_unescape: an unknown escape is kept as it is; the field's size cuts.
Unescape(raw, size) ==
    LET Put(s, i) ==
            IF s.skip \/ Len(s.out) >= size - 1 THEN [s EXCEPT !.skip = FALSE]
            ELSE IF raw[i] # Slash \/ i = Len(raw) THEN [s EXCEPT !.out = Append(@, raw[i])]
            ELSE [out |-> IF raw[i + 1] \in DOMAIN Escape THEN Append(s.out, Escape[raw[i + 1]])
                          ELSE s.out \o Cut(<<Slash, raw[i + 1]>>, size - 1 - Len(s.out)),
                  skip |-> TRUE]
    IN  FoldLeft(Put, [out |-> <<>>, skip |-> FALSE], [i \in DOMAIN raw |-> i]).out

TooLong == <<"too long">>
EscapeOf(c) == IF c \in DOMAIN Short THEN <<Slash, Short[c]>>
               ELSE IF c = Control THEN LongForm ELSE <<c>>
JsonEscape(text, room) ==
    LET escaped == FlattenSeq([i \in DOMAIN text |-> EscapeOf(text[i])])
    IN  IF Len(escaped) <= room - 1 THEN escaped ELSE TooLong

-----------------------------------------------------------------------------
(* ParseJsonCommand *)

Zeroed == [text |-> [f \in Strings |-> <<>>], int |-> [f \in Ints |-> 0],
           bool |-> [f \in Bools |-> FALSE], argv |-> <<>>]

\* What is read (at), the key and the raw value so far, and the command.
Parsing == [at |-> "open", key |-> <<>>, raw |-> <<>>, slash |-> FALSE,
            negative |-> FALSE, acc |-> 0, cmd |-> Zeroed]

Refused(s) == [s EXCEPT !.at = "refused"]
Key(s) == IF Len(s.key) = 1 THEN s.key[1] ELSE "unknown"

AssignField(s) ==
    [s EXCEPT !.at = "members",
              !.cmd.text = [f \in Strings |-> IF f = Key(s) THEN Unescape(s.raw, Size[f]) ELSE @[f]]]

AssignInt(s) ==
    [s EXCEPT !.at = "members",
              !.cmd.int = [f \in Ints |-> IF f # Key(s) THEN @[f]
                                          ELSE IF s.negative THEN -s.acc ELSE s.acc]]

AssignBool(s, v) ==
    [s EXCEPT !.at = "members", !.cmd.bool = [f \in Bools |-> IF f = Key(s) THEN v ELSE @[f]]]

\* Elements past MaxArgv are dropped, and so are those of an unknown array.
AppendArg(s) ==
    [s EXCEPT !.at = "elements",
              !.cmd.argv = IF Key(s) = "argv" /\ Len(@) < MaxArgv
                           THEN Append(@, Unescape(s.raw, ArgSize)) ELSE @]

\* A string ends at a quote no backslash stands before.
Closes(s, c) == c = Quote /\ ~s.slash
InString(s, c) == [s EXCEPT !.raw = Append(@, c), !.slash = (c = Slash /\ ~s.slash)]

Members(s, c) ==
    IF c \in {Blank, "line end", ","} THEN s
    ELSE IF c = "}" THEN [s EXCEPT !.at = "done"]
    ELSE IF c = Quote THEN [s EXCEPT !.at = "key", !.key = <<>>]
    ELSE Refused(s)

\* Faulty variant of AddDigit: the limit is not looked at.
AddDigitUnbounded(acc, d) == acc * Radix + DigitValue(d)

AddDigit(acc, d) == IF acc < IntLimit THEN acc * Radix + DigitValue(d) ELSE acc

Value(s, c) ==
    IF c = Blank THEN s
    ELSE IF c = Quote THEN [s EXCEPT !.at = "string", !.raw = <<>>]
    ELSE IF c = "[" THEN [s EXCEPT !.at = "elements"]
    ELSE IF c = "-" THEN [s EXCEPT !.at = "first digit", !.negative = TRUE]
    ELSE IF c \in Digits THEN [s EXCEPT !.at = "number", !.negative = FALSE, !.acc = DigitValue(c)]
    ELSE IF c \in {"true", "false"} THEN AssignBool(s, c = "true")
    ELSE IF c = "null" THEN [s EXCEPT !.at = "members"]
    ELSE Refused(s)

\* Scalars of any kind may stand in an array no field is known for.
Elements(s, c) ==
    IF c \in {Blank, "line end", ","} THEN s
    ELSE IF c = "]" THEN [s EXCEPT !.at = "members"]
    ELSE IF c = Quote THEN [s EXCEPT !.at = "element", !.raw = <<>>]
    ELSE IF Key(s) = "argv" THEN Refused(s)
    ELSE IF c = "-" THEN [s EXCEPT !.at = "element digit"]
    ELSE IF c \in Digits THEN [s EXCEPT !.at = "element number"]
    ELSE IF c \in {"true", "false", "null"} THEN s
    ELSE Refused(s)

ParseChar(s, c) ==
    CASE s.at \in {"done", "refused"} -> s
      [] s.at = "open" -> IF c \in {Blank, "line end"} THEN s
                          ELSE IF c = "{" THEN [s EXCEPT !.at = "members"] ELSE Refused(s)
      [] s.at = "members" -> Members(s, c)
      [] s.at = "key" -> IF c = Quote THEN [s EXCEPT !.at = "colon"] ELSE [s EXCEPT !.key = Append(@, c)]
      [] s.at = "colon" -> IF c = Blank THEN s ELSE IF c = ":" THEN [s EXCEPT !.at = "value"] ELSE Refused(s)
      [] s.at = "value" -> Value(s, c)
      [] s.at = "string" -> IF Closes(s, c) THEN AssignField(s) ELSE InString(s, c)
      [] s.at = "first digit" -> IF c \in Digits THEN [s EXCEPT !.at = "number", !.acc = DigitValue(c)] ELSE Refused(s)
      [] s.at = "number" -> IF c \in Digits THEN [s EXCEPT !.acc = AddDigit(@, c)]
                            ELSE IF c = "." THEN Refused(s) ELSE Members(AssignInt(s), c)
      [] s.at = "elements" -> Elements(s, c)
      [] s.at = "element" -> IF Closes(s, c) THEN AppendArg(s) ELSE InString(s, c)
      [] s.at = "element digit" -> IF c \in Digits THEN [s EXCEPT !.at = "element number"] ELSE Refused(s)
      [] s.at = "element number" -> IF c \in Digits \cup {"."} THEN s ELSE Elements([s EXCEPT !.at = "elements"], c)

\* What follows the closing brace is not looked at; without one, refused.
ParseJsonCommand(line) ==
    LET s == FoldLeft(ParseChar, Parsing, line) IN [ok |-> s.at = "done", cmd |-> s.cmd]

-----------------------------------------------------------------------------
(* BuildJsonResponse: the id, status and key as they are, the value escaped; a
   value too long to escape becomes empty, a line too long nothing *)

BuildJsonResponse(id, status, key, value, valueRoom, room) ==
    LET escaped == JsonEscape(value, valueRoom)
        line == <<"{", Quote, "id", Quote, ":", Quote>> \o id
             \o <<Quote, ",", Quote, "status", Quote, ":", Quote, status, Quote, ",", Quote, key, Quote, ":", Quote>>
             \o (IF escaped = TooLong THEN <<>> ELSE escaped) \o <<Quote, "}">>
    IN  IF Len(line) < room THEN line ELSE <<>>

-----------------------------------------------------------------------------
(* The other end, which reads and writes JSON as the standard has it *)

\* The strings of a line, in order, with their escapes undone.
StandardStrings(line) ==
    LET Close(s) == [s EXCEPT !.at = "members", !.cmd.argv = Append(@, s.raw)]
        Read(s, c) == IF s.at = "string" THEN IF Closes(s, c) THEN Close(s) ELSE InString(s, c)
                      ELSE IF c = Quote THEN [s EXCEPT !.at = "string", !.raw = <<>>] ELSE s
        raws == FoldLeft(Read, Parsing, line).cmd.argv
        Put(s, c) ==
            IF s.skip > 0 THEN [s EXCEPT !.skip = @ - 1]
            ELSE IF s.slash THEN [out |-> Append(s.out, IF c = "u" THEN Control ELSE Escape[c]),
                                  slash |-> FALSE, skip |-> IF c = "u" THEN 4 ELSE 0]
            ELSE IF c = Slash THEN [s EXCEPT !.slash = TRUE]
            ELSE [s EXCEPT !.out = Append(@, c)]
        Plain(raw) == FoldLeft(Put, [out |-> <<>>, slash |-> FALSE, skip |-> 0], raw).out
    IN  [i \in DOMAIN raws |-> Plain(raws[i])]

Standard(v) ==
    CASE v.kind = "string" -> <<Quote>> \o JsonEscape(v.text, 6 * Len(v.text) + 1) \o <<Quote>>
      [] v.kind = "number" -> (IF v.negative THEN <<"-">> ELSE <<>>) \o v.digits
      [] v.kind \in {"word", "null"} -> <<v.word>>
      [] v.kind = "array" -> <<"[">> \o FlattenSeq([i \in DOMAIN v.args |->
                               (IF i > 1 THEN <<",", Blank>> ELSE <<>>)
                               \o <<Quote>> \o JsonEscape(v.args[i], 6 * Len(v.args[i]) + 1) \o <<Quote>>]) \o <<"]">>
Serialise(doc) ==
    <<"{">> \o FlattenSeq([i \in DOMAIN doc |->
        (IF i > 1 THEN <<",">> ELSE <<>>) \o <<Quote, doc[i].key, Quote, ":", Blank>> \o Standard(doc[i].value)])
    \o <<"}">>

Exact(digits) == FoldLeft(LAMBDA n, d : n * Radix + DigitValue(d), 0, digits)

-----------------------------------------------------------------------------

\* Every field of a request is the last value given for its key, a string cut to
\* the field, an integer exact or smaller and never out of range; keys of no
\* field, and words for a field of another kind, change nothing.  A request cut
\* short anywhere, as an over-long line is, is refused.
RequestIsRead(doc) ==
    LET line == Serialise(doc)
        p == ParseJsonCommand(line)
        Given(f, kinds) == {i \in DOMAIN doc : doc[i].key = f /\ doc[i].value.kind \in kinds}
        Newest(f, kinds) == doc[CHOOSE i \in Given(f, kinds) : \A j \in Given(f, kinds) : j <= i].value
        args == FlattenSeq([i \in DOMAIN doc |-> IF i \in Given("argv", {"array"}) THEN doc[i].value.args ELSE <<>>])
    IN  /\ p.ok
        /\ \A f \in Strings : p.cmd.text[f] = IF Given(f, {"string"}) = {} THEN <<>>
                                              ELSE Cut(Newest(f, {"string"}).text, Size[f] - 1)
        /\ \A f \in Ints :
             IF Given(f, {"number"}) = {} THEN p.cmd.int[f] = 0
             ELSE LET v == Newest(f, {"number"})
                      asked == Exact(v.digits)
                      got == IF v.negative THEN -p.cmd.int[f] ELSE p.cmd.int[f]
                  IN  /\ got \in 0..asked /\ got < IntLimit * Radix
                      /\ asked < IntLimit * Radix => got = asked
        /\ \A f \in Bools : p.cmd.bool[f] = (/\ Given(f, {"word"}) # {}
                                             /\ Newest(f, {"word"}).word = "true")
        /\ p.cmd.argv = Cut([i \in DOMAIN args |-> Cut(args[i], ArgSize - 1)], MaxArgv)
        /\ \A n \in 0..(Len(line) - 1) : ~ParseJsonCommand(SubSeq(line, 1, n)).ok

\* A response whose id needs no escape says exactly what was answered, in every
\* room, or is not sent: no character of a value ends its string early.
ResponseIsRead(value, room) ==
    LET line == BuildJsonResponse(<<"a">>, "ok", "data", value, 6 * Len(value) + 1, room)
    IN  line # <<>> => StandardStrings(line) =
          << <<"id">>, <<"a">>, <<"status">>, <<"ok">>, <<"data">>, value >>
===============================================================================
