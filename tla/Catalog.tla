-------------------------------- MODULE Catalog --------------------------------
(***************************************************************************)
(* catalog.c: the whitelist of commands, its loader and its look-ups.  The  *)
(* file is a sequence of tokens: a bracket, a colon, a comma, a literal or  *)
(* a string; a string's value is a sequence of symbols.                     *)
(***************************************************************************)
EXTENDS Symbols

CONSTANTS
    MaxEntries,     \* CATALOG_MAX_ENTRIES
    MaxOptions,     \* CATALOG_MAX_OPTIONS
    NameLen,        \* CATALOG_NAME_LEN, terminating NUL included
    FlagLen,        \* CATALOG_FLAG_LEN
    FileMax         \* CATALOG_FILE_MAX

ASSUME CatalogAssumption ==
    /\ MaxEntries \in Nat \ {0} /\ MaxOptions \in Nat \ {0}
    /\ NameLen \in Nat \ {0} /\ FlagLen \in Nat \ {0} /\ FileMax \in Nat

CatalogText == Seq(STRING)
CatalogOption == [flag : CatalogText, hasArg : BOOLEAN]
CatalogEntry == [name : CatalogText, builtin : BOOLEAN, win32s : BOOLEAN,
                 modern : CatalogText, shellWin32s : CatalogText, options : Seq(CatalogOption)]

NoCatalog == <<>>
NoOption == [flag |-> <<>>, hasArg |-> FALSE]
NoEntry == [name |-> <<>>, builtin |-> FALSE, win32s |-> FALSE,
            modern |-> <<>>, shellWin32s |-> <<>>, options |-> <<>>]

-----------------------------------------------------------------------------
(* CatalogLoad.  Where the scanner stands: the containers it is in, innermost
   last, and what comes next in the last one. *)

Token(t) == [t |-> t, v |-> <<>>]
Text(v) == [t |-> "string", v |-> v]

Scanner == [in |-> <<"top">>, at |-> "open", key |-> <<>>, name |-> <<>>,
            entry |-> NoEntry, option |-> NoOption, entries |-> <<>>]

ScanFailed(s) == [s EXCEPT !.at = "failed"]
Inside(s) == s.in[Len(s.in)]
IsArray(s) == Inside(s) \in {"options", "skipped array"}
CutField(v, size) == SubSeq(v, 1, IF Len(v) < size THEN Len(v) ELSE size - 1)

Enter(s, container, at) == [s EXCEPT !.in = Append(@, container), !.at = at]

\* A container that ends is stored; a document's end is the end of the scan.
Leave(s) ==
    LET outer == [s EXCEPT !.in = SubSeq(@, 1, Len(@) - 1), !.at = "after"] IN
      CASE Inside(s) = "top" -> [s EXCEPT !.at = "done"]
        [] Inside(s) = "option" -> [outer EXCEPT !.entry.options = Append(@, s.option)]
        [] Inside(s) = "entry" -> [outer EXCEPT !.entries = Append(@, [s.entry EXCEPT !.name = s.name])]
        [] OTHER -> outer

\* A comma goes on and a closing bracket ends; a literal may be missing, so both
\* may come where a value is skipped.
After(s, tok) ==
    IF tok.t = "," THEN [s EXCEPT !.at = IF IsArray(s) THEN "value" ELSE "key"]
    ELSE IF tok.t = (IF IsArray(s) THEN "]" ELSE "}") THEN Leave(s)
    ELSE ScanFailed(s)

SkipValue(s, tok) ==
    CASE tok.t = "{" -> Enter(s, "skipped object", "first")
      [] tok.t = "[" -> Enter(s, "skipped array", "first")
      [] tok.t \in {",", "]", "}"} -> After(s, tok)
      [] OTHER -> [s EXCEPT !.at = "after"]

Stored(s, tok, next) == IF tok.t = "string" THEN [next EXCEPT !.at = "after"] ELSE ScanFailed(s)

EntryValue(s, tok) ==
    CASE s.key = <<"kind">> -> Stored(s, tok, [s EXCEPT !.entry.builtin = tok.v = <<"shell-builtin">>])
      [] s.key = <<"shell_modern">> -> Stored(s, tok, [s EXCEPT !.entry.modern = tok.v])
      [] s.key = <<"shell_win32s">> -> Stored(s, tok, [s EXCEPT !.entry.shellWin32s = tok.v])
      [] s.key = <<"supports_win32s">> -> SkipValue([s EXCEPT !.entry.win32s = @ \/ tok.t = "true"], tok)
      [] s.key = <<"options">> -> IF tok.t = "[" THEN Enter(s, "options", "first") ELSE ScanFailed(s)
      [] OTHER -> SkipValue(s, tok)

\* A document may hold no more entries than there is room for; an entry's options
\* past the room are skipped.
ScanValue(s, tok) ==
    CASE Inside(s) = "top" /\ s.key = <<"commands">> ->
           IF tok.t = "{" THEN Enter(s, "commands", "first") ELSE ScanFailed(s)
      [] Inside(s) = "commands" ->
           IF Len(s.entries) < MaxEntries /\ tok.t = "{"
           THEN Enter([s EXCEPT !.entry = NoEntry, !.name = CutField(s.key, NameLen)], "entry", "first")
           ELSE ScanFailed(s)
      [] Inside(s) = "entry" -> EntryValue(s, tok)
      [] Inside(s) = "options" /\ Len(s.entry.options) < MaxOptions ->
           IF tok.t = "{" THEN Enter([s EXCEPT !.option = NoOption], "option", "first") ELSE ScanFailed(s)
      [] Inside(s) = "option" /\ s.key = <<"flag">> ->
           Stored(s, tok, [s EXCEPT !.option.flag = CutField(tok.v, FlagLen)])
      [] Inside(s) = "option" /\ s.key = <<"arg">> -> SkipValue([s EXCEPT !.option.hasArg = TRUE], tok)
      [] OTHER -> SkipValue(s, tok)

KeyNext(s, tok) ==
    IF tok.t = "string" THEN [s EXCEPT !.at = "colon", !.key = tok.v] ELSE ScanFailed(s)

ScanToken(s, tok) ==
    CASE s.at \in {"done", "failed"} -> s
      [] s.at = "open" -> IF tok.t = "{" THEN [s EXCEPT !.at = "first"] ELSE ScanFailed(s)
      [] s.at = "first" -> IF tok.t = (IF IsArray(s) THEN "]" ELSE "}") THEN Leave(s)
                           ELSE IF IsArray(s) THEN ScanValue(s, tok) ELSE KeyNext(s, tok)
      [] s.at = "key" -> KeyNext(s, tok)
      [] s.at = "colon" -> IF tok.t = ":" THEN [s EXCEPT !.at = "value"] ELSE ScanFailed(s)
      [] s.at = "value" -> ScanValue(s, tok)
      [] s.at = "after" -> After(s, tok)

\* Faulty variant of CatalogLoad: what was scanned before a fault is kept.
CatalogLoadPartial(file) ==
    LET s == FoldLeft(ScanToken, Scanner, file)
    IN  IF Len(file) >= FileMax THEN NoCatalog ELSE s.entries

\* A file that is too large or malformed, or names no command, gives no catalog.
CatalogLoad(file) ==
    LET s == FoldLeft(ScanToken, Scanner, file)
    IN  IF Len(file) >= FileMax \/ s.at # "done" THEN NoCatalog ELSE s.entries

-----------------------------------------------------------------------------
(* CatalogLookup and CatalogValidateArgs: letters compare without their case *)

Lower == [S |-> "s", D |-> "d"]
Fold(v) == [i \in DOMAIN v |-> IF v[i] \in DOMAIN Lower THEN Lower[v[i]] ELSE v[i]]
SameText(v, w) == Fold(v) = Fold(w)

CatalogLookup(cat, name) ==
    LET first == SelectInSeq(cat, LAMBDA e : SameText(e.name, name))
    IN  IF first = 0 THEN NoEntry ELSE cat[first]

FlagSign == "sign"          \* / or -
IsFlagToken(tok) == tok # <<>> /\ tok[1] = FlagSign

\* A flag that declares an argument may have its value glued to it.
Takes(option, tok) ==
    \/ SameText(option.flag, tok)
    \/ /\ option.hasArg /\ option.flag # <<>> /\ Len(tok) > Len(option.flag)
       /\ SameText(option.flag, SubSeq(tok, 1, Len(option.flag)))

FindOption(entry, tok) ==
    LET first == SelectInSeq(entry.options, LAMBDA o : Takes(o, tok))
    IN  IF first = 0 THEN NoOption ELSE entry.options[first]

\* The token after a flag that takes one is passed over when it is no flag
\* itself, and tokens that are no flags are allowed anyway.
CatalogValidateArgs(entry, argv) ==
    LET Check(s, i) ==
            IF i < s.next \/ ~s.allowed \/ ~IsFlagToken(argv[i]) THEN s
            ELSE LET option == FindOption(entry, argv[i]) IN
              IF option = NoOption THEN [s EXCEPT !.allowed = FALSE]
              ELSE IF /\ option.hasArg /\ SameText(option.flag, argv[i])
                      /\ i < Len(argv) /\ ~IsFlagToken(argv[i + 1])
                   THEN [s EXCEPT !.next = i + 2]
              ELSE s
    IN  entry # NoEntry
        /\ FoldLeft(Check, [allowed |-> TRUE, next |-> 2], [i \in DOMAIN argv |-> i]).allowed

-----------------------------------------------------------------------------
(* CatalogSerializeJson: what is listed of the catalog, nothing when it does not
   fit *)

NoListing == <<>>

Listing(cat, room) ==
    LET items == [i \in DOMAIN cat |->
                    [name |-> cat[i].name, builtin |-> cat[i].builtin, flags |-> cat[i].options]]
        size == FoldLeft(LAMBDA n, e : n + 1 + Len(e.flags), 0, items)
    IN  IF size < room THEN items ELSE NoListing

-----------------------------------------------------------------------------

\* A catalog file, with what a file may hold besides: unknown keys, of any kind.
Braced(parts) ==
    <<Token("{")>> \o FlattenSeq([i \in DOMAIN parts |->
        (IF i > 1 THEN <<Token(",")>> ELSE <<>>) \o <<Text(parts[i].key), Token(":")>> \o parts[i].value])
    \o <<Token("}")>>
Listed(values) ==
    <<Token("[")>> \o FlattenSeq([i \in DOMAIN values |->
        (IF i > 1 THEN <<Token(",")>> ELSE <<>>) \o values[i]]) \o <<Token("]")>>
Part(key, value) == [key |-> <<key>>, value |-> value]
OptionText(o) ==
    Braced(<<Part("flag", <<Text(o.flag)>>)>>
           \o (IF o.hasArg THEN <<Part("arg", <<Text(<<"x">>)>>)>> ELSE <<>>))
EntryText(e) ==
    Braced((IF e.builtin THEN << Part("kind", <<Text(<<"shell-builtin">>)>>),
                                 Part("shell_modern", <<Text(e.modern)>>),
                                 Part("shell_win32s", <<Text(e.shellWin32s)>>) >>
            ELSE << Part("positional", Listed(<< Braced(<<Part("name", Listed(<<>>))>>), <<Token("null")>> >>)) >>)
           \o << Part("supports_win32s", <<Token(IF e.win32s THEN "true" ELSE "null")>>),
                 Part("options", Listed([i \in DOMAIN e.options |-> OptionText(e.options[i])])) >>)
FileText(cat) ==
    Braced(<< Part("version", <<Token("null")>>),
              Part("commands", Braced([i \in DOMAIN cat |-> [key |-> cat[i].name, value |-> EntryText(cat[i])]])) >>)

Retained(e) ==
    [e EXCEPT !.name = CutField(@, NameLen),
              !.options = [i \in 1..(IF Len(@) < MaxOptions THEN Len(@) ELSE MaxOptions) |->
                             [@[i] EXCEPT !.flag = CutField(@, FlagLen)]]]

\* A catalog is loaded whole or not at all: every command of the file, with the
\* options there is room for, and never a whitelist cut short by a torn file.
CatalogIsWhole(cat) ==
    LET file == FileText(cat) IN
      /\ CatalogLoad(file) = IF cat = <<>> \/ Len(cat) > MaxEntries \/ Len(file) >= FileMax THEN NoCatalog
                             ELSE [i \in DOMAIN cat |-> Retained(cat[i])]
      /\ \A n \in 0..(Len(file) - 1) : CatalogLoad(SubSeq(file, 1, n)) = NoCatalog

\* What the listing offers the gate lets pass: every listed command with every
\* flag listed for it, alone, with a value after it and with the value glued on.
\* And a flag it does not list is refused.
ListedIsAllowed(cat, room) ==
    LET loaded == CatalogLoad(FileText(cat))
        items == Listing(loaded, room)
        Allowed(name, args) == CatalogValidateArgs(CatalogLookup(loaded, name), <<name>> \o args)
    IN  \A i \in DOMAIN items :
          (\A j \in 1..(i - 1) : ~SameText(items[j].name, items[i].name)) =>
            LET flags == items[i].flags IN
            /\ \A k \in DOMAIN flags : IsFlagToken(flags[k].flag) =>
                 /\ Allowed(items[i].name, <<flags[k].flag>>)
                 /\ flags[k].hasArg => /\ Allowed(items[i].name, <<flags[k].flag \o <<"v">>>>)
                                       /\ Allowed(items[i].name, <<flags[k].flag, <<"v">>>>)
            /\ (\A k \in DOMAIN flags : ~IsPrefix(Fold(flags[k].flag), <<FlagSign, "q">>))
                 => ~Allowed(items[i].name, << <<FlagSign, "q">> >>)
===============================================================================
