------------------------------- MODULE MCCodecs -------------------------------
(* Bytes of 16 and symbols of 8 values keep the 4:3 ratio of base64.            *)
EXTENDS Codecs

Str(text) == [kind |-> "string", text |-> text]
Num(negative, digits) == [kind |-> "number", negative |-> negative, digits |-> digits]
Member(key, value) == [key |-> key, value |-> value]

Members0 == {
    Member("path", Str(<<"a", Slash, "b">>)), Member("path", Str(<<Quote, "}", NewLine, "b", "c", "d">>)),
    Member("timeout_ms", Num(TRUE, <<"1", "2">>)), Member("timeout_ms", Num(FALSE, <<"2", "1", "4", "1", "5">>)),
    Member("unsafe", [kind |-> "word", word |-> "true"]), Member("unsafe", [kind |-> "word", word |-> "false"]),
    Member("path", [kind |-> "null", word |-> "null"]),
    Member("argv", [kind |-> "array", args |-> << <<"a", "]">>, <<Quote, Slash, "c">> >>]),
    Member("other", [kind |-> "array", args |-> << <<"{">> >>]),
    Member("other", Str(<<"a">>)), Member("timeout_ms", Str(<<"a">>))}

\* A single-byte page and a double-byte one, in which a trail byte can be the
\* backslash, two sequences decode alike and some decode to nothing.
Byte1 == (65 :> 65 @@ 92 :> 92 @@ 130 :> 233 @@ 255 :> Replacement)
Trail == [p \in {130} \X {65, 92, 130, 255} |->
            CASE p = <<130, 65>> -> 12354 [] p \in {<<130, 92>>, <<130, 130>>} -> 34920 [] OTHER -> Replacement]
MCPages == (1252 :> [lead |-> {}, dec1 |-> Byte1, dec2 |-> <<>>,
                     rev |-> << [cu |-> 65, mb |-> <<65>>], [cu |-> 92, mb |-> <<92>>],
                                [cu |-> 233, mb |-> <<130>>] >>])
        @@ (932 :> [lead |-> {130}, dec1 |-> Byte1, dec2 |-> Trail,
                    rev |-> << [cu |-> 65, mb |-> <<65>>], [cu |-> 92, mb |-> <<92>>],
                               [cu |-> 12354, mb |-> <<130, 65>>], [cu |-> 34920, mb |-> <<130, 92>>] >>])

Opt(flag, hasArg) == [flag |-> flag, hasArg |-> hasArg]
Command(name, builtin, options) ==
    [name |-> name, builtin |-> builtin, win32s |-> builtin, options |-> options,
     modern |-> IF builtin THEN <<"cmd.exe", Blank>> \o name ELSE <<>>,
     shellWin32s |-> IF builtin THEN <<"command.com", Blank>> \o name ELSE <<>>]
FlagS == Opt(<<FlagSign, "s">>, FALSE)
FlagA == Opt(<<FlagSign, "a">>, TRUE)
FlagQ == Opt(<<FlagSign, "q">>, FALSE)
FlagLong == Opt(<<FlagSign, "a", "b", "c", "d">>, TRUE)
Dir == Command(<<"d">>, TRUE, <<FlagS, FlagA>>)
Edit == Command(<<"e">>, FALSE, <<FlagA>>)

MCCatalogs == {<<Dir, Edit>>}

\* Definitions an agent may register: of new and known names, and of programs
\* that are catalogued, catalogued but no compiler, or unknown.
Definitions == [name : {"msvc", "tcc"}, probe : {<<"cl">>, <<"tcc">>}, supported : {{<<"2.">>}, {}},
                roles : {[compile |-> [command |-> c]] : c \in {<<"wcc386">>, <<"tcc">>}}]

Setting(params, values) == [param : params, value : values]
Settings ==
    Setting({"sources", "includes", "extra_flags", "objects", "output"},
            {<<"x">>, <<"x", Blank, "x">>, <<FlagSign, "O2">>, <<>>, <<Quote, Slash>>, <<"y", "{}">>, Times(8, "x")})
    \cup Setting({"libs", "subsystem"}, {<<"x">>, <<Slash, Blank>>}) \cup Setting({"dll"}, {<<>>})

Mode(name) == <<Blank, Switch, name>>
With(name) == <<Blank, Switch, name, Colon>>
StartPieces == {
    Mode("unsafe"), Tail(Mode("unsafe")), Mode("auto"), With("auto"), With("tcp"), With("serial"), With("pipe"),
    With("bind"), With("catalog"), <<"x">>, <<"com", "3">>, <<"8", "9", "3", "2">>,
    <<"2", "0", "9", "7", "2", "3", "2">>, <<"1", "2", "7", Dot, "0", Dot, "0", Dot, "1">>}

\* Win32s, Windows 95 and NT; the thread that probes a host may fail on any.
MCStartups == {[nt |-> FALSE, major |-> 3, threads |-> FALSE]} \cup
              [nt : {FALSE, TRUE}, major : {4}, threads : BOOLEAN]

MCAlphabet == [
    start |-> StartPieces,
    bytes |-> {0, 1, 6, 15},
    text |-> {0, 1, 5, 7, Pad, White, Foreign},
    argv |-> {"a", Blank, Quote, Slash, Caret, Operator, Percent, "next"},
    exec |-> {<<"D">>, <<"e">>, <<FlagSign, "S">>, <<FlagSign, "a">>, <<FlagSign, "a", "x">>,
              <<"x", Operator, "y">>, <<"x", Blank, Operator, "y">>},
    request |-> Members0,
    value |-> {"a", Quote, Slash, NewLine, Control, "}"},
    utf8 |-> {65, 92, 128, 159, 160, 191, 195, 224, 237, 240, 244, 255},
    utf16 |-> {65, 127, 128, 2047, 2048, 55296, 56319, 56320, 57343, 65535},
    stream |-> {65, 130, 195, 228, 241},
    page |-> {65, 92, 130, 255},
    units |-> {65, 92, 233, 12354, 34920, 55296, Replacement},
    path |-> {65, 92, 195, 169, 130},
    catalog |-> {Dir, Command(<<"D", "e", "f", "g">>, FALSE, <<FlagS, FlagQ, FlagA>>),
                 Command(<<"s">>, TRUE, <<FlagLong>>), Command(<<"e">>, FALSE, <<>>)},
    number |-> {0, 1, 2, 6, 9, 15, 16},
    range |-> Addresses,
    audit |-> [len : {2, 6}, fault : Faults],
    program |-> 0..63,
    banner |-> {"Version ", Blank, "12.00.", "8168", "19.", "2.", "0"},
    registry |-> Definitions,
    build |-> Settings]

MCMaxLen == [start |-> 4, bytes |-> 5, text |-> 5, argv |-> 5, exec |-> 3, request |-> 3, value |-> 4, utf8 |-> 4,
             utf16 |-> 3, stream |-> 6, page |-> 6, units |-> 4, path |-> 5, catalog |-> 3, number |-> 4, range |-> 2,
             audit |-> 4, program |-> 2, banner |-> 5, registry |-> 3, build |-> 2]

MCSize == [path |-> 5]
===============================================================================
