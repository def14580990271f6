------------------------------- MODULE Toolchain -------------------------------
(***************************************************************************)
(* The build tools from end to end: the toolchains the device's probe finds *)
(* (toolchain_probe.c), the definitions the bridge knows and learns         *)
(* (definition.rs, server.rs), the argument list a call becomes (argv.rs)   *)
(* and, through the wire and the device's gate, what the compiler is given. *)
(***************************************************************************)
EXTENDS ExecGate, JsonLine

CONSTANT VersionMax     \* TOOLCHAIN_VERSION_MAX, terminating NUL included

-----------------------------------------------------------------------------
(* The built-in definitions.  A template item gives tokens, with a hole for one
   value of the parameter it names. *)

Hole == "{}"
Sw(rest) == <<FlagSign>> \o rest
Item(kind, param, emit) == [kind |-> kind, param |-> param, emit |-> emit]
Lit(token) == Item("literal", "none", <<token>>)
IfSet(param, token) == Item("opt", param, <<token>>)
IfTrue(param, token) == Item("flag", param, <<token>>)
Each(param, token) == Item("each", param, <<token>>)
Positional(param) == Each(param, <<Hole>>)
JoinedBy(param, sep) == Item("join", param, <<sep>>)
Role(command, args) == [command |-> command, args |-> args]

Msvc == [
    name |-> "msvc", probe |-> <<"cl">>,
    supported |-> {<<"12.00.", "8168">>, <<"12.00.", "8804">>, <<"19.">>},
    roles |-> [
      compile |-> Role(<<"cl">>, <<Lit(Sw(<<"nologo">>)), Lit(Sw(<<"c">>)),
        Each("includes", Sw(<<"I", Hole>>)), Each("defines", Sw(<<"D", Hole>>)),
        IfSet("warning_level", Sw(<<"W", Hole>>)), IfSet("output", Sw(<<"Fo", Hole>>)),
        Positional("extra_flags"), Positional("sources")>>),
      assemble |-> Role(<<"ml">>, <<Lit(Sw(<<"nologo">>)), Lit(Sw(<<"c">>)),
        Each("includes", Sw(<<"I", Hole>>)), Each("defines", Sw(<<"D", Hole>>)),
        IfSet("output", Sw(<<"Fo", Hole>>)), Positional("extra_flags"), Positional("sources")>>),
      link |-> Role(<<"link">>, <<Lit(Sw(<<"NOLOGO">>)), IfTrue("dll", Sw(<<"DLL">>)), IfTrue("debug", Sw(<<"DEBUG">>)),
        IfSet("subsystem", Sw(<<"SUBSYSTEM", ":", Hole>>)), IfSet("output", Sw(<<"OUT", ":", Hole>>)),
        Each("libpaths", Sw(<<"LIBPATH", ":", Hole>>)), Positional("extra_flags"),
        Positional("objects"), Positional("libs")>>),
      lib |-> Role(<<"lib">>, <<Lit(Sw(<<"NOLOGO">>)), IfSet("output", Sw(<<"OUT", ":", Hole>>)),
        Positional("extra_flags"), Positional("objects")>>)]]

Watcom == [
    name |-> "watcom", probe |-> <<"wcc386">>,
    supported |-> {<<"1.9">>, <<"2.">>},
    roles |-> [
      compile |-> Role(<<"wcc386">>, <<Lit(Sw(<<"zq">>)), Each("includes", Sw(<<"i", "=", Hole>>)),
        Each("defines", Sw(<<"d", Hole>>)), IfSet("output", Sw(<<"fo", "=", Hole>>)),
        Lit(Sw(<<"bt", "=", "nt">>)), Lit(Sw(<<"mf">>)), Positional("extra_flags"), Positional("sources")>>),
      assemble |-> Role(<<"wasm">>, <<Lit(Sw(<<"zq">>)), Each("includes", Sw(<<"i", "=", Hole>>)),
        Each("defines", Sw(<<"d", Hole>>)), IfSet("output", Sw(<<"fo", "=", Hole>>)),
        Positional("extra_flags"), Positional("sources")>>),
      link |-> Role(<<"wlink">>, <<Lit(<<"option">>), Lit(<<"quiet">>), Lit(<<"system">>), Lit(<<"nt">>),
        Item("opt", "output", << <<"name">>, <<Hole>> >>), Lit(<<"file">>), JoinedBy("objects", <<",">>),
        Lit(<<"library">>), JoinedBy("libs", <<",">>), Positional("extra_flags")>>),
      lib |-> Role(<<"wlib">>, <<IfSet("output", Sw(<<"o", "=", Hole>>)), Positional("extra_flags"),
        Each("objects", <<"+", Hole>>)>>)]]

Builtins == <<Msvc, Watcom>>

\* The parameters of a role, in its structure; any other is refused.
RoleParams == [
    compile |-> {"sources", "output", "includes", "defines", "warning_level", "compile_only", "extra_flags"},
    link |-> {"objects", "output", "libs", "libpaths", "subsystem", "dll", "debug", "extra_flags"},
    lib |-> {"objects", "output", "extra_flags"},
    assemble |-> {"sources", "output", "includes", "defines", "extra_flags"}]
Scalars == {"output", "warning_level", "subsystem", "compile_only", "dll", "debug"}

\* The entries of the device's catalog for the programs these definitions drive.
Entry(name, flags, valued) ==
    [NoEntry EXCEPT !.name = name, !.win32s = TRUE,
       !.options = [i \in 1..(Len(flags) + Len(valued)) |->
         IF i <= Len(flags) THEN [flag |-> Sw(<<flags[i]>>), hasArg |-> FALSE]
         ELSE [flag |-> Sw(<<valued[i - Len(flags)]>>), hasArg |-> TRUE]]]
BuildCatalog == <<
    Entry(<<"cl">>, <<"nologo", "c", "TC", "TP", "O2">>, <<"Fe", "Fo", "I", "D", "W">>),
    Entry(<<"link">>, <<"NOLOGO", "DLL", "DEBUG">>, <<"OUT", "SUBSYSTEM", "LIBPATH">>),
    Entry(<<"lib">>, <<"NOLOGO", "LIST">>, <<"OUT", "REMOVE">>),
    Entry(<<"ml">>, <<"nologo", "c", "coff", "Zi">>, <<"Fo", "I", "D">>),
    Entry(<<"wcc386">>, <<"zq", "c", "mf", "ot", "ox">>, <<"fo", "i", "d", "w", "bt">>),
    Entry(<<"wlink">>, <<>>, <<>>),
    Entry(<<"wlib">>, <<"q", "b">>, <<"o">>),
    Entry(<<"wasm">>, <<"zq">>, <<"fo", "i", "d">>)>>

-----------------------------------------------------------------------------
(* emit_argv *)

FillSlot(token, value) ==
    LET at == SelectInSeq(token, LAMBDA c : c = Hole)
    IN  IF at = 0 THEN token ELSE SubSeq(token, 1, at - 1) \o value \o SubSeq(token, at + 1, Len(token))

JoinWith(values, sep) ==
    FlattenSeq([i \in DOMAIN values |-> (IF i > 1 THEN sep ELSE <<>>) \o values[i]])

\* Faulty variant of EmitItem: a value with blanks becomes several elements.
Words(value) == FoldLeft(LAMBDA words, c : IF c = Blank THEN Append(words, <<>>)
                                           ELSE [words EXCEPT ![Len(words)] = Append(@, c)],
                         << <<>> >>, value)
EmitItemSplit(item, params) ==
    LET given == IF item.kind = "literal" THEN <<>> ELSE params[item.param] IN
      CASE item.kind = "literal" -> item.emit
        [] item.kind = "flag" -> IF given # <<>> THEN item.emit ELSE <<>>
        [] item.kind = "join" -> IF given # <<>> THEN <<JoinWith(given, item.emit[1])>> ELSE <<>>
        [] OTHER -> FlattenSeq([i \in DOMAIN given |->
             FlattenSeq([k \in DOMAIN item.emit |-> Words(FillSlot(item.emit[k], given[i]))])])

\* A parameter's values: none, the one of a scalar or a set flag, or a list's.
EmitItem(item, params) ==
    LET given == IF item.kind = "literal" THEN <<>> ELSE params[item.param] IN
      CASE item.kind = "literal" -> item.emit
        [] item.kind = "flag" -> IF given # <<>> THEN item.emit ELSE <<>>
        [] item.kind = "join" -> IF given # <<>> THEN <<JoinWith(given, item.emit[1])>> ELSE <<>>
        [] OTHER -> FlattenSeq([i \in DOMAIN given |->
             [k \in DOMAIN item.emit |-> FillSlot(item.emit[k], given[i])]])

EmitArgv(role, params) ==
    <<role.command>> \o FlattenSeq([i \in DOMAIN role.args |-> EmitItem(role.args[i], params)])

-----------------------------------------------------------------------------
(* ToolchainMatchBanner and ToolchainProbe.  A banner is pieces: the anchor that
   precedes a version, blanks, and parts of words. *)

Anchor == "Version "
NoVersion == <<"none">>
Known == << <<"cl">>, <<"wcc386">>, <<"wcl386">> >>

\* The token after the first anchor and the blanks behind it, cut to its field.
MatchBanner(banner) ==
    LET anchor == SelectInSeq(banner, LAMBDA c : c = Anchor)
        rest == SubSeq(banner, anchor + 1, Len(banner))
        first == SelectInSeq(rest, LAMBDA c : c # Blank)
        token == SubSeq(rest, first, Len(rest))
        stop == SelectInSeq(token, LAMBDA c : c = Blank)
    IN  IF anchor = 0 \/ first = 0 THEN NoVersion
        ELSE CutField(IF stop = 0 THEN token ELSE SubSeq(token, 1, stop - 1), VersionMax)

\* Each known compiler the catalog holds is run; prints gives its banner.
Probe(catalog, prints) ==
    LET found == SelectSeq(Known, LAMBDA c : /\ CatalogLookup(catalog, c) # NoEntry
                                             /\ MatchBanner(prints[c]) # NoVersion)
    IN  [i \in DOMAIN found |-> [command |-> found[i], version |-> MatchBanner(prints[found[i]])]]

-----------------------------------------------------------------------------
(* The registry and the tools made from it *)

Commands(def) == {def.probe} \cup {def.roles[r].command : r \in DOMAIN def.roles}
CataloguedCommands == UNION {Commands(Builtins[i]) : i \in DOMAIN Builtins}
Supports(def, version) == \E v \in def.supported : IsPrefix(v, version)

AddDefinition(registry, def) ==
    LET at == SelectInSeq(registry, LAMBDA d : d.name = def.name)
    IN  IF at = 0 THEN Append(registry, def) ELSE [registry EXCEPT ![at] = def]

\* Faulty variant of Register: the program the version is read from is not looked at.
RegisterRolesOnly(registry, def) ==
    IF {def.roles[r].command : r \in DOMAIN def.roles} \subseteq CataloguedCommands
    THEN AddDefinition(registry, def) ELSE registry

\* register_toolchain: every definition of the registry is looked at again.
Register(registry, def) ==
    LET candidate == AddDefinition(registry, def)
    IN  IF \A i \in DOMAIN candidate : Commands(candidate[i]) \subseteq CataloguedCommands
        THEN candidate ELSE registry

\* generate_build_routes: a definition is taken for the first toolchain it fits.
RolesOf(def) == SelectSeq(<<"compile", "link", "lib", "assemble">>, LAMBDA r : r \in DOMAIN def.roles)
Fits(def, tc) == tc.command \in Commands(def) /\ Supports(def, tc.version)
BuildRoutes(registry, detected) ==
    LET Offer(s, def) ==
            IF def.name \in s.done THEN s
            ELSE [done |-> s.done \cup {def.name},
                  routes |-> s.routes \o [i \in DOMAIN RolesOf(def) |-> <<def.name, RolesOf(def)[i]>>]]
        fitting == FlattenSeq([t \in DOMAIN detected |-> SelectSeq(registry, LAMBDA def : Fits(def, detected[t]))])
    IN  FoldLeft(Offer, [done |-> {}, routes |-> <<>>], fitting).routes

-----------------------------------------------------------------------------

\* The bridge offers a toolchain's tools, each once and for every role, exactly
\* if its compiler is catalogued and printed a version of the support matrix.
ToolsMatchDevice(banner) ==
    LET Says(version) ==
          \E i \in 0..(Len(banner) - 1), j \in 1..Len(banner), k \in 1..Len(banner) :
            /\ i + 1 < j /\ j <= k
            /\ banner[i + 1] = Anchor /\ \A n \in 1..i : banner[n] # Anchor
            /\ \A n \in (i + 2)..(j - 1) : banner[n] = Blank
            /\ \A n \in j..k : banner[n] # Blank
            /\ IsPrefix(version, SubSeq(banner, j, k))
    IN  \A catalog \in {BuildCatalog, Tail(BuildCatalog)}, i \in DOMAIN Builtins :
          LET def == Builtins[i]
              detected == Probe(catalog, [c \in ToSet(Known) |-> banner])
              offered == SelectSeq(BuildRoutes(Builtins, detected), LAMBDA route : route[1] = def.name)
              installed == /\ CatalogLookup(catalog, def.probe) # NoEntry
                           /\ \E version \in def.supported : Says(version)
          IN  /\ Len(offered) = IF installed THEN Cardinality(DOMAIN def.roles) ELSE 0
              /\ installed => {offered[n][2] : n \in DOMAIN offered} = DOMAIN def.roles

\* Whatever is registered, in whatever order, no definition drives a program the
\* built-in ones do not, a name stands for one definition, and the tools made
\* for any detected compiler are of the registry's roles, none twice.
RegistryIsCatalogued(defs) ==
    LET registry == FoldLeft(Register, Builtins, defs)
        routes == BuildRoutes(registry, [i \in DOMAIN Known |-> [command |-> Known[i], version |-> <<"2.">>]])
    IN  /\ \A i \in DOMAIN registry :
             \A command \in Commands(registry[i]) : CatalogLookup(BuildCatalog, command) # NoEntry
        /\ \A i, j \in DOMAIN registry : registry[i].name = registry[j].name => i = j
        /\ IsInjective(routes)

Values(settings, param) ==
    LET given == SelectSeq(settings, LAMBDA s : s.param = param)
    IN  [i \in DOMAIN given |-> given[i].value]
ParamsOf(role, settings) == [p \in RoleParams[role] |-> Values(settings, p)]
IsCallOf(role, settings) ==
    /\ \A i \in DOMAIN settings : settings[i].param \in RoleParams[role]
    /\ \A p \in Scalars \cap RoleParams[role] : Len(Values(settings, p)) <= 1

BuildSession == [catalog |-> BuildCatalog, unsafeMode |-> FALSE, win32s |-> FALSE, hasPty |-> FALSE]
BuildRequest(argv) ==
    LET members == << [key |-> "argv", value |-> [kind |-> "array", args |-> argv]],
                      [key |-> "timeout_ms", value |-> [kind |-> "number", negative |-> FALSE, digits |-> <<"6", "0">>]] >>
    IN  [argv |-> ParseJsonCommand(Serialise(members)).cmd.argv, line |-> <<>>, stdin |-> "none",
         pty |-> FALSE, shell |-> FALSE, unsafe |-> FALSE]

\* A value changes no element but those that have a place for it and adds none;
\* a call whose values look like no flag is let through by the device's gate;
\* and a compiler that is run gets exactly the elements the template spells,
\* where there are no more of them, and none longer, than a request holds.
BuildArrives(settings) ==
    \A i \in DOMAIN Builtins : \A r \in DOMAIN Builtins[i].roles :
      IsCallOf(r, settings) =>
        LET Argv(given) == EmitArgv(Builtins[i].roles[r], ParamsOf(r, given))
            argv == Argv(settings)
            shape == Argv([k \in DOMAIN settings |-> [settings[k] EXCEPT !.value = <<Hole>>]])
            request == BuildRequest(argv)
        IN  /\ DOMAIN argv = DOMAIN shape
            /\ \A k \in DOMAIN argv : argv[k] = shape[k] \/ Contains(shape[k], Hole)
            /\ Len(argv) <= MaxArgv /\ (\A k \in DOMAIN argv : Len(argv[k]) < ArgSize) =>
                 /\ Runs(BuildSession, request) => SeenArgs(BuildSession, request) = argv
                 /\ (\A k \in DOMAIN settings : ~IsFlagToken(settings[k].value)) => Runs(BuildSession, request)
===============================================================================
