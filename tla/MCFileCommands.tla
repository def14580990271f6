--------------------------- MODULE MCFileCommands ---------------------------
(* Two directories and two leaves; one more name, too long for its field, is    *)
(* cut to another.  Sizes are scaled: 16 stands for 2^32, 6 for MCP_MAX_DATA.    *)
EXTENDS FileCommands

CONSTANTS d, e, x, y, long

D == [dir |-> d, leaf |-> Self]
E == [dir |-> e, leaf |-> Self]
X == [dir |-> d, leaf |-> x]
Y == [dir |-> d, leaf |-> y]
Z == [dir |-> e, leaf |-> x]

MCNames == Paths \cup {long}
MCField == [n \in MCNames |-> IF n = long THEN X ELSE n]
MCNotOnPage == {Y}
MCInitial == {X}

Command(verb, path, dest, len) ==
    [verb |-> verb, path |-> path, dest |-> dest, len |-> len, base64 |-> TRUE]

MCRequests ==
    {Command("read", p, D, 0) : p \in {X, D}}
    \cup {Command("write", p, D, n) : p \in {X, Y, long}, n \in {2, 4}} \cup {Command("write", X, D, 0)}
    \cup {[Command("write", X, D, 2) EXCEPT !.base64 = FALSE]}
    \cup {Command("list", D, D, 0), Command("delete", X, D, 0)}
    \cup {Command("copy", X, p, 0) : p \in {Y, Z}}
    \cup {Command("move", p[1], p[2], 0) : p \in {<<X, Z>>, <<D, E>>}}
    \cup {Command(v, E, D, 0) : v \in {"mkdir", "rmdir"}}
    \cup {Command("rmdir", D, D, 0), Command("unknown", D, D, 0), Command("empty", D, D, 0)}
=============================================================================
