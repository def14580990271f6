--------------------------- MODULE MCBridgeDispatch ---------------------------
(* Calls of three kinds of tool: the unsafe-gated exec, a generated build    *)
(* tool and a read-only tool; c4 shares the read tool's bucket with c3.      *)
EXTENDS BridgeDispatch, TLC

CONSTANTS c1, c2, c3, c4, exec, build, read

MCTools == {exec, build, read}
MCPowerTools == {exec, build}
MCBuildTools == {build}

FourCalls == {c1, c2, c3, c4}
FourToolOf == [c \in FourCalls |->
    CASE c = c1 -> exec [] c = c2 -> build [] OTHER -> read]

\* Calls of one read-only tool, with a bucket that holds them all.
ReadToolOf == [c \in FourCalls |-> read]
==============================================================================
