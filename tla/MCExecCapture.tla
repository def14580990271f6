---------------------------- MODULE MCExecCapture ----------------------------
(* The four families of hosts the server meets, by what feat.c finds there. *)
EXTENDS ExecCapture

Win32s  == [threads |-> FALSE, jobs |-> FALSE, ctrl |-> FALSE]
Nt31    == [threads |-> TRUE,  jobs |-> FALSE, ctrl |-> FALSE]
Win9x   == [threads |-> TRUE,  jobs |-> FALSE, ctrl |-> TRUE]
Nt4     == [threads |-> TRUE,  jobs |-> TRUE,  ctrl |-> TRUE]

AllHosts == {Win32s, Nt31, Win9x, Nt4}
NtOnly == {Nt4}
==============================================================================
