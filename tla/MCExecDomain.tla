----------------------------- MODULE MCExecDomain -----------------------------
(* ExecDomain and its pseudo-console runs; the constants are numbers and flags. *)
EXTENDS PtyExec
==============================================================================
