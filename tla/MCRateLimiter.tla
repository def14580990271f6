---------------------------- MODULE MCRateLimiter ----------------------------
(* Two tools, so that one tool's traffic runs beside the other's. *)
EXTENDS RateLimiter

CONSTANTS read, exec
MCTools == {read, exec}
==============================================================================
