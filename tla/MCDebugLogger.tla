---------------------------- MODULE MCDebugLogger ----------------------------
(* An instance of DebugLogger for TLC: a table of three rows, two logs. *)
EXTENDS DebugLogger
=============================================================================
