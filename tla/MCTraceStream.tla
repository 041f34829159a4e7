----------------------------- MODULE MCTraceStream -----------------------------
(* Clients differ in nothing but when they come, and no client waits for   *)
(* another; the bursts are those of the program.                           *)
EXTENDS TraceStream
=============================================================================
