---------------------------- MODULE MCPerfSession ----------------------------
(* PerfSession with two functions, so that one session may find the probe  *)
(* of another, and two recordings.                                         *)
EXTENDS PerfSession
=============================================================================
