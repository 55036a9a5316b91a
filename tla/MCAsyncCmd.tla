----------------------------- MODULE MCAsyncCmd -----------------------------
(* AsyncCmd on a machine with a handful of pids.                           *)
EXTENDS AsyncCmd

\* Three pids: the command, an orphan or a successor, and a stranger that
\* takes over a pid the daemon has given back.
MCPids == 1..3
=============================================================================
