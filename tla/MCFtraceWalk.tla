---------------------------- MODULE MCFtraceWalk ----------------------------
(* FtraceWalk with a thread that calls deep and one that only calls Root.  *)
(* A line of the second costs twice a line of the first, and a missing line *)
(* two more, so that either the trees, the threads or the losses are many. *)
EXTENDS FtraceWalk, TLC

CONSTANTS p1, p2
MCPids == {p1, p2}
MCMaxDepth == (p1 :> 3) @@ (p2 :> 0)
MCCost == (p1 :> 1) @@ (p2 :> 2)
MCSymmetry == Permutations(Inner)
=============================================================================
