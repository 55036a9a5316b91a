---------------------------- MODULE MCSampleRing ----------------------------
(* SampleRing scaled down: a ring of three, turned over more than twice.   *)
EXTENDS SampleRing
=============================================================================
