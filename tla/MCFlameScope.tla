---------------------------- MODULE MCFlameScope ----------------------------
(* FlameScope with all files of up to three samples around two full seconds *)
(* and the limit of the overscan, and two files that replace another.      *)
EXTENDS FlameScope

MCSamples == [at : {9, 10, 11, 12, 25}, idle : BOOLEAN, indexed : BOOLEAN]
MCFiles == UNION {[1..n -> MCSamples] : n \in 0..3}
Busy(at, indexed) == [at |-> at, idle |-> FALSE, indexed |-> indexed]
MCAgain == {<<Busy(11, TRUE)>>, <<Busy(9, TRUE), Busy(11, TRUE), Busy(25, TRUE)>>}
MCRanges == {<<0, 10>>, <<10, 20>>, <<20, 30>>, <<20, 10>>}
=============================================================================
