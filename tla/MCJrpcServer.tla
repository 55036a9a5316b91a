---------------------------- MODULE MCJrpcServer ----------------------------
(* JrpcServer with requests of a few bytes and buffers of a few more.      *)
EXTENDS JrpcServer

CONSTANTS c1, c2

OneClient == {c1}
TwoClients == {c1, c2}

Call == [bytes |-> <<"open", "close">>, is |-> "call"]
LongCall == [bytes |-> <<"open", "plain", "plain", "close">>, is |-> "call"]
ShortCall == [bytes |-> <<"open", "plain", "close">>, is |-> "call"]
EscapedCall == [bytes |-> <<"open", "esc", "quoted", "close">>, is |-> "call"]
Exit == [bytes |-> <<"open", "close">>, is |-> "exit"]
EndlessCall == [bytes |-> <<"open", "close">>, is |-> "endless"]
Unknown == [bytes |-> <<"open", "close">>, is |-> "unknown"]
Array == [bytes |-> <<"open", "close">>, is |-> "nonobject"]
Garbage == [bytes |-> <<"plain">>, is |-> "invalid"]

\* A request longer than the first buffer (LongCall) makes it grow.
AllRequests == {ShortCall, EndlessCall, Exit, Array, Garbage}
Calls == {Call, LongCall}
WithEscapes == {Call, EscapedCall}

\* The proofs about serial clients are about these requests too.
ASSUME TextsAssumption == \A r \in Requests : OneText(r)
=============================================================================
