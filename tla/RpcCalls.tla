------------------------------ MODULE RpcCalls ------------------------------
(***************************************************************************)
(* What a caller of Zclient may count on, whatever sockets, threads and    *)
(* daemons do: a request runs on the device at most once, and the call     *)
(* returns the answer of its own request, after it ran, or None.  A None   *)
(* says nothing about whether the request ran, or will still run.          *)
(***************************************************************************)
EXTENDS Naturals

CONSTANT MaxCalls      \* how many calls are made, over all threads

Calls == 1..MaxCalls

VARIABLES
  runs,    \* runs[i]: how often the device has executed the request of call i
  out      \* out[i]: "unused", "open", or what call i returned

vars == <<runs, out>>

TypeOK == /\ runs \in [Calls -> {0, 1}]
          /\ out \in [Calls -> {"unused", "open", "own", "null"}]

Init == runs = [i \in Calls |-> 0] /\ out = [i \in Calls |-> "unused"]

Ask(i) == /\ out[i] = "unused"
          /\ out' = [out EXCEPT ![i] = "open"]
          /\ UNCHANGED runs

Run(i) == /\ out[i] # "unused"
          /\ runs[i] = 0
          /\ runs' = [runs EXCEPT ![i] = 1]
          /\ UNCHANGED out

Answer(i) == /\ out[i] = "open"
             /\ runs[i] = 1
             /\ out' = [out EXCEPT ![i] = "own"]
             /\ UNCHANGED runs

GiveUp(i) == /\ out[i] = "open"
             /\ out' = [out EXCEPT ![i] = "null"]
             /\ UNCHANGED runs

Next == \E i \in Calls : Ask(i) \/ Run(i) \/ Answer(i) \/ GiveUp(i)

Spec == Init /\ [][Next]_vars
=============================================================================
