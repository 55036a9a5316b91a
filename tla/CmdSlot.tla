------------------------------- MODULE CmdSlot -------------------------------
(***************************************************************************)
(* What ztracerd's asynchronous-command procedures promise their callers,  *)
(* with no processes, pids or signals in sight: the daemon has one place   *)
(* for a command.  A start is accepted only when the place is empty, a     *)
(* poll answers "done" only when nothing is active, and the first answer   *)
(* "done" about an ended command empties the place.                        *)
(***************************************************************************)

VARIABLES
  job,    \* "none", "active" or "ended": the command in the place
  last    \* <<request, answer>> of the procedure that answered last

vars == <<job, last>>

Jobs == {"none", "active", "ended"}

\* The request "start" carries a command, the request "nostart" carries none.
Exchanges == {<<"none", "none">>, <<"start", "ok">>, <<"start", "err">>,
              <<"nostart", "err">>, <<"stop", "ok">>, <<"checkdone", "wait">>,
              <<"checkdone", "done">>, <<"wait", "done">>}

TypeOK == job \in Jobs /\ last \in Exchanges

Init == job = "none" /\ last = <<"none", "none">>

\* A start is accepted.  "ended" at once: the launch itself failed, and the
\* caller learns of it only through a poll.
Accept == /\ job = "none"
          /\ job' \in {"active", "ended"}
          /\ last' = <<"start", "ok">>

Refuse == /\ UNCHANGED job
          /\ \/ job # "none" /\ last' = <<"start", "err">>
             \/ last' = <<"nostart", "err">>

\* A stop only asks: the command may end at once or later, and what has
\* already ended stays to be collected.
Stop == /\ \/ UNCHANGED job
           \/ job = "active" /\ job' = "ended"
        /\ last' = <<"stop", "ok">>

StillActive == job = "active" /\ UNCHANGED job /\ last' = <<"checkdone", "wait">>

Idle == /\ job = "none" /\ UNCHANGED job
        /\ last' \in {<<"checkdone", "done">>, <<"wait", "done">>}

Collect == /\ job = "ended" /\ job' = "none"
           /\ last' \in {<<"checkdone", "done">>, <<"wait", "done">>}

End == job = "active" /\ job' = "ended" /\ UNCHANGED last

\* The daemon ends: its place and its memory of the last exchange are gone.
Forget == job' = "none" /\ last' = <<"none", "none">>

Next == Accept \/ Refuse \/ Stop \/ StillActive \/ Idle \/ Collect \/ End \/ Forget

\* Callers that keep polling, and a daemon that keeps serving them.
Fairness == WF_vars(Collect)

SafeSpec == Init /\ [][Next]_vars
Spec == SafeSpec /\ Fairness
=============================================================================
