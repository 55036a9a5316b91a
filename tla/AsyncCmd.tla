------------------------------ MODULE AsyncCmd ------------------------------
(***************************************************************************)
(* The asynchronous commands of ztracerd: acmdstart, perfastart, acmdstop, *)
(* acmdcheckdone and acmdwait (ztracerd/main.c), which share the global    *)
(* perfpid, together with the processes they fork, signal and reap.        *)
(*                                                                         *)
(* Every handler runs to its end in the one libev thread, so a handler is  *)
(* one step, except acmdwait, which polls waitpid in a loop with sleeps:   *)
(* the rest of the machine moves between its polls while the event loop    *)
(* serves nobody.  The processes of the machine are modelled by their pid: *)
(* a pid that has been reaped may be given to an unrelated process.        *)
(***************************************************************************)
EXTENDS Integers, FiniteSets

CONSTANT Pids       \* the pids that fork can return

ASSUME PidsAssumption == Pids \subseteq Nat \ {0}

VARIABLES
  up,           \* the daemon process exists and listens
  loop,         \* "ready", or how far acmdwait has come: "waiting", "collected"
  perfpid,      \* 0: none;  -1: fork has failed;  else the pid of the command
  perfrunning,
  proc,         \* proc[p]: what the process with pid p does
  kids,         \* the unreaped children of the daemon
  timed,        \* timed[p]: the command run by p ends without a signal
  last          \* <<request, answer>> of the procedure that answered last

vars == <<up, loop, perfpid, perfrunning, proc, kids, timed, last>>

\* "forked": child of fork that has not reached execvp;  "running": the
\* command;  "stopping": the command, after SIGINT, writing out its data;
\* "alien": a process that is no command of the daemon's.
Live == {"forked", "running", "stopping"}
ProcStates == {"free", "alien", "zombie"} \cup Live

Exchanges == {<<"none", "none">>, <<"start", "ok">>, <<"start", "err">>,
              <<"nostart", "err">>, <<"stop", "ok">>, <<"checkdone", "wait">>,
              <<"checkdone", "done">>, <<"wait", "done">>}

\* Every variable keeps to its values, and perfrunning mirrors perfpid.
TypeOK == /\ up \in BOOLEAN
          /\ loop \in {"ready", "waiting", "collected"}
          /\ perfpid \in Pids \cup {0, -1}
          /\ perfrunning = (IF perfpid = 0 THEN 0 ELSE 1)
          /\ proc \in [Pids -> ProcStates]
          /\ kids \in SUBSET Pids
          /\ timed \in [Pids -> BOOLEAN]
          /\ last \in Exchanges

Init == /\ up = TRUE
        /\ loop = "ready"
        /\ perfpid = 0
        /\ perfrunning = 0
        /\ proc = [p \in Pids |-> "free"]
        /\ kids = {}
        /\ timed = [p \in Pids |-> FALSE]
        /\ last = <<"none", "none">>

Serving == up /\ loop = "ready"
LivePids == {p \in Pids : proc[p] \in Live}

-----------------------------------------------------------------------------
(* acmdstart and perfastart: one place, shared by all callers              *)

Fork(p) == /\ proc[p] = "free"
           /\ proc' = [proc EXCEPT ![p] = "forked"]
           /\ kids' = kids \cup {p}
           /\ perfpid' = p
           /\ perfrunning' = 1
           /\ \E t \in BOOLEAN : timed' = [timed EXCEPT ![p] = t]

\* fork() returns -1: the parent's branch treats it as a child.
ForkFails == /\ perfpid' = -1
             /\ perfrunning' = 1
             /\ UNCHANGED <<proc, kids, timed>>

\* Mutant: the test of perfpid dropped.
AcmdStartUnguarded == /\ Serving
                      /\ ForkFails \/ \E p \in Pids : Fork(p)
                      /\ last' = <<"start", "ok">>
                      /\ UNCHANGED <<up, loop>>

AcmdStart == /\ Serving
             /\ perfpid = 0
             /\ ForkFails \/ \E p \in Pids : Fork(p)
             /\ last' = <<"start", "ok">>
             /\ UNCHANGED <<up, loop>>

\* No command in the request, or the place is taken.
AcmdStartRefused == /\ Serving
                    /\ \/ last' = <<"nostart", "err">>
                       \/ perfpid # 0 /\ last' = <<"start", "err">>
                    /\ UNCHANGED <<up, loop, perfpid, perfrunning, proc, kids, timed>>

-----------------------------------------------------------------------------
(* acmdstop                                                                *)

\* What SIGINT makes of a process: the default action kills a child that has
\* not reached execvp or a command that has no handler yet, a command that
\* has one winds down, another process may or may not end.
Interrupted(p) ==
  CASE proc[p] = "forked"  -> {"zombie"}
    [] proc[p] = "running" -> {"zombie", "stopping"}
    [] proc[p] = "alien"   -> {"alien", "free"}
    [] OTHER               -> {proc[p]}

\* kill(-1) signals every process, kill(pid) the one that has the pid now.
Signalled == IF perfpid = -1 THEN Pids
             ELSE IF perfpid = 0 THEN {} ELSE {perfpid}

AcmdStop == /\ Serving
            /\ proc' \in [Pids -> ProcStates]
            /\ \A p \in Pids : proc'[p] \in IF p \in Signalled THEN Interrupted(p)
                                            ELSE {proc[p]}
            /\ last' = <<"stop", "ok">>
            /\ UNCHANGED <<up, loop, perfpid, perfrunning, kids, timed>>

-----------------------------------------------------------------------------
(* acmdcheckdone and acmdwait                                              *)

Awaited == IF perfpid = -1 THEN kids ELSE kids \cap {perfpid}

\* waitpid(perfpid, &status, WNOHANG) = 0: a child, and none has ended.
NothingToReap == Awaited # {} /\ \A p \in Awaited : proc[p] # "zombie"

\* Mutant: waitpid's -1 taken for "nothing yet".
ReapIgnoresErrors == \E p \in Awaited : /\ proc[p] = "zombie"
                                       /\ proc' = [proc EXCEPT ![p] = "free"]
                                       /\ kids' = kids \ {p}

\* waitpid returns a pid and the child is gone, or -1 (no such child).
Reap == \/ /\ Awaited = {}
           /\ UNCHANGED <<proc, kids>>
        \/ \E p \in Awaited : /\ proc[p] = "zombie"
                              /\ proc' = [proc EXCEPT ![p] = "free"]
                              /\ kids' = kids \ {p}

ReleaseSlot == perfpid' = 0 /\ perfrunning' = 0

\* Mutant: the two answers swapped.
CheckdoneWaitSaysDone == /\ Serving
                         /\ perfpid # 0
                         /\ NothingToReap
                         /\ last' = <<"checkdone", "done">>
                         /\ UNCHANGED <<up, loop, perfpid, perfrunning, proc, kids, timed>>

CheckdoneWait == /\ Serving
                 /\ perfpid # 0
                 /\ NothingToReap
                 /\ last' = <<"checkdone", "wait">>
                 /\ UNCHANGED <<up, loop, perfpid, perfrunning, proc, kids, timed>>

\* Mutant: the reaped pid stays in perfpid.
CheckdoneDoneKeepsPid == /\ Serving
                         /\ perfpid # 0
                         /\ Reap
                         /\ last' = <<"checkdone", "done">>
                         /\ UNCHANGED <<up, loop, perfpid, perfrunning, timed>>

CheckdoneDone == /\ Serving
                 /\ perfpid # 0
                 /\ Reap
                 /\ ReleaseSlot
                 /\ last' = <<"checkdone", "done">>
                 /\ UNCHANGED <<up, loop, timed>>

CheckdoneIdle == /\ Serving
                 /\ perfpid = 0
                 /\ last' = <<"checkdone", "done">>
                 /\ UNCHANGED <<up, loop, perfpid, perfrunning, proc, kids, timed>>

AcmdCheckdone == CheckdoneWait \/ CheckdoneDone \/ CheckdoneIdle

AcmdWait == /\ Serving
            /\ IF perfpid = 0
               THEN loop' = loop /\ last' = <<"wait", "done">>
               ELSE loop' = "waiting" /\ UNCHANGED last
            /\ UNCHANGED <<up, perfpid, perfrunning, proc, kids, timed>>

\* Mutant: the event loop runs before perfpid is reset.
WaitReapsEarly == /\ up /\ loop = "waiting"
                  /\ Reap
                  /\ loop' = "ready"
                  /\ UNCHANGED <<up, perfpid, perfrunning, timed, last>>

\* The poll that finds something; a poll that finds nothing changes nothing.
WaitReaps == /\ up /\ loop = "waiting"
             /\ Reap
             /\ loop' = "collected"
             /\ UNCHANGED <<up, perfpid, perfrunning, timed, last>>

\* Mutant: the break after the reset is missing.
WaitNeverBreaks == /\ up /\ loop = "collected"
                   /\ ReleaseSlot
                   /\ loop' = "waiting"
                   /\ UNCHANGED <<up, proc, kids, timed, last>>

\* One sleep(1) after the waitpid that reaped, perfpid is reset.
WaitReturns == /\ up /\ loop = "collected"
               /\ ReleaseSlot
               /\ loop' = "ready"
               /\ last' = <<"wait", "done">>
               /\ UNCHANGED <<up, proc, kids, timed>>

-----------------------------------------------------------------------------
(* The forked children and the other processes of the machine              *)

\* A process ends: a child waits to be reaped, an orphan is reaped by init.
Ends(p) == /\ proc' = [proc EXCEPT ![p] = IF p \in kids THEN "zombie" ELSE "free"]
           /\ UNCHANGED <<up, loop, perfpid, perfrunning, kids, timed, last>>

Exec(p) == /\ proc[p] = "forked"
           /\ proc' = [proc EXCEPT ![p] = "running"]
           /\ UNCHANGED <<up, loop, perfpid, perfrunning, kids, timed, last>>

\* execvp fails and the child exits; also the child of perfastart dying on
\* the sprintf through the unset argv[i], whose outcome is undefined.
ExecFails(p) == proc[p] = "forked" /\ Ends(p)

CommandEnds(p) == proc[p] = "running" /\ Ends(p)

StopCompletes(p) == proc[p] = "stopping" /\ Ends(p)

AlienChanges(p) == /\ \/ proc[p] = "free" /\ proc' = [proc EXCEPT ![p] = "alien"]
                      \/ proc[p] = "alien" /\ proc' = [proc EXCEPT ![p] = "free"]
                   /\ UNCHANGED <<up, loop, perfpid, perfrunning, kids, timed, last>>

Processes == \E p \in Pids : \/ Exec(p) \/ ExecFails(p) \/ CommandEnds(p)
                             \/ StopCompletes(p) \/ AlienChanges(p)

-----------------------------------------------------------------------------
(* The daemon's own end and restart                                        *)

\* The daemon process is gone: its memory too, and init adopts its children.
DaemonEnds == /\ up' = FALSE
              /\ loop' = "ready"
              /\ ReleaseSlot
              /\ proc' = [p \in Pids |-> IF proc[p] = "zombie" THEN "free" ELSE proc[p]]
              /\ kids' = {}
              /\ last' = <<"none", "none">>
              /\ UNCHANGED timed

ExitServer == Serving /\ DaemonEnds
Crash == up /\ DaemonEnds

\* Mutant: the socket is closed on exec.
PortAlwaysFree == TRUE
\* Mutant: any process that has one of the pids counts as a live command.
PortFreeByPid == \A p \in Pids : proc[p] = "free"

\* The listening socket is inherited by every command forked (no close, no
\* close-on-exec), so while one lives, bind fails and main returns at once.
PortFree == LivePids = {}

Restart == /\ ~up
           /\ PortFree
           /\ up' = TRUE
           /\ UNCHANGED <<loop, perfpid, perfrunning, proc, kids, timed, last>>

Next == \/ AcmdStart \/ AcmdStartRefused \/ AcmdStop \/ AcmdCheckdone
        \/ AcmdWait \/ WaitReaps \/ WaitReturns
        \/ Processes
        \/ ExitServer \/ Crash \/ Restart

\* A caller keeps polling acmdcheckdone; the daemon's wait loop runs on; a
\* forked child gets to execvp or dies; a command with a duration, and one
\* that has been interrupted, ends; somebody restarts a dead daemon.
Fairness == /\ WF_vars(AcmdCheckdone)
            /\ WF_vars(WaitReaps)
            /\ WF_vars(WaitReturns)
            /\ \A p \in Pids : /\ WF_vars(Exec(p) \/ ExecFails(p))
                               /\ WF_vars(timed[p] /\ CommandEnds(p))
                               /\ WF_vars(StopCompletes(p))
            /\ WF_vars(Restart)

SafeSpec == Init /\ [][Next]_vars
Spec == SafeSpec /\ Fairness

-----------------------------------------------------------------------------
(* Properties                                                              *)

\* Whenever the daemon is about to serve a request, a positive perfpid names
\* a child it has not reaped, so the pid cannot have been given away: the
\* kill of acmdstop and the waitpid of acmdcheckdone reach the command.
SlotOwnsChild == Serving /\ perfpid \in Pids =>
                   perfpid \in kids /\ proc[perfpid] \in Live \cup {"zombie"}

\* No forked child is ever forgotten: the only child left to reap is the one
\* in perfpid, and after a failed fork or a completed wait there is none.
NoForgottenChild == /\ kids \subseteq {perfpid}
                    /\ loop = "collected" => kids = {}

\* At most one command records at a time on the machine, restarts of the
\* daemon included: an orphan of an earlier daemon keeps the port, so no new
\* daemon can start a second command that would write the same perf.data.
OneRecorder == \A p, q \in LivePids : p = q

\* The strengthening of the three that is inductive.
IInv == /\ TypeOK
        /\ SlotOwnsChild
        /\ NoForgottenChild
        /\ OneRecorder
        /\ ~up => perfpid = 0 /\ kids = {} /\ loop = "ready"
        /\ loop # "ready" => perfpid # 0
        /\ loop = "waiting" /\ perfpid \in Pids => perfpid \in kids
        /\ \A p \in kids : proc[p] \in Live \cup {"zombie"}
        /\ \A p \in Pids : proc[p] = "zombie" => p \in kids
        /\ up => LivePids \subseteq kids

\* acmdstop never interrupts a process that is not the command, as long as
\* the fork that filled perfpid did not fail (kill(-1) signals everybody).
StopSparesOthers ==
  [][AcmdStop /\ perfpid # -1 =>
       \A p \in Pids : proc'[p] # proc[p] => p \in kids]_vars

\* A command that was told to stop, or whose launch failed, gives the place
\* back while somebody polls, so that the next start can be accepted.
StopFreesSlot ==
  (perfpid = -1 \/ perfpid \in {p \in kids : proc[p] \in {"stopping", "zombie"}})
    ~> perfpid = 0

\* acmdwait on a command that has a duration lets the event loop go on.
WaitLetsGo == (loop = "waiting" /\ perfpid \in {p \in kids : timed[p]})
                ~> loop = "ready"

\* After the daemon is gone a new one comes to serve, if every command that
\* outlives it has a duration.
RestartServes == (~up /\ \A p \in LivePids : timed[p]) ~> up

\* The detailed daemon implements the one-place promise.
JobOf == IF perfpid = 0 THEN "none"
         ELSE IF loop = "collected" \/ perfpid = -1 THEN "ended"
         ELSE IF proc[perfpid] = "zombie" THEN "ended" ELSE "active"

Abstract == INSTANCE CmdSlot WITH job <- JobOf
AbstractSafe == Abstract!SafeSpec
AbstractSpec == Abstract!Spec
=============================================================================
