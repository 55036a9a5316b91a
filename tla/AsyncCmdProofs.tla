--------------------------- MODULE AsyncCmdProofs ---------------------------
(* Theorems about the asynchronous commands, for every set of pids.        *)
EXTENDS AsyncCmd, TLAPS

USE DEF Live, ProcStates

(* A new child takes the empty place: everything IInv says holds of it.    *)
LEMMA StartPreserves == IInv /\ AcmdStart => IInv'
<1> SUFFICES ASSUME IInv, AcmdStart PROVE IInv'
  OBVIOUS
<1> USE PidsAssumption DEF IInv, TypeOK, SlotOwnsChild, NoForgottenChild, OneRecorder,
        LivePids, Serving
<1>1. CASE ForkFails
  BY <1>1 DEF AcmdStart, ForkFails, Exchanges
<1>2. ASSUME NEW p \in Pids, Fork(p) PROVE IInv'
  <2>1. kids = {} /\ LivePids = {} /\ up /\ loop = "ready"
    BY DEF AcmdStart
  <2>2. /\ kids' = {p} /\ perfpid' = p /\ perfrunning' = 1
        /\ proc' = [proc EXCEPT ![p] = "forked"]
        /\ up' = TRUE /\ loop' = "ready" /\ last' \in Exchanges
    BY <1>2, <2>1 DEF Fork, AcmdStart, Exchanges
  <2>3. timed' \in [Pids -> BOOLEAN]
    BY <1>2 DEF Fork
  <2>4. p # 0 /\ perfpid' \in Pids
    BY <2>2
  <2>5. TypeOK'
    BY <2>2, <2>3, <2>4
  <2>6. \A q \in Pids : q # p => proc'[q] \in {"free", "alien"}
    BY <2>1, <2>2
  <2>7. proc'[p] = "forked"
    BY <2>2
  <2> QED
    BY <2>2, <2>4, <2>5, <2>6, <2>7
<1> QED
  BY <1>1, <1>2 DEF AcmdStart

(* Signals change what processes do, never whose children they are.        *)
LEMMA StopPreserves == IInv /\ AcmdStop => IInv'
<1> SUFFICES ASSUME IInv, AcmdStop PROVE IInv'
  OBVIOUS
<1> USE PidsAssumption DEF IInv, TypeOK, SlotOwnsChild, NoForgottenChild, OneRecorder,
        LivePids, Serving
<1>1. proc' \in [Pids -> ProcStates]
  BY DEF AcmdStop
<1>2. \A p \in Pids : /\ proc[p] \in {"free", "alien"} => proc'[p] \in {"free", "alien"}
                      /\ proc[p] \in Live => proc'[p] \in Live \cup {"zombie"}
                      /\ proc[p] = "zombie" => proc'[p] = "zombie"
  BY DEF AcmdStop, Interrupted
<1>3. UNCHANGED <<up, loop, perfpid, perfrunning, kids, timed>> /\ last' \in Exchanges
  BY DEF AcmdStop, Exchanges
<1>4. TypeOK'
  BY <1>1, <1>3
<1>5. LivePids' \subseteq LivePids
  BY <1>1, <1>2
<1>6. OneRecorder' /\ (up => LivePids' \subseteq kids)
  BY <1>5
<1>7. /\ \A p \in kids : proc'[p] \in Live \cup {"zombie"}
      /\ \A p \in Pids : proc'[p] = "zombie" => p \in kids
  <2>1. ASSUME NEW p \in Pids, proc'[p] = "zombie" PROVE p \in kids
    <3>1. proc[p] \in Live \cup {"zombie"}
      BY <1>2, <2>1
    <3> QED
      BY <3>1 DEF AcmdStop
  <2> QED
    BY <1>2, <2>1
<1> HIDE DEF Live
<1> QED
  BY <1>3, <1>4, <1>6, <1>7

(* Reaping takes away the one child there may be.                          *)
LEMMA ReapEmpties ==
  ASSUME IInv, up, perfpid # 0, loop # "collected", Reap
  PROVE  /\ kids' = {}
         /\ LivePids' = {}
         /\ proc' \in [Pids -> ProcStates]
         /\ \A p \in Pids : proc'[p] # "zombie"
<1> USE PidsAssumption DEF IInv, TypeOK, SlotOwnsChild, NoForgottenChild, LivePids, Serving
<1>1. CASE Awaited = {} /\ UNCHANGED <<proc, kids>>
  <2>1. kids = {}
    BY <1>1 DEF Awaited
  <2> QED
    BY <1>1, <2>1
<1>2. ASSUME NEW p \in Awaited, proc[p] = "zombie",
             proc' = [proc EXCEPT ![p] = "free"], kids' = kids \ {p}
      PROVE  /\ kids' = {}
             /\ LivePids' = {}
             /\ proc' \in [Pids -> ProcStates]
             /\ \A q \in Pids : proc'[q] # "zombie"
  <2>1. p \in kids /\ p \in Pids /\ kids = {p}
    BY <1>2 DEF Awaited
  <2>2. \A q \in Pids : q # p => proc[q] \in {"free", "alien"}
    BY <2>1
  <2> QED
    BY <1>2, <2>1, <2>2
<1> QED
  BY <1>1, <1>2 DEF Reap

LEMMA CheckdonePreserves == IInv /\ AcmdCheckdone => IInv'
<1> SUFFICES ASSUME IInv, AcmdCheckdone PROVE IInv'
  OBVIOUS
<1> USE PidsAssumption DEF IInv, TypeOK, SlotOwnsChild, NoForgottenChild, OneRecorder,
        LivePids, Serving
<1>1. CASE CheckdoneWait
  BY <1>1 DEF CheckdoneWait, Exchanges
<1>2. CASE CheckdoneIdle
  BY <1>2 DEF CheckdoneIdle, Exchanges
<1>3. CASE CheckdoneDone
  <2>1. /\ kids' = {} /\ LivePids' = {} /\ proc' \in [Pids -> ProcStates]
        /\ \A p \in Pids : proc'[p] # "zombie"
    BY <1>3, ReapEmpties DEF CheckdoneDone
  <2>2. /\ perfpid' = 0 /\ perfrunning' = 0 /\ last' \in Exchanges
        /\ up' /\ loop' = "ready" /\ UNCHANGED <<up, timed>>
    BY <1>3 DEF CheckdoneDone, ReleaseSlot, Exchanges
  <2> QED
    BY <2>1, <2>2
<1> QED
  BY <1>1, <1>2, <1>3 DEF AcmdCheckdone

LEMMA WaitPreserves == IInv /\ (AcmdWait \/ WaitReaps \/ WaitReturns) => IInv'
<1> SUFFICES ASSUME IInv, AcmdWait \/ WaitReaps \/ WaitReturns PROVE IInv'
  OBVIOUS
<1> USE PidsAssumption DEF IInv, TypeOK, SlotOwnsChild, NoForgottenChild, OneRecorder,
        LivePids, Serving
<1>1. CASE AcmdWait
  BY <1>1 DEF AcmdWait, Exchanges
<1>2. CASE WaitReaps
  <2>1. /\ kids' = {} /\ LivePids' = {} /\ proc' \in [Pids -> ProcStates]
        /\ \A p \in Pids : proc'[p] # "zombie"
    BY <1>2, ReapEmpties DEF WaitReaps
  <2>2. loop' = "collected" /\ UNCHANGED <<up, perfpid, perfrunning, timed, last>>
    BY <1>2 DEF WaitReaps
  <2> QED
    BY <1>2, <2>1, <2>2 DEF WaitReaps
<1>3. CASE WaitReturns
  BY <1>3 DEF WaitReturns, ReleaseSlot, Exchanges
<1> QED
  BY <1>1, <1>2, <1>3

LEMMA EndsPreserves ==
  ASSUME IInv, NEW p \in Pids, proc[p] \in Live, Ends(p)
  PROVE  IInv'
<1> USE PidsAssumption DEF IInv, TypeOK, SlotOwnsChild, NoForgottenChild, OneRecorder,
        LivePids, Serving
<1>1. /\ proc' \in [Pids -> ProcStates]
      /\ proc'[p] = IF p \in kids THEN "zombie" ELSE "free"
      /\ \A q \in Pids : q # p => proc'[q] = proc[q]
  BY DEF Ends
<1>2. UNCHANGED <<up, loop, perfpid, perfrunning, kids, timed, last>>
  BY DEF Ends
<1>3. LivePids' \subseteq LivePids
  BY <1>1
<1> QED
  BY <1>1, <1>2, <1>3

LEMMA ProcessesPreserve == IInv /\ Processes => IInv'
<1> SUFFICES ASSUME IInv, NEW p \in Pids,
                    Exec(p) \/ ExecFails(p) \/ CommandEnds(p) \/ StopCompletes(p)
                      \/ AlienChanges(p)
             PROVE  IInv'
  BY DEF Processes
<1>1. CASE Exec(p)
  BY <1>1 DEF IInv, TypeOK, SlotOwnsChild, NoForgottenChild, OneRecorder, LivePids,
              Serving, Exec
<1>2. CASE ExecFails(p)
  BY <1>2, EndsPreserves DEF ExecFails
<1>3. CASE CommandEnds(p)
  BY <1>3, EndsPreserves DEF CommandEnds
<1>4. CASE StopCompletes(p)
  BY <1>4, EndsPreserves DEF StopCompletes
<1>5. CASE AlienChanges(p)
  BY <1>5 DEF IInv, TypeOK, SlotOwnsChild, NoForgottenChild, OneRecorder, LivePids,
              Serving, AlienChanges
<1> QED
  BY <1>1, <1>2, <1>3, <1>4, <1>5

LEMMA DaemonPreserves == IInv /\ (ExitServer \/ Crash \/ Restart) => IInv'
<1> SUFFICES ASSUME IInv, ExitServer \/ Crash \/ Restart PROVE IInv'
  OBVIOUS
<1> USE PidsAssumption DEF IInv, TypeOK, SlotOwnsChild, NoForgottenChild, OneRecorder,
        LivePids, Serving
<1>1. CASE DaemonEnds
  BY <1>1 DEF DaemonEnds, ReleaseSlot, Exchanges
<1>2. CASE Restart
  BY <1>2 DEF Restart, PortFree
<1> QED
  BY <1>1, <1>2 DEF ExitServer, Crash

-----------------------------------------------------------------------------
(* IInv holds in every state: it is true at the start and every step of    *)
(* the handlers, the processes and the daemon's own life keeps it.         *)
THEOREM Invariance == SafeSpec => []IInv
<1>1. Init => IInv
  BY PidsAssumption DEF Init, IInv, TypeOK, SlotOwnsChild, NoForgottenChild, OneRecorder,
     LivePids, Serving, Exchanges
<1>2. IInv /\ [Next]_vars => IInv'
  <2> SUFFICES ASSUME IInv, [Next]_vars PROVE IInv'
    OBVIOUS
  <2>1. CASE AcmdStartRefused
    BY <2>1 DEF AcmdStartRefused, IInv, TypeOK, SlotOwnsChild, NoForgottenChild,
       OneRecorder, LivePids, Serving, Exchanges
  <2>2. CASE UNCHANGED vars
    BY <2>2 DEF vars, IInv, TypeOK, SlotOwnsChild, NoForgottenChild, OneRecorder,
       LivePids, Serving
  <2> QED
    BY <2>1, <2>2, StartPreserves, StopPreserves, CheckdonePreserves, WaitPreserves,
       ProcessesPreserve, DaemonPreserves DEF Next
<1> QED
  BY <1>1, <1>2, PTL DEF SafeSpec

(* The variables keep to their values for every set of pids.               *)
THEOREM TypeCorrect == SafeSpec => []TypeOK
<1>1. IInv => TypeOK
  BY DEF IInv
<1> QED
  BY <1>1, Invariance, PTL

(* When a request is served, a positive perfpid is an unreaped child.      *)
THEOREM SlotOwned == SafeSpec => []SlotOwnsChild
<1>1. IInv => SlotOwnsChild
  BY DEF IInv
<1> QED
  BY <1>1, Invariance, PTL

(* No forked child is forgotten.                                           *)
THEOREM ChildrenKnown == SafeSpec => []NoForgottenChild
<1>1. IInv => NoForgottenChild
  BY DEF IInv
<1> QED
  BY <1>1, Invariance, PTL

(* At most one command records, whatever the daemon's crashes and restarts. *)
THEOREM RecorderUnique == SafeSpec => []OneRecorder
<1>1. IInv => OneRecorder
  BY DEF IInv
<1> QED
  BY <1>1, Invariance, PTL

(* acmdstop reaches the command and nobody else, failed forks aside.       *)
THEOREM StopIsSafe == SafeSpec => StopSparesOthers
<1> DEFINE StepOK == AcmdStop /\ perfpid # -1 =>
                       \A p \in Pids : proc'[p] # proc[p] => p \in kids
<1>1. IInv /\ [Next]_vars => [StepOK]_vars
  <2> SUFFICES ASSUME IInv, AcmdStop, perfpid # -1, NEW p \in Pids, proc'[p] # proc[p]
               PROVE  p \in kids
    OBVIOUS
  <2>1. p \in Signalled
    BY DEF AcmdStop
  <2>2. p = perfpid
    BY <2>1 DEF Signalled
  <2> QED
    BY <2>2 DEF AcmdStop, IInv, SlotOwnsChild
<1>2. SafeSpec => [][StepOK]_vars
  BY <1>1, Invariance, PTL DEF SafeSpec
<1> QED
  BY <1>2 DEF StopSparesOthers

-----------------------------------------------------------------------------
(* The daemon implements the one-place promise of CmdSlot: its initial     *)
(* state is the abstract one, and each of its steps is an abstract step    *)
(* or leaves the abstract state alone.                                     *)
LEMMA StepRefines == IInv /\ [Next]_vars => [Abstract!Next]_(Abstract!vars)
<1> SUFFICES ASSUME IInv, [Next]_vars
             PROVE  Abstract!Next \/ UNCHANGED Abstract!vars
  OBVIOUS
<1> USE PidsAssumption DEF IInv, TypeOK, SlotOwnsChild, NoForgottenChild, Serving,
        JobOf, Abstract!vars
<1>1. CASE AcmdStart
  <2>1. JobOf' \in {"active", "ended"}
    BY <1>1 DEF AcmdStart, Fork, ForkFails
  <2> QED
    BY <1>1, <2>1 DEF AcmdStart, Abstract!Next, Abstract!Accept
<1>2. CASE AcmdStartRefused
  BY <1>2 DEF AcmdStartRefused, Abstract!Next, Abstract!Refuse
<1>3. CASE AcmdStop
  <2>1. \A p \in Pids : proc[p] = "zombie" => proc'[p] = "zombie"
    BY <1>3 DEF AcmdStop, Interrupted
  <2>2. JobOf' = JobOf \/ (JobOf = "active" /\ JobOf' = "ended")
    BY <1>3, <2>1 DEF AcmdStop
  <2> QED
    BY <1>3, <2>2 DEF AcmdStop, Abstract!Next, Abstract!Stop
<1>4. CASE CheckdoneWait
  <2>1. -1 \notin Pids /\ kids \subseteq Pids
    OBVIOUS
  <2>2. perfpid \in Pids /\ perfpid # 0 /\ perfpid # -1
    BY <1>4, <2>1 DEF CheckdoneWait, NothingToReap, Awaited
  <2>3. proc[perfpid] # "zombie"
    BY <1>4, <2>2 DEF CheckdoneWait, NothingToReap, Awaited
  <2> QED
    BY <1>4, <2>2, <2>3 DEF CheckdoneWait, Abstract!Next, Abstract!StillActive
<1>5. CASE CheckdoneDone
  <2>1. perfpid = -1 \/ proc[perfpid] = "zombie"
    BY <1>5 DEF CheckdoneDone, Reap, Awaited
  <2> QED
    BY <1>5, <2>1 DEF CheckdoneDone, ReleaseSlot, Abstract!Next, Abstract!Collect
<1>6. CASE CheckdoneIdle
  BY <1>6 DEF CheckdoneIdle, Abstract!Next, Abstract!Idle
<1>7. CASE AcmdWait
  BY <1>7 DEF AcmdWait, Abstract!Next, Abstract!Idle
<1>8. CASE WaitReaps
  <2>1. perfpid = -1 \/ proc[perfpid] = "zombie"
    BY <1>8 DEF WaitReaps, Reap, Awaited
  <2> QED
    BY <1>8, <2>1 DEF WaitReaps
<1>9. CASE WaitReturns
  BY <1>9 DEF WaitReturns, ReleaseSlot, Abstract!Next, Abstract!Collect
<1>10. CASE Processes
  <2>1. /\ UNCHANGED <<loop, perfpid, last>>
        /\ proc' \in [Pids -> ProcStates]
        /\ \A p \in Pids : proc[p] = "zombie" => proc'[p] = "zombie"
    BY <1>10 DEF Processes, Exec, ExecFails, CommandEnds, StopCompletes, AlienChanges, Ends
  <2>2. JobOf' = JobOf \/ (JobOf = "active" /\ JobOf' = "ended")
    BY <2>1
  <2> QED
    BY <2>1, <2>2 DEF Abstract!Next, Abstract!End
<1>11. CASE ExitServer \/ Crash
  BY <1>11 DEF ExitServer, Crash, DaemonEnds, ReleaseSlot, Abstract!Next, Abstract!Forget
<1>12. CASE Restart
  BY <1>12 DEF Restart
<1>13. CASE UNCHANGED vars
  BY <1>13 DEF vars
<1> QED
  BY <1>1, <1>2, <1>3, <1>4, <1>5, <1>6, <1>7, <1>8, <1>9, <1>10, <1>11, <1>12, <1>13
     DEF Next, AcmdCheckdone

(* ztracerd's asynchronous commands keep the promise of CmdSlot.           *)
THEOREM Refinement == SafeSpec => AbstractSafe
<1>1. Init => Abstract!Init
  BY DEF Init, JobOf, Abstract!Init
<1> QED
  BY <1>1, Invariance, StepRefines, PTL DEF SafeSpec, AbstractSafe, Abstract!SafeSpec
=============================================================================
