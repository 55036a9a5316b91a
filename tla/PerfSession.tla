----------------------------- MODULE PerfSession -----------------------------
(***************************************************************************)
(* The perf pages (app/main/views_perf.py, app/record/perf.py) over the    *)
(* daemon's one place for a command (CmdSlot).  The web server has one     *)
(* worker: requests of all pages are handled one after the other, in the   *)
(* order in which buttons are pressed and page timers fire, which is any   *)
(* order.  A view makes calls on the Zclient, one per step here; between   *)
(* two calls the device and the network move.  All pages use the one Perf  *)
(* object of the device, and the one file perf.stack.                      *)
(***************************************************************************)
EXTENDS Naturals

CONSTANTS
  Funcs,       \* the functions a user may want to probe
  MaxStarts    \* bound: recordings accepted by the daemon

ASSUME FuncsAssumption == "none" \notin Funcs
ASSUME StartsAssumption == MaxStarts \in Nat

VARIABLES
  job, last,   \* the daemon's place for a command, and its last answer (CmdSlot)
  daemon,      \* the daemon is there
  link,        \* "up", "off" (the Zclient knows), "reset" (it does not)
  recorder,    \* perf on the device: "none", "forked", "recording"
  uses,        \* the probe events it was told to record
  told,        \* history: it has been sent SIGINT
  data,        \* perf.data on the device: the recording it is of, and whether
               \* perf has finished writing it
  started,     \* history: number of the recording accepted last
  unborn,      \* history: that recording ended before perf began to record
  probes,      \* the probe events defined on the device: <<function, kind>>
  pc,          \* what the worker does next; "idle": no request
  view,        \* the request in work, with what its form says
  func,        \* Perf.func
  traceRet,    \* Perf.trace_ret
  stack,       \* perf.stack
  swept,       \* history: the last delallprobe left no probe behind, and what
               \* was to be deleted after it has been deleted by perf
  ran          \* history: perf was run for all the additions and for the
               \* delallprobe of the request in work

command == <<recorder, uses, told, data, started, unborn>>
perf == <<func, traceRet>>
vars == <<job, last, daemon, link, command, probes, pc, view, perf, stack, swept, ran>>

Daemon == INSTANCE CmdSlot

NoFile == [of |-> 0, whole |-> TRUE]
Starts == {"perf_start", "perf_probestart", "perf_syscallstart"}
Stops == {"perf_stop", "perf_probestop", "perf_syscallstop"}
Blank == [name |-> "none", func |-> "none", ret |-> FALSE]
Requests == {[Blank EXCEPT !.name = n] : n \in Starts \cup Stops \cup {"perf_checkdone"}}
            \cup [name : {"perf_probestart"}, func : Funcs, ret : BOOLEAN]
Events == Funcs \X {"call", "return"}

\* Each variable keeps to its values, and a connection has a daemon behind it.
TypeOK == /\ Daemon!TypeOK
          /\ {daemon, told, unborn, traceRet, swept, ran} \subseteq BOOLEAN
          /\ link \in {"up", "off", "reset"} /\ (link = "up" => daemon)
          /\ recorder \in {"none", "forked", "recording"}
          /\ {data, stack} \subseteq [of : 0..MaxStarts, whole : BOOLEAN]
          /\ started \in 0..MaxStarts
          /\ probes \subseteq Events /\ uses \subseteq Events
          /\ pc \in {"idle", "delall", "add", "addret", "start", "stop", "poll",
                     "script", "show", "delret", "del"}
          /\ view \in Requests \cup {Blank}
          /\ func \in Funcs \cup {"none"}

Init == /\ Daemon!Init
        /\ daemon = TRUE /\ link = "up"
        /\ recorder = "none" /\ uses = {} /\ told = FALSE
        /\ data = NoFile /\ started = 0 /\ unborn = FALSE
        /\ probes = {} /\ swept = TRUE /\ ran = TRUE
        /\ pc = "idle" /\ view = Blank
        /\ func = "none" /\ traceRet = FALSE
        /\ stack = NoFile

-----------------------------------------------------------------------------
(* Requests and calls                                                      *)

\* A call does its service unless the connection is gone already, in which case
\* it returns None; the connection may also break before the answer is there.
Call(service) == \/ /\ link # "up"
                    /\ UNCHANGED <<link, job, last, daemon, command, probes>>
                 \/ link = "up" /\ link' \in {"up", "off", "reset"} /\ service
Answered == link' = "up"

\* A call that runs a program on the device (acmdresult) leaves the place alone.
\* It is answered also if there is no such program, with what the shell says of
\* it where stderr is asked for, or no process for the shell, with nothing; the
\* wrapper of the Zclient returns None for an empty answer.
Program(effect, runs) == /\ IF runs THEN effect ELSE UNCHANGED probes
                         /\ UNCHANGED <<job, last, daemon, command>>

Goes(to, runs) == pc' = to /\ UNCHANGED view /\ ran' = (ran /\ runs)
Returns == pc' = "idle" /\ view' = Blank /\ ran' = TRUE

First(name) == CASE name = "perf_probestart" -> "delall"
                 [] name \in {"perf_start", "perf_syscallstart"} -> "start"
                 [] name \in Stops -> "stop"
                 [] name = "perf_checkdone" -> "poll"

\* Mutant: only perf_start removes the file.
RemovesOnce(name) == name = "perf_start"

\* A start removes the file before it is known whether it will be accepted.
Removes(name) == name \in Starts

Request == \E r \in Requests :
  /\ pc = "idle"
  /\ r.name \in Starts => started < MaxStarts
  /\ view' = r /\ pc' = First(r.name)
  /\ stack' = IF Removes(r.name) THEN NoFile ELSE stack
  /\ UNCHANGED <<job, last, daemon, link, command, probes, perf, swept, ran>>

\* Mutant: the flag is set whether the daemon has answered or not.
ReconnectAnyway == /\ pc = "idle" /\ link = "off"
                   /\ link' = "up"
                   /\ UNCHANGED <<job, last, daemon, command, probes, pc, view, perf, stack,
                                  swept, ran>>

\* profile(), for a connection that is known to be lost.
Reconnect == /\ pc = "idle" /\ link = "off" /\ daemon
             /\ link' = "up"
             /\ UNCHANGED <<job, last, daemon, command, probes, pc, view, perf, stack, swept, ran>>

-----------------------------------------------------------------------------
(* perf_probestart                                                         *)

\* perf probe -d: an event that is being recorded cannot be deleted.
Delete(events) ==
  probes' = probes \ (IF recorder = "recording" THEN events \ uses ELSE events)

\* Mutant: what this server has added is deleted, by its name.
EventsByName == {func} \X {"call", "return"}

\* ztracer:*
EventsOfGroup == probes

\* delallprobe, whose answer nobody looks at; then the form is read.
DelAllProbe == \E runs \in BOOLEAN :
  /\ pc = "delall"
  /\ Call(Program(Delete(EventsOfGroup), runs))
  /\ swept' = (probes' = {})
  /\ func' = view.func
  /\ IF view.func = "none"
     THEN Returns /\ UNCHANGED traceRet
     ELSE Goes("add", runs) /\ traceRet' = view.ret
  /\ UNCHANGED stack

\* perf probe -a fails if the event exists or there is no such function.
Add(kind) == probes' = probes \/ probes' = probes \cup {<<func, kind>>}

\* addprobe raises without an answer or with an empty one, and goes on unless
\* there is "Error" in it.  perf says so when it adds nothing; of what else may
\* come some has the word or is empty and some not: the shell says "perf: not
\* found", and perf names what it has added.
AddProbe(kind, next) == \E runs, error \in BOOLEAN :
  /\ Call(Program(Add(kind), runs))
  /\ runs /\ probes' = probes => error
  /\ IF Answered /\ ~error THEN Goes(next, runs) ELSE Returns
  /\ UNCHANGED <<perf, stack, swept>>

AddCall == pc = "add" /\ AddProbe("call", IF traceRet THEN "addret" ELSE "start")
AddReturn == pc = "addret" /\ AddProbe("return", "start")

-----------------------------------------------------------------------------
(* Starting and stopping                                                   *)

\* The events of the session of a probe.
Asked == {<<func, "call">>} \cup (IF traceRet THEN {<<func, "return">>} ELSE {})

\* acmdstart and perfastart: the daemon forks perf, or cannot, or refuses.
Accepted == /\ Daemon!Accept
            /\ started' = started + 1
            /\ recorder' = IF job' = "active" THEN "forked" ELSE "none"
            /\ unborn' = (job' = "ended")
            /\ uses' = IF view.name = "perf_probestart" THEN Asked ELSE {}
            /\ told' = FALSE
            /\ UNCHANGED <<data, daemon, probes>>
Refused == /\ job # "none" /\ Daemon!Refuse /\ last' = <<"start", "err">>
           /\ UNCHANGED <<daemon, command, probes>>

\* Whatever the answer, the view returns.
Start == /\ pc = "start"
         /\ Call(Accepted \/ Refused)
         /\ Returns
         /\ UNCHANGED <<perf, stack, swept>>

\* Mutant: a perf that does not record yet is left alone.
ToldLate == told \/ recorder = "recording"

\* Every command gets the signal.
Told == told \/ recorder # "none"

\* acmdstop: SIGINT ends a perf that has not set up its handler yet.
Interrupted ==
  /\ Daemon!Stop
  /\ IF job' = job
     THEN told' = Told /\ UNCHANGED <<recorder, uses, data, started, unborn>>
     ELSE /\ recorder = "forked" /\ recorder' = "none" /\ unborn' = TRUE
          /\ UNCHANGED <<uses, told, data, started>>
  /\ UNCHANGED <<daemon, probes>>

Stop == /\ pc = "stop"
        /\ Call(Interrupted)
        /\ IF Answered /\ view.name # "perf_stop" THEN Goes("poll", TRUE) ELSE Returns
        /\ UNCHANGED <<perf, stack, swept>>

\* acmdcheckdone
Checked == /\ Daemon!StillActive \/ Daemon!Idle \/ Daemon!Collect
           /\ last'[1] = "checkdone"
           /\ UNCHANGED <<daemon, command, probes>>

SaysDone == Answered /\ last'[2] = "done"

\* perf_checkdone asks once; the other two ask until it is done, without end if
\* the answer is None.
Poll == /\ pc = "poll"
        /\ Call(Checked)
        /\ IF SaysDone THEN Goes("script", TRUE)
           ELSE IF view.name = "perf_checkdone" THEN Returns
           ELSE Goes("poll", TRUE)
        /\ UNCHANGED <<perf, stack, swept>>

-----------------------------------------------------------------------------
(* The result                                                              *)

\* perf script, whose output is written to the file if there is any: without a
\* perf.data, or without perf, there is none, and the file is left alone.
Script == \E runs \in BOOLEAN :
  /\ pc = "script"
  /\ Call(Program(UNCHANGED probes, runs))
  /\ stack' = IF Answered /\ runs /\ data # NoFile THEN data ELSE stack
  /\ IF view.name = "perf_probestop" THEN Goes("show", TRUE) ELSE Returns
  /\ UNCHANGED <<perf, swept>>

\* Mutant: the probe of the returns is forgotten.
ShowForgets == IF func # "none" THEN Goes("del", TRUE) ELSE Returns

\* delprobe: with a return to trace and no function it raises.
DelProbe == IF func = "none" THEN Returns ELSE Goes(IF traceRet THEN "delret" ELSE "del", TRUE)

\* generate_stack and the heat maps raise if there is no file, no sample, or no
\* sample with the argument asked for (Perf.arg): then delprobe is not reached.
Show == /\ pc = "show"
        /\ (stack # NoFile /\ DelProbe) \/ Returns
        /\ UNCHANGED <<job, last, daemon, link, command, probes, perf, stack, swept>>

DelReturn == \E runs \in BOOLEAN :
  /\ pc = "delret"
  /\ Call(Program(Delete({<<func, "return">>}), runs))
  /\ traceRet' = FALSE
  /\ Goes("del", TRUE)
  /\ swept' = (swept /\ runs)
  /\ UNCHANGED <<func, stack>>

DelCall == \E runs \in BOOLEAN :
  /\ pc = "del"
  /\ Call(Program(Delete({<<func, "call">>}), runs))
  /\ func' = "none"
  /\ Returns
  /\ swept' = (swept /\ runs)
  /\ UNCHANGED <<traceRet, stack>>

Work == \/ DelAllProbe \/ AddCall \/ AddReturn \/ Start \/ Stop \/ Poll
        \/ Script \/ Show \/ DelReturn \/ DelCall

-----------------------------------------------------------------------------
(* The device and the network                                              *)

pages == <<pc, view, perf, stack, swept, ran>>

\* perf opens perf.data and records, if the events it was given exist.
Begins == /\ recorder = "forked" /\ uses \subseteq probes
          /\ recorder' = "recording"
          /\ data' = [of |-> started, whole |-> FALSE]
          /\ UNCHANGED <<job, last, daemon, link, uses, told, started, unborn, probes, pages>>

\* The place knows of the end if it is a command of this daemon.
Ended == IF job = "active" THEN Daemon!End ELSE UNCHANGED <<job, last>>

\* It ends, by itself or by a signal, and completes the file.
Ends == /\ recorder = "recording" /\ recorder' = "none"
        /\ data' = [data EXCEPT !.whole = TRUE]
        /\ Ended
        /\ UNCHANGED <<daemon, link, uses, told, started, unborn, probes, pages>>

\* It ends before it records: no perf, a wrong option, an event that has gone.
Unborn == /\ recorder = "forked" /\ recorder' = "none"
          /\ unborn' = TRUE
          /\ Ended
          /\ UNCHANGED <<daemon, link, uses, told, data, started, probes, pages>>

LinkFails == /\ link = "up" /\ link' \in {"off", "reset"}
             /\ UNCHANGED <<job, last, daemon, command, probes, pages>>

DaemonDies == /\ daemon /\ daemon' = FALSE
              /\ link' = IF link = "up" THEN "off" ELSE link
              /\ Daemon!Forget
              /\ UNCHANGED <<command, probes, pages>>

\* A command that outlives its daemon keeps the port (AsyncCmd, PortFree).
DaemonRestarts == /\ ~daemon /\ recorder = "none" /\ daemon' = TRUE
                  /\ UNCHANGED <<job, last, link, command, probes, pages>>

Next == \/ Request \/ Reconnect \/ Work
        \/ Begins \/ Ends \/ Unborn \/ LinkFails \/ DaemonDies \/ DaemonRestarts

\* A view runs on while its calls are answered, and a perf that has been told to
\* stop ends (AsyncCmd, StopFreesSlot).  Nothing is assumed of the network and of
\* the users.
Fairness == /\ WF_vars(Work /\ Answered)
            /\ WF_vars(told /\ (Begins \/ Ends \/ Unborn))

SafeSpec == Init /\ [][Next]_vars
Spec == SafeSpec /\ Fairness

-----------------------------------------------------------------------------
(* Properties                                                              *)

\* A result on display is complete, is that of the last recording accepted,
\* unless that one never began, and nothing is being recorded over it: whatever
\* pages start, stop and poll between each other, and although neither a start
\* that is refused nor a call without answer is undone.
StackCurrent ==
  stack # NoFile => /\ stack.whole
                    /\ stack.of = started \/ unborn
                    /\ job = "none"

\* When a probe starts to be recorded the device has the events of its session
\* and no others, whatever an earlier session, ended by an exception or a lost
\* connection, has left there: if perf was run to delete and to add them.  The
\* view does not see that it was not, and then an event of the session may be
\* missing; one of another session is there only if delallprobe has left it.
ProbesAsAsked ==
  [][job = "none" /\ job' = "active" /\ view.name = "perf_probestart"
       => (ran => probes = Asked) /\ (swept => probes \subseteq Asked)]_vars

\* A session that is stopped, and whose page gets its result, leaves no probe on
\* the device, if nothing was in the way of delallprobe when it began, and perf
\* was run to delete what was added.
ProbesRemoved ==
  [][pc = "del" /\ Answered /\ swept' => probes' = {}]_vars

\* The one worker returns from every request while the connection holds: the
\* loops of perf_probestop and perf_syscallstop end.
RequestsReturn == pc # "idle" /\ link = "up" ~> pc = "idle" \/ link # "up"
-----------------------------------------------------------------------------
(* The inductive invariant                                                 *)

\* While the daemon is there its place is active exactly as long as perf runs; a
\* perf that outlives its daemon is in no place.
OnePerf == job = "active" <=> daemon /\ recorder # "none"
NoPlace == ~daemon => job = "none"

\* perf.data is of the recording accepted last from when perf begins to record.
DataOf == /\ recorder # "recording" => data.whole
          /\ recorder = "recording" => data.of = started
          /\ recorder = "none" => data.of = started \/ unborn

\* A view that starts has removed perf.stack, and one that probes knows what.
Starting == /\ pc \in {"delall", "add", "addret", "start"}
               => stack = NoFile /\ started < MaxStarts /\ view.name \in Starts
            /\ pc \in {"delall", "add", "addret"} => view.name = "perf_probestart"
            /\ pc \in {"add", "addret"} => func \in Funcs
            /\ pc = "addret" => traceRet
            /\ pc = "start" /\ view.name = "perf_probestart" => func \in Funcs

\* A view that has heard "done" has the place to itself.
Emptied == pc \in {"script", "show", "delret", "del"} => job = "none"

\* What is there of the probes asked for, if the place was empty all along and
\* perf was run.
SoFar == CASE pc = "add" -> {}
           [] pc = "addret" -> {<<func, "call">>}
           [] pc = "start" -> Asked
           [] OTHER -> probes
Prepared == link = "up" /\ job = "none" /\ view.name = "perf_probestart" /\ ran
              => probes = SoFar

\* What delallprobe has swept holds no other probes than those added since, but
\* that of a return whose removal was lost with the connection.
Swept == swept /\ func # "none" /\ (pc = "del" => link = "up") => probes \subseteq Asked

\* delprobe removes the event of the call last.
Deleting == /\ pc \in {"delret", "del"} => func # "none"
            /\ pc = "del" => ~traceRet

\* Inductive: every step preserves it (PerfSessionProofs).
IInv == /\ TypeOK /\ OnePerf /\ NoPlace /\ DataOf /\ Starting /\ Emptied /\ Deleting
        /\ StackCurrent /\ Prepared /\ Swept
=============================================================================
