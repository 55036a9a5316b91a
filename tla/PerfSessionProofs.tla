------------------------- MODULE PerfSessionProofs --------------------------
(* Theorems about the perf pages, for all functions a user may ask for and  *)
(* every number of recordings.                                              *)
EXTENDS PerfSession, TLAPS

Kinds == {"call", "return"}

(* What the form of a request may say.                                      *)
LEMMA Forms ==
  ASSUME NEW r \in Requests \cup {Blank}
  PROVE  /\ r.name \in Starts \cup Stops \cup {"perf_checkdone", "none"}
         /\ r.func \in Funcs \cup {"none"}
         /\ r.ret \in BOOLEAN
<1>1. CASE r \in [name : {"perf_probestart"}, func : Funcs, ret : BOOLEAN]
  BY <1>1 DEF Starts
<1>2. CASE \E n \in Starts \cup Stops \cup {"perf_checkdone"} : r = [Blank EXCEPT !.name = n]
  BY <1>2 DEF Blank
<1>3. CASE r = Blank
  BY <1>3 DEF Blank
<1> QED
  BY <1>1, <1>2, <1>3 DEF Requests

(* The first step of a view, by the kind of its request.                    *)
LEMMA FirstSteps ==
  ASSUME NEW r \in Requests
  PROVE  /\ First(r.name) \in {"delall", "start", "stop", "poll"}
         /\ First(r.name) \in {"delall", "start"} => r.name \in Starts
         /\ First(r.name) = "delall" => r.name = "perf_probestart"
         /\ First(r.name) = "start" => r.name # "perf_probestart"
<1>1. r.name \in Starts \cup Stops \cup {"perf_checkdone"}
  <2>1. CASE r \in [name : {"perf_probestart"}, func : Funcs, ret : BOOLEAN]
    BY <2>1 DEF Starts
  <2>2. CASE \E n \in Starts \cup Stops \cup {"perf_checkdone"} : r = [Blank EXCEPT !.name = n]
    BY <2>2 DEF Blank
  <2> QED
    BY <2>1, <2>2 DEF Requests
<1> QED
  BY <1>1 DEF First, Starts, Stops

(* The events of a session are events.                                      *)
LEMMA AskedEvents == func \in Funcs => Asked \subseteq Events
BY DEF Asked, Events

(* The invariant holds at the beginning.                                    *)
LEMMA InitIInv == Init => IInv
<1> SUFFICES ASSUME Init PROVE IInv
  OBVIOUS
<1> USE DEF Init
<1>1. TypeOK
  <2>1. Daemon!TypeOK
    BY DEF Daemon!Init, Daemon!TypeOK, Daemon!Jobs, Daemon!Exchanges
  <2>2. {data, stack} \subseteq [of : 0..MaxStarts, whole : BOOLEAN] /\ started \in 0..MaxStarts
    BY StartsAssumption DEF NoFile
  <2>3. {daemon, told, unborn, traceRet, swept, ran} \subseteq BOOLEAN
    OBVIOUS
  <2>4. probes \subseteq Events /\ uses \subseteq Events
    OBVIOUS
  <2> QED
    BY <2>1, <2>2, <2>3, <2>4 DEF TypeOK
<1>2. OnePerf /\ NoPlace /\ DataOf
  BY DEF OnePerf, NoPlace, DataOf, NoFile, Daemon!Init
<1>3. Starting /\ Emptied /\ Deleting /\ StackCurrent
  BY DEF Starting, Emptied, Deleting, StackCurrent, Daemon!Init
<1>4. Prepared
  BY DEF Prepared, Blank
<1>5. Swept
  BY DEF Swept
<1> QED
  BY <1>1, <1>2, <1>3, <1>4, <1>5 DEF IInv

(* A request begins: a start has the room it asks for, and removes the file. *)
LEMMA RequestIInv == IInv /\ Request => IInv'
<1> SUFFICES ASSUME IInv, NEW r \in Requests, pc = "idle",
                    r.name \in Starts => started < MaxStarts,
                    view' = r, pc' = First(r.name),
                    stack' = IF Removes(r.name) THEN NoFile ELSE stack,
                    UNCHANGED <<job, last, daemon, link, command, probes, perf, swept, ran>>
             PROVE  IInv'
  BY DEF Request
<1> USE FirstSteps, Forms, StartsAssumption DEF IInv, command, perf
<1>1. TypeOK'
  BY DEF TypeOK, Daemon!TypeOK, NoFile
<1>2. OnePerf' /\ NoPlace' /\ DataOf'
  BY DEF OnePerf, NoPlace, DataOf
<1>3. Starting' /\ Emptied' /\ Deleting'
  BY DEF Starting, Emptied, Deleting, Removes
<1>4. StackCurrent'
  BY DEF StackCurrent
<1>5. Prepared'
  BY DEF Prepared, SoFar, Starts
<1>6. Swept'
  BY DEF Swept, Asked
<1> QED
  BY <1>1, <1>2, <1>3, <1>4, <1>5, <1>6

(* A call never brings a connection up, and an answer means that the service  *)
(* was done.                                                                 *)
LEMMA Calls ==
  ASSUME TypeOK, NEW ACTION service, Call(service)
  PROVE  /\ link' \in {"up", "off", "reset"}
         /\ link' = "up" => link = "up" /\ service
         /\ \/ service
            \/ UNCHANGED <<link, job, last, daemon, command, probes>>
BY DEF Call, TypeOK

(* The reconnection of an idle worker.                                       *)
LEMMA ReconnectIInv == IInv /\ Reconnect => IInv'
<1> SUFFICES ASSUME IInv, Reconnect PROVE IInv'
  OBVIOUS
<1> USE DEF IInv, Reconnect, command, perf
<1>1. TypeOK'
  BY DEF TypeOK, Daemon!TypeOK
<1>2. OnePerf' /\ NoPlace' /\ DataOf' /\ StackCurrent'
  BY DEF OnePerf, NoPlace, DataOf, StackCurrent
<1>3. Starting' /\ Emptied' /\ Deleting'
  BY DEF Starting, Emptied, Deleting
<1>4. Prepared'
  BY DEF Prepared, SoFar
<1>5. Swept'
  BY DEF Swept, Asked
<1> QED
  BY <1>1, <1>2, <1>3, <1>4, <1>5

(* delallprobe: with an answer, and nothing recorded, no probe is left.      *)
LEMMA DelAllProbeIInv == IInv /\ DelAllProbe => IInv'
<1> SUFFICES ASSUME IInv, DelAllProbe PROVE IInv'
  OBVIOUS
<1> USE DEF IInv, DelAllProbe
<1>1. view.name = "perf_probestart" /\ view.func \in Funcs \cup {"none"} /\ view.ret \in BOOLEAN
  BY Forms DEF TypeOK, Starting
<1>2. PICK runs \in BOOLEAN :
        /\ Call(Program(Delete(EventsOfGroup), runs))
        /\ func' = view.func
        /\ IF view.func = "none"
           THEN Returns /\ UNCHANGED traceRet
           ELSE Goes("add", runs) /\ traceRet' = view.ret
  BY Zenon
<1>3. /\ link' \in {"up", "off", "reset"} /\ (link' = "up" => link = "up")
      /\ UNCHANGED <<job, last, daemon, command>> /\ probes' \subseteq probes
      /\ link' = "up" /\ runs /\ recorder # "recording" => probes' = {}
  BY <1>2, Calls DEF Program, Delete, EventsOfGroup
<1>4. \/ view.func = "none" /\ pc' = "idle" /\ view' = Blank /\ func' = "none" /\ traceRet' = traceRet
         /\ ran' = TRUE
      \/ view.func \in Funcs /\ pc' = "add" /\ view' = view /\ func' = view.func /\ traceRet' = view.ret
         /\ ran' \in BOOLEAN /\ (ran' => runs)
  BY <1>1, <1>2 DEF Goes, Returns
<1>5. stack' = stack /\ swept' = (probes' = {}) /\ pc = "delall"
  OBVIOUS
<1> HIDE DEF DelAllProbe
<1> USE DEF command
<1>6. TypeOK'
  BY <1>1, <1>3, <1>4, <1>5 DEF TypeOK, Daemon!TypeOK
<1>7. OnePerf' /\ NoPlace' /\ DataOf' /\ StackCurrent'
  BY <1>3, <1>5 DEF OnePerf, NoPlace, DataOf, StackCurrent
<1>8. Starting' /\ Emptied' /\ Deleting'
  BY <1>1, <1>3, <1>4, <1>5 DEF Starting, Emptied, Deleting, NoFile
<1>9. Prepared'
  BY <1>3, <1>4 DEF Prepared, SoFar, Blank, OnePerf, TypeOK
<1>10. Swept'
  BY <1>5 DEF Swept
<1> QED
  BY <1>6, <1>7, <1>8, <1>9, <1>10

(* addprobe: one more event of the session.                                  *)
LEMMA AddCallIInv == IInv /\ AddCall => IInv'
<1> SUFFICES ASSUME IInv, AddCall PROVE IInv'
  OBVIOUS
<1>1. /\ pc = "add" /\ view.name = "perf_probestart" /\ func \in Funcs
      /\ stack = NoFile /\ started < MaxStarts
  BY DEF AddCall, IInv, Starting
<1>2. PICK runs \in BOOLEAN, error \in BOOLEAN :
        /\ Call(Program(Add("call"), runs))
        /\ runs /\ probes' = probes => error
        /\ IF Answered /\ ~error THEN Goes((IF traceRet THEN "addret" ELSE "start"), runs) ELSE Returns
  BY Zenon DEF AddCall, AddProbe
<1>3. /\ link' \in {"up", "off", "reset"} /\ (link' = "up" => link = "up")
      /\ UNCHANGED <<job, last, daemon, command>>
      /\ probes' = probes \/ probes' = probes \cup {<<func, "call">>}
  BY <1>2, Calls DEF IInv, Program, Add
<1>4. UNCHANGED <<func, traceRet, stack, swept>>
  BY DEF AddCall, AddProbe, perf
<1>5. \/ pc' = "idle" /\ view' = Blank /\ ran' = TRUE
      \/ /\ pc' = (IF traceRet THEN "addret" ELSE "start") /\ view' = view
         /\ ran' \in BOOLEAN /\ (ran' => ran)
         /\ link' = "up" /\ (ran' => probes' # probes)
  BY <1>2 DEF Goes, Returns, Answered
<1> USE DEF IInv, command
<1>6. TypeOK'
  <2>1. probes' \subseteq Events
    BY <1>1, <1>3 DEF TypeOK, Events
  <2>2. ran' \in BOOLEAN /\ view' \in Requests \cup {Blank}
    BY <1>5 DEF TypeOK
  <2> QED
    BY <1>1, <1>3, <1>4, <1>5, <2>1, <2>2 DEF TypeOK, Daemon!TypeOK
<1>7. OnePerf' /\ NoPlace' /\ DataOf' /\ StackCurrent'
  BY <1>3, <1>4 DEF OnePerf, NoPlace, DataOf, StackCurrent
<1>8. Starting' /\ Emptied' /\ Deleting'
  BY <1>1, <1>3, <1>4, <1>5 DEF Starting, Emptied, Deleting, TypeOK
<1>9. Prepared'
  BY <1>1, <1>3, <1>4, <1>5 DEF Prepared, SoFar, Blank, Asked
<1>10. Swept'
  BY <1>1, <1>3, <1>4 DEF Swept, Asked
<1> QED
  BY <1>6, <1>7, <1>8, <1>9, <1>10

LEMMA AddReturnIInv == IInv /\ AddReturn => IInv'
<1> SUFFICES ASSUME IInv, AddReturn PROVE IInv'
  OBVIOUS
<1>1. /\ pc = "addret" /\ view.name = "perf_probestart" /\ func \in Funcs /\ traceRet
      /\ stack = NoFile /\ started < MaxStarts
  BY DEF AddReturn, IInv, Starting
<1>2. PICK runs \in BOOLEAN, error \in BOOLEAN :
        /\ Call(Program(Add("return"), runs))
        /\ runs /\ probes' = probes => error
        /\ IF Answered /\ ~error THEN Goes("start", runs) ELSE Returns
  BY Zenon DEF AddReturn, AddProbe
<1>3. /\ link' \in {"up", "off", "reset"} /\ (link' = "up" => link = "up")
      /\ UNCHANGED <<job, last, daemon, command>>
      /\ probes' = probes \/ probes' = probes \cup {<<func, "return">>}
  BY <1>2, Calls DEF IInv, Program, Add
<1>4. UNCHANGED <<func, traceRet, stack, swept>>
  BY DEF AddReturn, AddProbe, perf
<1>5. \/ pc' = "idle" /\ view' = Blank /\ ran' = TRUE
      \/ /\ pc' = "start" /\ view' = view
         /\ ran' \in BOOLEAN /\ (ran' => ran)
         /\ link' = "up" /\ (ran' => probes' # probes)
  BY <1>2 DEF Goes, Returns, Answered
<1> USE DEF IInv, command
<1>6. TypeOK'
  <2>1. probes' \subseteq Events
    BY <1>1, <1>3 DEF TypeOK, Events
  <2>2. ran' \in BOOLEAN /\ view' \in Requests \cup {Blank}
    BY <1>5 DEF TypeOK
  <2> QED
    BY <1>1, <1>3, <1>4, <1>5, <2>1, <2>2 DEF TypeOK, Daemon!TypeOK
<1>7. OnePerf' /\ NoPlace' /\ DataOf' /\ StackCurrent'
  BY <1>3, <1>4 DEF OnePerf, NoPlace, DataOf, StackCurrent
<1>8. Starting' /\ Emptied' /\ Deleting'
  BY <1>1, <1>3, <1>4, <1>5 DEF Starting, Emptied, Deleting
<1>9. Prepared'
  BY <1>1, <1>3, <1>4, <1>5 DEF Prepared, SoFar, Blank, Asked
<1>10. Swept'
  BY <1>1, <1>3, <1>4 DEF Swept, Asked
<1> QED
  BY <1>6, <1>7, <1>8, <1>9, <1>10

(* A start that is accepted: perf.data is of an earlier recording until perf  *)
(* begins to record, and there is no file that could be mistaken for the      *)
(* new one's.                                                                *)
LEMMA StartIInv == IInv /\ Start => IInv'
<1> SUFFICES ASSUME IInv, Start PROVE IInv'
  OBVIOUS
<1>1. /\ pc = "start" /\ pc' = "idle" /\ view' = Blank /\ ran' = TRUE
      /\ stack = NoFile /\ started < MaxStarts
      /\ UNCHANGED <<func, traceRet, stack, swept>>
  BY DEF Start, Returns, perf, IInv, Starting
<1>2. view.name = "perf_probestart" => func \in Funcs
  BY <1>1 DEF IInv, Starting
<1>3. /\ link' \in {"up", "off", "reset"}
      /\ link' = "up" => link = "up"
      /\ UNCHANGED <<daemon, probes>>
  BY Calls DEF IInv, Start, Accepted, Refused
<1>4. \/ link = "up" /\ Accepted
      \/ UNCHANGED <<job, command>> /\ last' = <<"start", "err">>
      \/ UNCHANGED <<job, command, last>>
  BY DEF Start, Call, Accepted, Refused, Daemon!Refuse
<1> USE DEF IInv, command
<1>5. Emptied' /\ Deleting' /\ Starting' /\ Prepared'
  BY <1>1 DEF Emptied, Deleting, Starting, Prepared, Blank
<1>6. Swept'
  BY <1>1, <1>3 DEF Swept, Asked
<1>7. StackCurrent'
  BY <1>1 DEF StackCurrent
<1>8. CASE link = "up" /\ Accepted
  <2>1. /\ job = "none" /\ daemon /\ recorder = "none"
        /\ job' \in {"active", "ended"} /\ last' = <<"start", "ok">>
        /\ started' = started + 1 /\ told' = FALSE /\ data' = data
        /\ recorder' = (IF job' = "active" THEN "forked" ELSE "none")
        /\ unborn' = (job' = "ended")
        /\ uses' \in {{}, Asked} /\ (uses' = Asked => uses' = {} \/ func \in Funcs)
    BY <1>2, <1>8 DEF Accepted, Daemon!Accept, OnePerf, TypeOK
  <2>2. uses' \subseteq Events
    BY <2>1, AskedEvents
  <2>3. Daemon!TypeOK'
    BY <2>1 DEF Daemon!TypeOK, Daemon!Jobs, Daemon!Exchanges
  <2>4. data' \in [of : 0..MaxStarts, whole : BOOLEAN] /\ started' \in 0..MaxStarts
    BY <1>1, <2>1, StartsAssumption DEF TypeOK
  <2>5. told' \in BOOLEAN /\ unborn' \in BOOLEAN
    BY <2>1
  <2>6. recorder' \in {"none", "forked", "recording"}
    BY <2>1
  <2>7. TypeOK'
    BY <1>1, <1>3, <2>1, <2>2, <2>3, <2>4, <2>5, <2>6 DEF TypeOK
  <2>8. OnePerf' /\ NoPlace' /\ DataOf'
    BY <1>3, <2>1 DEF OnePerf, NoPlace, DataOf
  <2> QED
    BY <1>5, <1>6, <1>7, <2>7, <2>8
<1>9. CASE UNCHANGED <<job, command>> /\ last' \in {last, <<"start", "err">>}
  <2>1. TypeOK'
    BY <1>1, <1>3, <1>9 DEF TypeOK, Daemon!TypeOK, Daemon!Exchanges
  <2>2. OnePerf' /\ NoPlace' /\ DataOf'
    BY <1>3, <1>9 DEF OnePerf, NoPlace, DataOf
  <2> QED
    BY <1>5, <1>6, <1>7, <2>1, <2>2
<1> QED
  BY <1>4, <1>8, <1>9

(* acmdstop: what perf was given up before it recorded leaves no file.       *)
LEMMA StopIInv == IInv /\ Stop => IInv'
<1> SUFFICES ASSUME IInv, Stop PROVE IInv'
  OBVIOUS
<1>1. /\ pc = "stop" /\ UNCHANGED <<func, traceRet, stack, swept>>
      /\ pc' \in {"idle", "poll"} /\ view' \in {view, Blank} /\ ran' \in BOOLEAN
  BY DEF Stop, Goes, Returns, perf
<1>2. /\ link' \in {"up", "off", "reset"} /\ (link' = "up" => link = "up")
      /\ UNCHANGED <<daemon, probes>>
      /\ \/ UNCHANGED <<link, job, last, command>>
         \/ link = "up" /\ Interrupted
  BY DEF IInv, TypeOK, Stop, Interrupted, Call
<1> USE DEF IInv, command
<1>3. /\ last' \in {last, <<"stop", "ok">>} /\ UNCHANGED <<uses, data, started>>
      /\ \/ UNCHANGED <<job, recorder, unborn>> /\ told' \in {told, Told}
         \/ /\ job = "active" /\ job' = "ended" /\ link = "up" /\ told' = told
            /\ recorder = "forked" /\ recorder' = "none" /\ unborn' = TRUE
  BY <1>2 DEF Interrupted, Daemon!Stop
<1>4. TypeOK'
  <2>1. Daemon!TypeOK'
    BY <1>3 DEF TypeOK, Daemon!TypeOK, Daemon!Jobs, Daemon!Exchanges
  <2>2. told' \in BOOLEAN /\ unborn' \in BOOLEAN
    BY <1>3 DEF TypeOK, Told
  <2>3. recorder' \in {"none", "forked", "recording"}
    BY <1>3 DEF TypeOK
  <2>4. view' \in Requests \cup {Blank}
    BY <1>1 DEF TypeOK
  <2> QED
    BY <1>1, <1>2, <1>3, <2>1, <2>2, <2>3, <2>4 DEF TypeOK
<1>5. OnePerf' /\ NoPlace' /\ DataOf' /\ StackCurrent'
  BY <1>1, <1>2, <1>3 DEF OnePerf, NoPlace, DataOf, StackCurrent
<1>6. Starting' /\ Emptied' /\ Deleting'
  BY <1>1 DEF Starting, Emptied, Deleting
<1>7. Prepared'
  BY <1>1, <1>2, <1>3 DEF Prepared, SoFar
<1>8. Swept'
  BY <1>1, <1>2 DEF Swept, Asked
<1> QED
  BY <1>4, <1>5, <1>6, <1>7, <1>8

(* acmdcheckdone: "done" leaves the place empty.                             *)
LEMMA PollIInv == IInv /\ Poll => IInv'
<1> SUFFICES ASSUME IInv, Poll PROVE IInv'
  OBVIOUS
<1>1. /\ pc = "poll" /\ UNCHANGED <<func, traceRet, stack, swept>>
      /\ \/ pc' = "script" /\ SaysDone
         \/ pc' \in {"idle", "poll"}
      /\ view' \in {view, Blank} /\ ran' \in BOOLEAN
  BY DEF Poll, Goes, Returns, perf
<1>2. /\ link' \in {"up", "off", "reset"} /\ (link' = "up" => link = "up" /\ Checked)
      /\ UNCHANGED <<daemon, command, probes>>
      /\ UNCHANGED <<job, last>> \/ Checked
  BY Calls DEF IInv, Poll, Checked
<1> USE DEF IInv, command
<1>3. /\ Daemon!TypeOK'
      /\ job' = job \/ (job = "ended" /\ job' = "none")
      /\ SaysDone => job' = "none"
  <2>1. CASE Checked
    <3>1. \/ job = "active" /\ job' = "active" /\ last' = <<"checkdone", "wait">>
          \/ job \in {"none", "ended"} /\ job' = "none" /\ last' \in {<<"checkdone", "done">>, <<"wait", "done">>}
      BY <2>1 DEF Checked, Daemon!StillActive, Daemon!Idle, Daemon!Collect
    <3> QED
      BY <3>1 DEF Daemon!TypeOK, Daemon!Jobs, Daemon!Exchanges, SaysDone
  <2>2. CASE ~Checked
    <3>1. ~Answered /\ UNCHANGED <<job, last>>
      BY <1>2, <2>2 DEF Answered
    <3> QED
      BY <3>1 DEF SaysDone, TypeOK, Daemon!TypeOK
  <2> QED
    BY <2>1, <2>2
<1>4. TypeOK'
  <2>1. view' \in Requests \cup {Blank}
    BY <1>1 DEF TypeOK
  <2> QED
    BY <1>1, <1>2, <1>3, <2>1 DEF TypeOK
<1>5. OnePerf' /\ NoPlace' /\ DataOf' /\ StackCurrent'
  BY <1>1, <1>2, <1>3 DEF OnePerf, NoPlace, DataOf, StackCurrent
<1>6. Starting' /\ Emptied' /\ Deleting'
  BY <1>1, <1>3 DEF Starting, Emptied, Deleting
<1>7. Prepared'
  BY <1>1, <1>2, <1>3 DEF Prepared, SoFar
<1>8. Swept'
  BY <1>1, <1>2 DEF Swept, Asked
<1> QED
  BY <1>4, <1>5, <1>6, <1>7, <1>8

(* perf script, with an answer: the daemon is there and its place is empty,  *)
(* so perf.data is complete and the last one's.                              *)
LEMMA ScriptIInv == IInv /\ Script => IInv'
<1> SUFFICES ASSUME IInv, Script PROVE IInv'
  OBVIOUS
<1>1. /\ pc = "script" /\ UNCHANGED <<func, traceRet, swept>>
      /\ pc' \in {"idle", "show"} /\ view' \in {view, Blank} /\ ran' \in BOOLEAN
      /\ stack' \in (IF Answered THEN {data, stack} ELSE {stack})
  BY DEF Script, Goes, Returns, perf
<1>2. /\ link' \in {"up", "off", "reset"} /\ (link' = "up" => link = "up")
      /\ UNCHANGED <<job, last, daemon, command, probes>>
  BY Calls DEF IInv, Script, Program
<1> USE DEF IInv, command
<1>3. job = "none"
  BY <1>1 DEF Emptied
<1>4. TypeOK'
  <2>1. view' \in Requests \cup {Blank}
    BY <1>1 DEF TypeOK
  <2>2. stack' \in {data, stack}
    BY <1>1
  <2> QED
    BY <1>1, <1>2, <2>1, <2>2 DEF TypeOK, Daemon!TypeOK
<1>5. OnePerf' /\ NoPlace' /\ DataOf'
  BY <1>2 DEF OnePerf, NoPlace, DataOf
<1>6. StackCurrent'
  <2>1. CASE Answered
    <3>1. recorder = "none"
      BY <1>2, <1>3, <2>1 DEF Answered, TypeOK, OnePerf
    <3> QED
      BY <1>1, <1>2, <1>3, <3>1 DEF StackCurrent, DataOf
  <2>2. CASE ~Answered
    BY <1>1, <1>2, <2>2 DEF StackCurrent
  <2> QED
    BY <2>1, <2>2
<1>7. Starting' /\ Emptied' /\ Deleting'
  BY <1>1, <1>2, <1>3 DEF Starting, Emptied, Deleting
<1>8. Prepared'
  BY <1>1, <1>2 DEF Prepared, SoFar
<1>9. Swept'
  BY <1>1, <1>2 DEF Swept, Asked
<1> QED
  BY <1>4, <1>5, <1>6, <1>7, <1>8, <1>9

(* The graphs are made, and the probes of the session are to be removed.      *)
LEMMA ShowIInv == IInv /\ Show => IInv'
<1> SUFFICES ASSUME IInv, Show PROVE IInv'
  OBVIOUS
<1>1. /\ pc = "show" /\ pc' \in {"idle", "delret", "del"} /\ view' \in {view, Blank}
      /\ ran' \in BOOLEAN
      /\ pc' \in {"delret", "del"} => func # "none"
      /\ pc' = "del" => ~traceRet
      /\ UNCHANGED <<job, last, daemon, link, command, probes, perf, stack, swept>>
  BY DEF Show, DelProbe, Goes, Returns
<1> USE DEF IInv, command, perf
<1>2. TypeOK'
  <2>1. view' \in Requests \cup {Blank}
    BY <1>1 DEF TypeOK
  <2> QED
    BY <1>1, <2>1 DEF TypeOK, Daemon!TypeOK
<1>3. OnePerf' /\ NoPlace' /\ DataOf' /\ StackCurrent'
  BY <1>1 DEF OnePerf, NoPlace, DataOf, StackCurrent
<1>4. Starting' /\ Emptied' /\ Deleting'
  BY <1>1 DEF Starting, Emptied, Deleting
<1>5. Prepared'
  BY <1>1 DEF Prepared, SoFar
<1>6. Swept'
  BY <1>1 DEF Swept, Asked
<1> QED
  BY <1>2, <1>3, <1>4, <1>5, <1>6

(* delprobe: nothing records, so what it asks to delete is deleted, or the    *)
(* connection is lost.                                                       *)
LEMMA Deletes ==
  ASSUME IInv, pc \in {"delret", "del"}, NEW events, NEW runs \in BOOLEAN,
         Call(Program(Delete(events), runs))
  PROVE  /\ link' \in {"up", "off", "reset"} /\ (link' = "up" => link = "up")
         /\ UNCHANGED <<job, last, daemon, command>>
         /\ probes' \subseteq probes
         /\ link' = "up" /\ runs => probes' = probes \ events
<1>1. /\ link' \in {"up", "off", "reset"} /\ (link' = "up" => link = "up")
      /\ UNCHANGED <<job, last, daemon, command>>
      /\ probes' \subseteq probes
      /\ link' = "up" /\ runs /\ recorder # "recording" => probes' = probes \ events
  BY Calls DEF IInv, Program, Delete
<1>2. link = "up" => recorder # "recording"
  BY DEF IInv, TypeOK, Emptied, OnePerf
<1> QED
  BY <1>1, <1>2

LEMMA DelReturnIInv == IInv /\ DelReturn => IInv'
<1> SUFFICES ASSUME IInv, DelReturn PROVE IInv'
  OBVIOUS
<1>1. /\ pc = "delret" /\ pc' = "del" /\ view' = view
      /\ traceRet' = FALSE /\ UNCHANGED <<func, stack>> /\ ran' \in BOOLEAN
  BY DEF DelReturn, Goes, IInv, TypeOK
<1>2. /\ link' \in {"up", "off", "reset"} /\ (link' = "up" => link = "up")
      /\ UNCHANGED <<job, last, daemon, command>>
      /\ probes' \subseteq probes
      /\ swept' \in BOOLEAN /\ (swept' => swept)
      /\ link' = "up" /\ swept' => probes' = probes \ {<<func, "return">>}
  <2>1. PICK runs \in BOOLEAN : /\ Call(Program(Delete({<<func, "return">>}), runs))
                               /\ swept' = (swept /\ runs)
    BY DEF DelReturn
  <2> QED
    BY <1>1, <2>1, Deletes
<1> USE DEF IInv, command
<1>3. TypeOK'
  BY <1>1, <1>2 DEF TypeOK, Daemon!TypeOK
<1>4. OnePerf' /\ NoPlace' /\ DataOf' /\ StackCurrent'
  BY <1>1, <1>2 DEF OnePerf, NoPlace, DataOf, StackCurrent
<1>5. Starting' /\ Emptied' /\ Deleting'
  BY <1>1, <1>2 DEF Starting, Emptied, Deleting
<1>6. Prepared'
  BY <1>1 DEF Prepared, SoFar
<1>7. Swept'
  BY <1>1, <1>2 DEF Swept, Asked
<1> QED
  BY <1>3, <1>4, <1>5, <1>6, <1>7

LEMMA DelCallIInv == IInv /\ DelCall => IInv'
<1> SUFFICES ASSUME IInv, DelCall PROVE IInv'
  OBVIOUS
<1>1. /\ pc = "del" /\ pc' = "idle" /\ view' = Blank
      /\ func' = "none" /\ UNCHANGED <<traceRet, stack>>
      /\ ran' = TRUE /\ swept' \in BOOLEAN
  BY DEF DelCall, Returns
<1>2. /\ link' \in {"up", "off", "reset"} /\ (link' = "up" => link = "up")
      /\ UNCHANGED <<job, last, daemon, command>>
      /\ probes' \subseteq probes
  BY <1>1, Deletes DEF DelCall
<1> USE DEF IInv, command
<1>3. TypeOK'
  BY <1>1, <1>2 DEF TypeOK, Daemon!TypeOK
<1>4. OnePerf' /\ NoPlace' /\ DataOf' /\ StackCurrent'
  BY <1>1, <1>2 DEF OnePerf, NoPlace, DataOf, StackCurrent
<1>5. Starting' /\ Emptied' /\ Deleting' /\ Prepared' /\ Swept'
  BY <1>1 DEF Starting, Emptied, Deleting, Prepared, Swept, Blank
<1> QED
  BY <1>3, <1>4, <1>5

(* What perf does by itself.                                                 *)
LEMMA RecorderIInv == IInv /\ (Begins \/ Ends \/ Unborn) => IInv'
<1> SUFFICES ASSUME IInv, Begins \/ Ends \/ Unborn PROVE IInv'
  OBVIOUS
<1>1. /\ UNCHANGED <<daemon, link, uses, told, started, probes, pc, view, func, traceRet, stack, swept, ran, last>>
      /\ \/ /\ recorder = "forked" /\ recorder' = "recording"
            /\ data' = [of |-> started, whole |-> FALSE] /\ UNCHANGED <<job, unborn>>
         \/ /\ recorder = "recording" /\ recorder' = "none"
            /\ data' = [data EXCEPT !.whole = TRUE] /\ UNCHANGED unborn
            /\ job' = (IF job = "active" THEN "ended" ELSE job)
         \/ /\ recorder = "forked" /\ recorder' = "none"
            /\ UNCHANGED data /\ unborn' = TRUE
            /\ job' = (IF job = "active" THEN "ended" ELSE job)
  BY DEF Begins, Ends, Unborn, Ended, Daemon!End, pages, perf
<1> USE DEF IInv
<1>2. TypeOK'
  <2>1. data' \in [of : 0..MaxStarts, whole : BOOLEAN]
    <3>1. data \in [of : 0..MaxStarts, whole : BOOLEAN] /\ started \in 0..MaxStarts
      BY DEF TypeOK
    <3>2. [data EXCEPT !.whole = TRUE] \in [of : 0..MaxStarts, whole : BOOLEAN]
      BY <3>1
    <3>3. [of |-> started, whole |-> FALSE] \in [of : 0..MaxStarts, whole : BOOLEAN]
      BY <3>1
    <3> QED
      BY <1>1, <3>1, <3>2, <3>3
  <2>2. Daemon!TypeOK'
    BY <1>1 DEF TypeOK, Daemon!TypeOK, Daemon!Jobs
  <2>3. unborn' \in BOOLEAN
    BY <1>1 DEF TypeOK
  <2>4. recorder' \in {"none", "forked", "recording"}
    BY <1>1
  <2> QED
    BY <1>1, <2>1, <2>2, <2>3, <2>4 DEF TypeOK
<1>3. OnePerf' /\ NoPlace'
  BY <1>1 DEF OnePerf, NoPlace
<1>4. DataOf'
  BY <1>1 DEF TypeOK, DataOf
<1>5. StackCurrent'
  BY <1>1 DEF StackCurrent
<1>6. Starting' /\ Emptied' /\ Deleting'
  BY <1>1 DEF Starting, Emptied, Deleting
<1>7. Prepared' /\ Swept'
  BY <1>1 DEF Prepared, SoFar, Swept, Asked
<1> QED
  BY <1>2, <1>3, <1>4, <1>5, <1>6, <1>7

(* The network and the daemon.                                               *)
LEMMA DeviceIInv == IInv /\ (LinkFails \/ DaemonDies \/ DaemonRestarts) => IInv'
<1> SUFFICES ASSUME IInv, LinkFails \/ DaemonDies \/ DaemonRestarts PROVE IInv'
  OBVIOUS
<1>1. /\ UNCHANGED <<command, probes, pc, view, func, traceRet, stack, swept, ran>>
      /\ \/ link = "up" /\ link' \in {"off", "reset"} /\ UNCHANGED <<job, last, daemon>>
         \/ /\ daemon' = FALSE /\ job' = "none" /\ last' = <<"none", "none">>
            /\ link' = (IF link = "up" THEN "off" ELSE link)
         \/ ~daemon /\ recorder = "none" /\ daemon' = TRUE /\ UNCHANGED <<job, last, link>>
  BY DEF LinkFails, DaemonDies, DaemonRestarts, Daemon!Forget, pages, perf
<1> USE DEF IInv, command
<1>2. TypeOK'
  <2>1. Daemon!TypeOK'
    BY <1>1 DEF TypeOK, Daemon!TypeOK, Daemon!Jobs, Daemon!Exchanges
  <2>2. daemon' \in BOOLEAN
    BY <1>1 DEF TypeOK
  <2>3. link' \in {"up", "off", "reset"} /\ (link' = "up" => daemon')
    BY <1>1 DEF TypeOK
  <2> QED
    BY <1>1, <2>1, <2>2, <2>3 DEF TypeOK
<1>3. OnePerf' /\ NoPlace' /\ DataOf' /\ StackCurrent'
  BY <1>1 DEF OnePerf, NoPlace, DataOf, StackCurrent
<1>4. Starting' /\ Emptied' /\ Deleting'
  BY <1>1 DEF Starting, Emptied, Deleting
<1>5. Prepared'
  BY <1>1 DEF TypeOK, Prepared, SoFar
<1>6. Swept'
  BY <1>1 DEF TypeOK, Swept, Asked
<1> QED
  BY <1>2, <1>3, <1>4, <1>5, <1>6

-----------------------------------------------------------------------------
(* Every step preserves the invariant, for all functions and any number of    *)
(* recordings.                                                               *)
THEOREM Invariance == SafeSpec => []IInv
<1>1. IInv /\ [Next]_vars => IInv'
  <2>1. IInv /\ UNCHANGED vars => IInv'
    <3> SUFFICES ASSUME IInv, UNCHANGED vars PROVE IInv'
      OBVIOUS
    <3> USE DEF IInv, vars, command, perf
    <3>1. TypeOK'
      BY DEF TypeOK, Daemon!TypeOK
    <3>2. OnePerf' /\ NoPlace' /\ DataOf' /\ StackCurrent' /\ Starting' /\ Emptied' /\ Deleting'
      BY DEF OnePerf, NoPlace, DataOf, StackCurrent, Starting, Emptied, Deleting
    <3>3. Prepared' /\ Swept'
      BY DEF Prepared, SoFar, Swept, Asked
    <3> QED
      BY <3>1, <3>2, <3>3
  <2> QED
    BY <2>1, RequestIInv, ReconnectIInv, DelAllProbeIInv, AddCallIInv, AddReturnIInv, StartIInv,
       StopIInv, PollIInv, ScriptIInv, ShowIInv, DelReturnIInv, DelCallIInv, RecorderIInv,
       DeviceIInv
    DEF Next, Work
<1> QED
  BY <1>1, InitIInv, PTL DEF SafeSpec

(* The variables keep to their values, and a connection has a daemon.         *)
THEOREM TypeCorrect == SafeSpec => []TypeOK
<1>1. IInv => TypeOK
  BY DEF IInv
<1> QED
  BY <1>1, Invariance, PTL

(* The result on display is complete and the last recording's, and nothing is *)
(* recorded over it.                                                         *)
THEOREM ResultCurrent == SafeSpec => []StackCurrent
<1>1. IInv => StackCurrent
  BY DEF IInv
<1> QED
  BY <1>1, Invariance, PTL

(* A probe is recorded with the events of its session and no others, if perf  *)
(* was run for each of them; and with no event of another session, if          *)
(* delallprobe has left none.                                                *)
THEOREM ProbesRight == SafeSpec => ProbesAsAsked
<1>1. ASSUME IInv, Next, job = "none", job' = "active", view.name = "perf_probestart"
      PROVE  (ran => probes = Asked) /\ (swept => probes \subseteq Asked)
  <2>1. pc = "start" /\ link = "up"
    <3>1. CASE Start
      BY <1>1, <3>1 DEF Start, Call
    <3>2. CASE Stop
      BY <1>1, <3>2 DEF Stop, Call, Interrupted, Daemon!Stop
    <3>3. CASE Poll
      BY <1>1, <3>3 DEF Poll, Call, Checked, Daemon!StillActive, Daemon!Idle, Daemon!Collect
    <3>4. CASE DelAllProbe \/ AddCall \/ AddReturn \/ Script \/ DelReturn \/ DelCall
      BY <1>1, <3>4 DEF DelAllProbe, AddCall, AddReturn, AddProbe, Script, DelReturn, DelCall,
         Call, Program
    <3>5. CASE Request \/ Reconnect \/ Show \/ LinkFails \/ DaemonDies \/ DaemonRestarts
      BY <1>1, <3>5 DEF Request, Reconnect, Show, LinkFails, DaemonDies, DaemonRestarts,
         Daemon!Forget
    <3>6. CASE Begins \/ Ends \/ Unborn
      BY <1>1, <3>6 DEF Begins, Ends, Unborn, Ended, Daemon!End
    <3> QED
      BY <1>1, <3>1, <3>2, <3>3, <3>4, <3>5, <3>6 DEF Next, Work
  <2> QED
    <3>1. ran => probes = Asked
      BY <1>1, <2>1 DEF IInv, Prepared, SoFar
    <3>2. swept => probes \subseteq Asked
      BY <1>1, <2>1, FuncsAssumption DEF IInv, Swept, Starting
    <3> QED
      BY <3>1, <3>2
<1>2. IInv /\ [Next]_vars
      => [job = "none" /\ job' = "active" /\ view.name = "perf_probestart"
            => (ran => probes = Asked) /\ (swept => probes \subseteq Asked)]_vars
  BY <1>1
<1> QED
  BY <1>2, Invariance, PTL DEF SafeSpec, ProbesAsAsked

(* A session that gets its result, and perf to delete, leaves no probe on the  *)
(* device.                                                                   *)
THEOREM ProbesGone == SafeSpec => ProbesRemoved
<1>1. ASSUME IInv, Next, pc = "del", Answered, swept'
      PROVE  probes' = {} \/ UNCHANGED vars
  <2>1. CASE DelCall
    <3>1. link = "up" /\ swept /\ probes' = probes \ {<<func, "call">>}
      BY <1>1, <2>1, Deletes DEF DelCall, Answered
    <3>2. probes \subseteq {<<func, "call">>}
      BY <1>1, <3>1 DEF IInv, Swept, Deleting, Asked
    <3> QED
      BY <3>1, <3>2
  <2>2. CASE Begins \/ Ends \/ Unborn
    BY <1>1, <2>2 DEF Begins, Ends, Unborn, Answered, IInv, TypeOK, OnePerf, Emptied
  <2>3. CASE LinkFails \/ DaemonDies \/ DaemonRestarts
    BY <1>1, <2>3 DEF LinkFails, DaemonDies, DaemonRestarts, Answered, IInv, TypeOK
  <2> QED
    BY <1>1, <2>1, <2>2, <2>3 DEF Next, Work, Request, Reconnect, DelAllProbe, AddCall, AddReturn,
       Start, Stop, Poll, Script, Show, DelReturn
<1>2. IInv /\ [Next]_vars => [pc = "del" /\ Answered /\ swept' => probes' = {}]_vars
  BY <1>1
<1> QED
  BY <1>2, Invariance, PTL DEF SafeSpec, ProbesRemoved

(* All that happens here to the command of the device is a behaviour of       *)
(* CmdSlot, the specification that main.c implements (AsyncCmdProofs): the     *)
(* pages need no more of the daemon than CmdSlot says.                         *)
THEOREM DaemonAsPromised == SafeSpec => Daemon!SafeSpec
<1>1. Init => Daemon!Init
  BY DEF Init
<1>2. [Next]_vars => [Daemon!Next]_(Daemon!vars)
  <2> SUFFICES ASSUME Next PROVE Daemon!Next \/ UNCHANGED <<job, last>>
    BY DEF vars, Daemon!vars
  <2>1. CASE Start \/ Stop \/ Poll
    BY <2>1 DEF Start, Stop, Poll, Call, Accepted, Refused, Interrupted, Checked, Daemon!Next
  <2>2. CASE DelAllProbe \/ AddCall \/ AddReturn \/ Script \/ DelReturn \/ DelCall
    BY <2>2 DEF DelAllProbe, AddCall, AddReturn, AddProbe, Script, DelReturn, DelCall, Call, Program
  <2>3. CASE Request \/ Reconnect \/ Show
    BY <2>3 DEF Request, Reconnect, Show
  <2>4. CASE Begins \/ Ends \/ Unborn
    BY <2>4 DEF Begins, Ends, Unborn, Ended, Daemon!Next
  <2>5. CASE LinkFails \/ DaemonDies \/ DaemonRestarts
    BY <2>5 DEF LinkFails, DaemonDies, DaemonRestarts, Daemon!Next
  <2> QED
    BY <2>1, <2>2, <2>3, <2>4, <2>5 DEF Next, Work
<1> QED
  BY <1>1, <1>2, PTL DEF SafeSpec, Daemon!SafeSpec
=============================================================================
