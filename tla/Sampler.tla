------------------------------ MODULE Sampler -------------------------------
(***************************************************************************)
(* The sampling of one device (app/device.py): profile() connects, scans   *)
(* twice and arms a timer; from then on each timer thread scans and arms   *)
(* the next one.  A scan makes one call after the other on the Zclient,    *)
(* computes differences to the previous samples and adds to the rings.     *)
(* An exception anywhere in a scan leaves start() before the timer is      *)
(* armed.  A call is one step here: its inside is module Zclient.          *)
(***************************************************************************)
EXTENDS Naturals, Sequences, SequencesExt

CONSTANTS
  Pids,       \* some of the pids of the device: others are always there
  Sections,   \* the parts of scan_process, in order
  LEN,        \* RecordDate.len
  Period      \* bound: the clock of the scans wraps here

Plain == {"loadavg", "meminfo", "uptime"}         \* added as they are
Diffed == {"stat", "softirqs", "interrupts"}      \* compared with the last one
Names == Plain \cup Diffed \cup {"processes"}

ASSUME PidsAssumption == IsFiniteSet(Pids)
ASSUME SectionsAssumption == Sections \in Seq(Names)
ASSUME BoundsAssumption == LEN \in Nat \ {0} /\ Period \in Nat \ {0}

Threads == {"worker", "timer"}

VARIABLES
  known,     \* the device is in current_app.devices
  connect,   \* zclient.connect
  link,      \* the connection below: "up", "down" (FIN received), "reset"
  device,    \* device[p]: "absent", "kernel", "user", "zombie", "gone"
  timer,     \* a Timer is armed
  now,       \* number of the last scan
  stage,     \* stage[t]: "idle", "first" (scan by profile), "start"
  at,        \* at[t]: index of the section in work, Len(Sections) + 1 at the end
  phase,     \* phase[t]: "ask", "stat", "status", "diff", "add"
  todo,      \* todo[t]: pids of ls /proc not yet looked at
  new,       \* new[t]: the sample in work
  ring,      \* ring[s]: samples of section s, oldest first
  raised,    \* history: a scan has ended with an exception
  quiet      \* history: the connection was never lost, and no pid became a
             \* user process by exec of a kernel thread or by being used again

scan == <<stage, at, phase, todo, new>>
vars == <<known, connect, link, device, timer, now, scan, ring, raised, quiet>>

\* A sample: when it was taken, which one it was compared with (0: none), and
\* for processes: whether the final Stat was read, and what is known of each
\* pid: nothing, its stat, or also its memory sizes (attribute VmRSS).
Samples == [time : 1..Period, base : 0..Period, total : BOOLEAN,
            has : [Pids -> {"none", "stat", "sizes"}]]

\* Each variable keeps to its values; a ring never holds more than LEN.
TypeOK == /\ known \in BOOLEAN /\ connect \in BOOLEAN /\ timer \in BOOLEAN
          /\ raised \in BOOLEAN /\ quiet \in BOOLEAN
          /\ link \in {"up", "down", "reset"}
          /\ device \in [Pids -> {"absent", "kernel", "user", "zombie", "gone"}]
          /\ now \in 1..Period
          /\ stage \in [Threads -> {"idle", "first", "start"}]
          /\ at \in [Threads -> 1..(Len(Sections) + 1)]
          /\ phase \in [Threads -> {"ask", "stat", "status", "diff", "add"}]
          /\ todo \in [Threads -> Seq(Pids)]
          /\ new \in [Threads -> Samples]
          /\ ring \in [Names -> Seq(Samples)]
          /\ \A s \in Names : Len(ring[s]) <= LEN

Blank(time) == [time |-> time, base |-> 0, total |-> TRUE,
                has |-> [p \in Pids |-> "none"]]

Init == /\ known = FALSE /\ connect = FALSE /\ link = "up"
        /\ device \in [Pids -> {"absent", "kernel", "user"}]
        /\ timer = FALSE
        /\ now = 1
        /\ stage = [t \in Threads |-> "idle"]
        /\ at = [t \in Threads |-> 1]
        /\ phase = [t \in Threads |-> "ask"]
        /\ todo = [t \in Threads |-> <<>>]
        /\ new = [t \in Threads |-> Blank(1)]
        /\ ring = [s \in Names |-> <<>>]
        /\ raised = FALSE /\ quiet = TRUE

-----------------------------------------------------------------------------
(* Calls                                                                   *)

\* Whether a call gets its answer, and what it does to the flag: the end of the
\* stream clears it, an error does not.
Answered == connect /\ link = "up"
Called == connect' = (connect /\ link # "down")

Present(p) == device[p] \in {"kernel", "user", "zombie"}

\* ls /proc
Listed == SetToSeq({p \in Pids : Present(p)})

-----------------------------------------------------------------------------
(* A scan                                                                  *)

Scanning(t) == stage[t] # "idle" /\ at[t] <= Len(Sections)
Section(t) == Sections[at[t]]

\* scan_process is entered: without a connection there is nothing to do.
Enter(t, how) ==
  /\ stage' = [stage EXCEPT ![t] = how]
  /\ at' = [at EXCEPT ![t] = IF connect' THEN 1 ELSE Len(Sections) + 1]
  /\ phase' = [phase EXCEPT ![t] = "ask"]
  /\ now' = (now % Period) + 1
  /\ new' = [new EXCEPT ![t] = Blank(now')]
  /\ todo' = [todo EXCEPT ![t] = <<>>]

\* The section is over, with or without a sample.
NextSection(t) == /\ at' = [at EXCEPT ![t] = @ + 1]
                  /\ phase' = [phase EXCEPT ![t] = "ask"]
                  /\ todo' = [todo EXCEPT ![t] = <<>>]
                  /\ new' = [new EXCEPT ![t] = Blank(@.time)]
                  /\ UNCHANGED stage

\* The thread returns: its local variables are gone.
Leave(t) == /\ stage' = [stage EXCEPT ![t] = "idle"]
            /\ at' = [at EXCEPT ![t] = 1]
            /\ phase' = [phase EXCEPT ![t] = "ask"]
            /\ todo' = [todo EXCEPT ![t] = <<>>]
            /\ new' = [new EXCEPT ![t] = Blank(1)]

Go(t, where) == phase' = [phase EXCEPT ![t] = where] /\ UNCHANGED <<stage, at>>

Still == UNCHANGED <<known, link, device, timer, now, raised, quiet>>

\* update() of every section but the last: no answer, no sample.
Update(t) ==
  /\ Scanning(t) /\ phase[t] = "ask" /\ Section(t) # "processes"
  /\ Called /\ Still
  /\ IF Answered THEN Go(t, "diff") /\ UNCHANGED <<todo, new>> ELSE NextSection(t)
  /\ UNCHANGED ring

\* Processes.scan: the list of pids
List(t) ==
  /\ Scanning(t) /\ phase[t] = "ask" /\ Section(t) = "processes"
  /\ Called /\ Still
  /\ IF Answered
     THEN /\ Go(t, "stat")
          /\ todo' = [todo EXCEPT ![t] = Listed]
          /\ UNCHANGED new
     ELSE NextSection(t)
  /\ UNCHANGED ring

\* Process.getstat of the next pid: a process that has gone is left out.
GetStat(t) ==
  /\ Scanning(t) /\ phase[t] = "stat" /\ todo[t] # <<>>
  /\ Called /\ Still
  /\ LET p == Head(todo[t]) IN
       IF Answered /\ Present(p)
       THEN /\ Go(t, "status")
            /\ new' = [new EXCEPT ![t].has[p] = "stat"]
            /\ UNCHANGED todo
       ELSE /\ todo' = [todo EXCEPT ![t] = Tail(@)]
            /\ UNCHANGED <<stage, at, phase, new>>
  /\ UNCHANGED ring

\* Process.getstatus: only a user process has sizes, and it may have gone.
GetStatus(t) ==
  /\ Scanning(t) /\ phase[t] = "status"
  /\ Called /\ Still
  /\ LET p == Head(todo[t]) IN
       new' = IF Answered /\ device[p] = "user"
              THEN [new EXCEPT ![t].has[p] = "sizes"]
              ELSE new
  /\ todo' = [todo EXCEPT ![t] = Tail(@)]
  /\ Go(t, "stat")
  /\ UNCHANGED ring

\* The Stat at the end of Processes.scan, whose result nobody looks at.
GetTotal(t) ==
  /\ Scanning(t) /\ phase[t] = "stat" /\ todo[t] = <<>>
  /\ Called /\ Still
  /\ new' = [new EXCEPT ![t].total = Answered]
  /\ Go(t, "diff")
  /\ UNCHANGED <<todo, ring>>

\* Mutant: a pid is compared even if the previous sample does not have it.
Common(p, old, sample) == sample.has[p] # "none"

InBoth(p, old, sample) == old.has[p] # "none" /\ sample.has[p] # "none"

\* Processes.diff raises if the final Stat is empty and the old one is not
\* (cpu['all']), or if a process has sizes now and had none before (VmRSS).  If
\* the old Stat is empty there are no cpu times to divide by, which matters only
\* for a process that has run.
MustRaise(old, sample) ==
  \/ old.total /\ ~sample.total
  \/ \E p \in Pids : InBoth(p, old, sample) /\ sample.has[p] = "sizes"
                                            /\ old.has[p] # "sizes"
MayRaise(old, sample) ==
  \/ MustRaise(old, sample)
  \/ ~old.total /\ \E p \in Pids : InBoth(p, old, sample)

\* The exception ends the thread, or the request: no timer is armed.
Raise(t) == raised' = TRUE /\ Leave(t)

\* diff() with the newest sample of the ring
Diff(t) ==
  /\ Scanning(t) /\ phase[t] = "diff"
  /\ LET r == ring[Section(t)]
         compared == r # <<>> /\ Section(t) \notin Plain
         processes == Section(t) = "processes"
     IN \/ /\ ~(compared /\ processes /\ MustRaise(Last(r), new[t]))
           /\ new' = [new EXCEPT ![t].base = IF compared THEN Last(r).time ELSE 0]
           /\ Go(t, "add")
           /\ UNCHANGED <<todo, raised>>
        \/ /\ compared /\ processes /\ MayRaise(Last(r), new[t])
           /\ Raise(t)
  /\ UNCHANGED <<known, connect, link, device, timer, now, ring, quiet>>

\* Mutant: one sample too many is kept.
AddedLate(r, sample) == Append(IF Len(r) > LEN THEN Tail(r) ELSE r, sample)

\* RecordDate.add
Added(r, sample) == Append(IF Len(r) >= LEN THEN Tail(r) ELSE r, sample)

Add(t) ==
  /\ Scanning(t) /\ phase[t] = "add"
  /\ ring' = [ring EXCEPT ![Section(t)] = Added(@, new[t])]
  /\ NextSection(t)
  /\ UNCHANGED connect /\ Still

ScanStep(t) == \/ Update(t) \/ List(t) \/ GetStat(t) \/ GetStatus(t)
               \/ GetTotal(t) \/ Diff(t) \/ Add(t)

-----------------------------------------------------------------------------
(* The chain of timers                                                     *)

AtEnd(t) == stage[t] # "idle" /\ at[t] > Len(Sections)

\* Mutant: the timer is armed before the scan that start makes.
ScanEndsArmed(t) ==
  /\ AtEnd(t)
  /\ timer' = TRUE
  /\ IF stage[t] = "first"
     THEN /\ UNCHANGED connect
          /\ Enter(t, "start")
     ELSE /\ Leave(t)
          /\ UNCHANGED <<now, connect>>
  /\ UNCHANGED <<known, link, device, ring, raised, quiet>>

\* Mutant: without a connection no timer is armed.
ScanEndsOffline(t) ==
  /\ AtEnd(t)
  /\ timer' = (timer \/ (stage[t] = "start" /\ connect))
  /\ IF stage[t] = "first"
     THEN /\ UNCHANGED connect
          /\ Enter(t, "start")
     ELSE /\ Leave(t)
          /\ UNCHANGED <<now, connect>>
  /\ UNCHANGED <<known, link, device, ring, raised, quiet>>

\* After its own scan profile calls start, which scans again and arms the timer.
ScanEnds(t) ==
  /\ AtEnd(t)
  /\ IF stage[t] = "first"
     THEN /\ UNCHANGED <<connect, timer>>
          /\ Enter(t, "start")
     ELSE /\ timer' = TRUE
          /\ Leave(t)
          /\ UNCHANGED <<now, connect>>
  /\ UNCHANGED <<known, link, device, ring, raised, quiet>>

\* The timer fires: start, in a thread of its own.
Fire ==
  /\ timer /\ stage["timer"] = "idle"
  /\ timer' = FALSE
  /\ UNCHANGED connect
  /\ Enter("timer", "start")
  /\ UNCHANGED <<known, link, device, ring, raised, quiet>>

\* profile() for a new device.  If the connection fails it stays unknown.
Connects ==
  /\ stage["worker"] = "idle"
  /\ ~known
  /\ known' = TRUE /\ connect' = TRUE /\ link' = "up"
  /\ Enter("worker", "first")
  /\ UNCHANGED <<device, timer, ring, raised, quiet>>

\* profile() for a known device: a lost connection is made anew, no more.
Reconnects ==
  /\ stage["worker"] = "idle"
  /\ known /\ ~connect
  /\ connect' = TRUE /\ link' = "up"
  /\ UNCHANGED <<known, device, timer, now, scan, ring, raised, quiet>>

-----------------------------------------------------------------------------
(* The device and the network                                              *)

LinkFails == /\ connect /\ link = "up"
             /\ link' \in {"down", "reset"}
             /\ quiet' = FALSE
             /\ UNCHANGED <<known, connect, device, timer, now, scan, ring, raised>>

Becomes(p, state) ==
  /\ device' = [device EXCEPT ![p] = state]
  /\ UNCHANGED <<known, connect, link, timer, now, scan, ring, raised>>

Born(p) == /\ device[p] = "absent" /\ UNCHANGED quiet
           /\ \E kind \in {"kernel", "user"} : Becomes(p, kind)
Exits(p) == device[p] = "user" /\ UNCHANGED quiet /\ Becomes(p, "zombie")
Vanishes(p) == /\ device[p] \in {"kernel", "zombie"} /\ UNCHANGED quiet
               /\ Becomes(p, "gone")
Execs(p) == device[p] = "kernel" /\ quiet' = FALSE /\ Becomes(p, "user")
UsedAgain(p) == /\ device[p] = "gone" /\ quiet' = FALSE
                /\ \E kind \in {"kernel", "user"} : Becomes(p, kind)

Next == \/ \E t \in Threads : ScanStep(t) \/ ScanEnds(t)
        \/ Fire \/ Connects \/ Reconnects
        \/ LinkFails
        \/ \E p \in Pids : Born(p) \/ Exits(p) \/ Vanishes(p)
                          \/ Execs(p) \/ UsedAgain(p)

\* A thread that scans goes on, and an armed timer fires.
Fairness == /\ \A t \in Threads : WF_vars(ScanStep(t) \/ ScanEnds(t))
            /\ WF_vars(Fire)

SafeSpec == Init /\ [][Next]_vars
Spec == SafeSpec /\ Fairness

-----------------------------------------------------------------------------
(* Properties                                                              *)

\* A difference is the one to the sample just before it in the ring
\* (device.py: diff(data[-1]), then add), whoever scans and whatever failed.
DiffedInOrder ==
  \A s \in Names \ Plain : \A i \in 2..Len(ring[s]) :
    ring[s][i].base = ring[s][i - 1].time

\* While the connection holds and no pid changes its kind no scan raises:
\* processes that appear and end between any two calls are coped with.
NeverRaises == raised => ~quiet

\* Whatever was lost before: as long as no scan has raised, a device that is
\* connected, or connected again, gets new samples of its processes.  The timer
\* is armed whatever the calls of a scan returned (device.py, start).
SamplingGoesOn ==
  known /\ Answered
    ~> \/ ~Answered \/ raised
       \/ \E t \in Threads : Scanning(t) /\ phase[t] = "add" /\ Section(t) = "processes"
-----------------------------------------------------------------------------
(* The inductive invariant                                                 *)

\* One chain: there is the worker's first scan, then one timer or its thread.
OneChain == /\ ~known => ~timer /\ \A t \in Threads : stage[t] = "idle"
            /\ stage["worker"] # "idle" => stage["timer"] = "idle" /\ ~timer
            /\ stage["timer"] # "idle" => ~timer

\* A sample on its way into a ring has been compared with the newest one there.
Compared ==
  \A t \in Threads :
    Scanning(t) /\ phase[t] = "add" /\ Section(t) \notin Plain /\ ring[Section(t)] # <<>>
      => new[t].base = Last(ring[Section(t)]).time

\* While nothing is lost calls are answered.
Held == quiet => link = "up" /\ (known => connect)

\* The process whose status is asked for has been seen.
InHand == \A t \in Threads :
            phase[t] = "status" => todo[t] # <<>> /\ device[Head(todo[t])] # "absent"

\* A process of which only the stat is known will never have sizes.
Settled(sample, p) == sample.has[p] = "stat" => device[p] \in {"kernel", "zombie", "gone"}

NewSettled ==
  quiet => \A t \in Threads :
             /\ new[t].total
             /\ \A p \in Pids : Settled(new[t], p) \/ (phase[t] = "status" /\ p = Head(todo[t]))

Newest == Last(ring["processes"])

LastSettled ==
  quiet /\ ring["processes"] # <<>> => Newest.total /\ \A p \in Pids : Settled(Newest, p)

\* Sizes in the sample in work: the newest one has them, or not the process.
SizesKept ==
  quiet /\ ring["processes"] # <<>> =>
    \A t \in Threads, p \in Pids :
      stage[t] # "idle" /\ new[t].has[p] = "sizes" => Newest.has[p] # "stat"

\* Inductive: every step preserves it (SamplerProofs).
IInv == /\ TypeOK /\ OneChain /\ Compared /\ DiffedInOrder
        /\ Held /\ InHand /\ NewSettled /\ LastSettled /\ SizesKept /\ NeverRaises
=============================================================================
