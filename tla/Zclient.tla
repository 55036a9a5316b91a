------------------------------ MODULE Zclient -------------------------------
(***************************************************************************)
(* The RPC client of the web server (app/zclient/zclient.py): one Zclient  *)
(* per device, shared by the web workers and the device's sampler thread,  *)
(* its lock, its socket and its connect flag, and the TCP connections to a *)
(* daemon that may die and come back.                                      *)
(*                                                                         *)
(* A reply is three pieces of a byte stream: what precedes the end marker  *)
(* "sometimewhenitrains", the marker, and the closing of the JSON text.    *)
(* recv returns any non-empty prefix of what has arrived: that covers both *)
(* the segments of TCP and replies longer than the receive buffer.         *)
(***************************************************************************)
EXTENDS Naturals, Sequences, SequencesExt

CONSTANTS
  Web,          \* the threads that serve browsers: they call and reconnect
  Samplers,     \* the sampler thread of the device: it only calls
  NoThread,     \* who holds a free lock
  MaxConns,     \* bound: sockets created over a behaviour
  MaxCalls,     \* bound: requests made over a behaviour, besides one
                \* "checkconnect" per socket
  BareReplies,  \* TRUE: a handler may answer without the end marker
  HeldSockets   \* TRUE: a forked command may keep a dead daemon's sockets

Threads == Web \cup Samplers
Conns == 1..MaxConns
Hello(c) == MaxCalls + c      \* the "checkconnect" request of socket c
Calls == 1..(MaxCalls + MaxConns)

ASSUME ThreadsAssumption == Web \cap Samplers = {} /\ NoThread \notin Threads
ASSUME BoundsAssumption == MaxConns \in Nat \ {0} /\ MaxCalls \in Nat
ASSUME SwitchesAssumption == BareReplies \in BOOLEAN /\ HeldSockets \in BOOLEAN

VARIABLES
  lock,       \* the thread that holds self.lock, or NoThread
  connect,    \* self.connect
  sock,       \* self.sock: the socket created last
  st,         \* st[c]: what the client's end of socket c knows
  toDaemon,   \* toDaemon[c]: requests on their way or not yet read
  toClient,   \* toClient[c]: pieces of replies not yet received
  daemon,     \* the daemon is up
  orphan,     \* a command that a dead daemon forked keeps its sockets open
  pc,         \* pc[t]: where thread t is
  greeting,   \* the threads inside checkconnect
  cur,        \* cur[t]: the call thread t is in
  via,        \* via[t]: the socket t's request went to
  from,       \* from[t]: the socket t's recv was called on
  acc,        \* acc[t]: server_response
  calls,      \* calls made so far
  runs,       \* runs[i]: times the request of call i was executed
  out         \* out[i]: what call i returned

net == <<st, toDaemon, toClient, daemon, orphan>>
thread == <<pc, greeting, cur, via, from, acc>>
book == <<calls, runs, out>>
vars == <<lock, connect, sock, net, thread, book>>

Body(i) == [call |-> i, part |-> "body"]
Mark(i) == [call |-> i, part |-> "mark"]
Tail3(i) == [call |-> i, part |-> "tail"]
Pieces == [call : Calls, part : {"body", "mark", "tail"}]

\* "none": not connected;  "held", "queued": open as far as TCP can tell, but no
\* daemon reads it: an orphan has the other end, or the socket it would be
\* accepted from;  "fin": the peer has closed;  "broken": the same, and a send
\* has been answered by a reset;  "rst": reset.
ConnStates == {"none", "open", "held", "queued", "fin", "broken", "rst"}

\* The kernel of the device takes what is sent.
Connected == {"open", "held", "queued"}

\* Each variable keeps to its values.
TypeOK == /\ lock \in Threads \cup {NoThread}
          /\ connect \in {0, 1}
          /\ sock \in Conns
          /\ st \in [Conns -> ConnStates]
          /\ toDaemon \in [Conns -> Seq(Calls)]
          /\ toClient \in [Conns -> Seq(Pieces)]
          /\ daemon \in BOOLEAN /\ orphan \in BOOLEAN
          /\ pc \in [Threads -> {"idle", "want", "send", "recv", "block", "dial", "greeted"}]
          /\ greeting \subseteq Web
          /\ cur \in [Threads -> Calls \cup {0}]
          /\ via \in [Threads -> 0..MaxConns]
          /\ from \in [Threads -> 0..MaxConns]
          /\ acc \in [Threads -> Seq(Pieces)]
          /\ calls \in 0..MaxCalls
          /\ runs \in [Calls -> Nat]
          /\ out \in [Calls -> {"unused", "open", "own", "null"}]

\* A Device whose first checkconnect succeeded.
Init == /\ lock = NoThread
        /\ connect = 1
        /\ sock = 1
        /\ st = [c \in Conns |-> IF c = 1 THEN "open" ELSE "none"]
        /\ toDaemon = [c \in Conns |-> <<>>]
        /\ toClient = [c \in Conns |-> <<>>]
        /\ daemon = TRUE /\ orphan = FALSE
        /\ pc = [t \in Threads |-> "idle"]
        /\ greeting = {}
        /\ cur = [t \in Threads |-> 0]
        /\ via = [t \in Threads |-> 0]
        /\ from = [t \in Threads |-> 0]
        /\ acc = [t \in Threads |-> <<>>]
        /\ calls = 0
        /\ runs = [i \in Calls |-> 0]
        /\ out = [i \in Calls |-> "unused"]

-----------------------------------------------------------------------------
(* sendrequest and sendrequestraw                                          *)

\* Thread t goes for the lock with a new request.
Enter(t, i) == /\ cur' = [cur EXCEPT ![t] = i]
               /\ out' = [out EXCEPT ![i] = "open"]
               /\ pc' = [pc EXCEPT ![t] = "want"]

\* With connect = 0 the call returns None at once, which changes nothing.
SendRequest(t) == /\ pc[t] = "idle"
                  /\ connect # 0
                  /\ calls < MaxCalls
                  /\ calls' = calls + 1
                  /\ Enter(t, calls')
                  /\ UNCHANGED <<lock, connect, sock, net, greeting, via, from, acc, runs>>

\* Mutant: the lock is not waited for.
AcquireAnyway(t) == /\ pc[t] = "want"
                    /\ lock' = t
                    /\ pc' = [pc EXCEPT ![t] = "send"]
                    /\ UNCHANGED <<connect, sock, net, greeting, cur, via, from, acc, book>>

Acquire(t) == /\ pc[t] = "want"
              /\ lock = NoThread
              /\ lock' = t
              /\ pc' = [pc EXCEPT ![t] = "send"]
              /\ UNCHANGED <<connect, sock, net, greeting, cur, via, from, acc, book>>

\* Mutant: an exception leaves the lock held.
ReturnKeepsLock(t, r) == /\ out' = [out EXCEPT ![cur[t]] = r]
                         /\ lock' = IF r = "null" THEN lock ELSE NoThread
                         /\ pc' = [pc EXCEPT ![t] = IF t \in greeting /\ r # "null"
                                                    THEN "greeted" ELSE "idle"]
                         /\ greeting' = IF r = "null" THEN greeting \ {t} ELSE greeting
                         /\ from' = [from EXCEPT ![t] = 0]
                         /\ via' = [via EXCEPT ![t] = 0]
                         /\ acc' = [acc EXCEPT ![t] = <<>>]
                         /\ UNCHANGED <<cur, calls, runs>>

\* The call returns r: the lock is released, and checkconnect goes on.
Return(t, r) == /\ out' = [out EXCEPT ![cur[t]] = r]
                /\ lock' = NoThread
                /\ pc' = [pc EXCEPT ![t] = IF t \in greeting /\ r # "null"
                                           THEN "greeted" ELSE "idle"]
                /\ greeting' = IF r = "null" THEN greeting \ {t} ELSE greeting
                /\ from' = [from EXCEPT ![t] = 0]
                /\ via' = [via EXCEPT ![t] = 0]
                /\ acc' = [acc EXCEPT ![t] = <<>>]
                /\ UNCHANGED <<cur, calls, runs>>

Sent(t) == /\ pc' = [pc EXCEPT ![t] = "recv"]
           /\ via' = [via EXCEPT ![t] = sock]
           /\ UNCHANGED <<lock, greeting, cur, from, acc, book>>

\* self.sock.send.  To a peer that has closed, the first send succeeds.
Send(t) == /\ pc[t] = "send"
           /\ \/ /\ st[sock] \in Connected
                 /\ toDaemon' = [toDaemon EXCEPT ![sock] = Append(@, cur[t])]
                 /\ Sent(t)
                 /\ UNCHANGED st
              \/ /\ st[sock] = "fin"
                 /\ st' = [st EXCEPT ![sock] = "broken"]
                 /\ Sent(t)
                 /\ UNCHANGED toDaemon
              \/ /\ st[sock] \in {"none", "broken", "rst"}
                 /\ Return(t, "null")
                 /\ UNCHANGED <<st, toDaemon>>
           /\ UNCHANGED <<connect, sock, toClient, daemon, orphan>>

\* self.sock is read again for every recv.
RecvCall(t) == /\ pc[t] = "recv"
               /\ from' = [from EXCEPT ![t] = sock]
               /\ pc' = [pc EXCEPT ![t] = "block"]
               /\ UNCHANGED <<lock, connect, sock, net, greeting, cur, via, acc, book>>

\* Apart from the markers, got is the reply to call i.
WholeReply(got, i) ==
  \E b, e \in DOMAIN got :
    /\ b < e /\ got[b] = Body(i) /\ got[e] = Tail3(i)
    /\ \A k \in DOMAIN got \ {b, e} : got[k].part = "mark"

\* json.loads of what is left once every marker is removed: an answer only
\* if that is one whole reply.
Answered(t, got) ==
  IF \E i \in Calls : WholeReply(got, i)
  THEN IF WholeReply(got, cur[t]) THEN "own" ELSE "other"
  ELSE "null"

HasMark(s) == \E k \in DOMAIN s : s[k].part = "mark"

\* Mutant: one recv is taken for the whole reply.
ReceiveOnce(t) ==
  LET c == from[t] IN
  /\ pc[t] = "block"
  /\ toClient[c] # <<>>
  /\ \E n \in 1..Len(toClient[c]) :
       /\ toClient' = [toClient EXCEPT ![c] = SubSeq(@, n + 1, Len(@))]
       /\ Return(t, Answered(t, SubSeq(toClient[c], 1, n)))
  /\ UNCHANGED <<connect, sock, st, toDaemon, daemon, orphan>>

Receive(t) ==
  LET c == from[t] IN
  /\ pc[t] = "block"
  /\ toClient[c] # <<>>
  /\ \E n \in 1..Len(toClient[c]) :
       LET got == acc[t] \o SubSeq(toClient[c], 1, n) IN
       /\ toClient' = [toClient EXCEPT ![c] = SubSeq(@, n + 1, Len(@))]
       /\ IF HasMark(got)
          THEN Return(t, Answered(t, got))
          ELSE /\ acc' = [acc EXCEPT ![t] = got]
               /\ pc' = [pc EXCEPT ![t] = "recv"]
               /\ from' = [from EXCEPT ![t] = 0]
               /\ UNCHANGED <<lock, greeting, cur, via, book>>
  /\ UNCHANGED <<connect, sock, st, toDaemon, daemon, orphan>>

\* Mutant: the flag is counted down instead of cleared.
ReceiveEndCounts(t) == /\ pc[t] = "block"
                       /\ toClient[from[t]] = <<>>
                       /\ st[from[t]] \in {"fin", "broken"}
                       /\ connect' = connect - 1
                       /\ Return(t, "null")
                       /\ UNCHANGED <<sock, net>>

\* Mutant: the return after b'' is missing.
ReceiveEndLoops(t) == /\ pc[t] = "block"
                      /\ toClient[from[t]] = <<>>
                      /\ st[from[t]] \in {"fin", "broken"}
                      /\ connect' = 0
                      /\ pc' = [pc EXCEPT ![t] = "recv"]
                      /\ UNCHANGED <<lock, sock, net, greeting, cur, via, from, acc, book>>

\* recv returns b'': the peer has closed.  The flag is cleared and the lock
\* released in one step: nothing a thread does in between differs from after.
ReceiveEnd(t) == /\ pc[t] = "block"
                 /\ toClient[from[t]] = <<>>
                 /\ st[from[t]] \in {"fin", "broken"}
                 /\ connect' = 0
                 /\ Return(t, "null")
                 /\ UNCHANGED <<sock, net>>

\* recv raises: the connection was reset, or the socket is not connected.
ReceiveRaises(t) == /\ pc[t] = "block"
                    /\ toClient[from[t]] = <<>>
                    /\ st[from[t]] \in {"none", "rst"}
                    /\ Return(t, "null")
                    /\ UNCHANGED <<connect, sock, net>>

-----------------------------------------------------------------------------
(* checkconnect, called by profile() when it finds connect = 0             *)

\* Mutant: checkconnect runs whatever the flag says.
NewSocketAlways(t) == /\ t \in Web
                      /\ pc[t] = "idle"
                      /\ sock < MaxConns
                      /\ sock' = sock + 1
                      /\ pc' = [pc EXCEPT ![t] = "dial"]
                      /\ greeting' = greeting \cup {t}
                      /\ UNCHANGED <<lock, connect, net, cur, via, from, acc, book>>

\* A new socket replaces self.sock at once, without the lock.
NewSocket(t) == /\ t \in Web
                /\ pc[t] = "idle"
                /\ connect = 0
                /\ sock < MaxConns
                /\ sock' = sock + 1
                /\ pc' = [pc EXCEPT ![t] = "dial"]
                /\ greeting' = greeting \cup {t}
                /\ UNCHANGED <<lock, connect, net, cur, via, from, acc, book>>

\* connect succeeds also where only an orphan listens: the kernel queues the
\* connection, and nobody will accept it.
Dial(t) == /\ pc[t] = "dial"
           /\ IF (daemon \/ orphan) /\ st[sock] = "none"
              THEN /\ st' = [st EXCEPT ![sock] = IF daemon THEN "open" ELSE "queued"]
                   /\ Enter(t, Hello(sock))
                   /\ UNCHANGED greeting
              ELSE /\ pc' = [pc EXCEPT ![t] = "idle"]
                   /\ greeting' = greeting \ {t}
                   /\ UNCHANGED <<st, cur, out>>
           /\ UNCHANGED <<lock, connect, sock, toDaemon, toClient, daemon, orphan, via, from, acc,
                          calls, runs>>

\* data == 'done!'
Greeted(t) == /\ pc[t] = "greeted"
              /\ connect' = 1
              /\ pc' = [pc EXCEPT ![t] = "idle"]
              /\ greeting' = greeting \ {t}
              /\ UNCHANGED <<lock, sock, net, cur, via, from, acc, book>>

-----------------------------------------------------------------------------
(* The daemon and the network                                              *)

\* Nothing on the client refers to the socket any more: it has been closed.
Dropped(c) == c # sock /\ \A t \in Threads : from[t] # c

\* What the kernel tells the client when nobody has the other end any more: a
\* reset if requests were left unread, else a FIN.
Closing(unread) == IF unread = <<>> THEN "fin" ELSE "rst"

\* The daemon dies with these requests unread.  An orphan, if there is one, keeps
\* the listening socket and the connections there were when it was forked.
DaemonGone(unread) ==
  /\ daemon' = FALSE
  /\ orphan' \in {FALSE, HeldSockets}
  /\ st' \in [Conns -> ConnStates]
  /\ \A c \in Conns :
       st'[c] \in IF st[c] # "open" THEN {st[c]}
                 ELSE {Closing(unread[c])} \cup (IF orphan' THEN {"held"} ELSE {})
  /\ toDaemon' = [c \in Conns |-> IF st'[c] = "held" THEN unread[c] ELSE <<>>]

Reply(i) == {<<Body(i), Mark(i), Tail3(i)>>}
              \cup (IF BareReplies THEN {<<Body(i), Tail3(i)>>} ELSE {})

\* One request is read, executed and answered.  Writing to a connection that
\* the client has closed may kill the daemon (SIGPIPE is not ignored).
Serve(c) == /\ daemon
            /\ st[c] = "open"
            /\ toDaemon[c] # <<>>
            /\ LET i == Head(toDaemon[c]) IN
               /\ runs' = [runs EXCEPT ![i] = @ + 1]
               /\ \/ /\ \E r \in Reply(i) :
                          toClient' = [toClient EXCEPT ![c] =
                                         IF Dropped(c) THEN <<>> ELSE @ \o r]
                     /\ toDaemon' = [toDaemon EXCEPT ![c] = Tail(@)]
                     /\ UNCHANGED <<st, daemon, orphan>>
                  \/ /\ Dropped(c)
                     /\ DaemonGone([toDaemon EXCEPT ![c] = Tail(@)])
                     /\ UNCHANGED toClient
            /\ UNCHANGED <<lock, connect, sock, thread, calls, out>>

DaemonDies == /\ daemon
              /\ DaemonGone(toDaemon)
              /\ UNCHANGED <<toClient, lock, connect, sock, thread, book>>

\* The orphan ends: the kernel closes the connections it held as it does for a
\* daemon that dies, and resets those that were never accepted.
OrphanEnds == /\ orphan
              /\ orphan' = FALSE
              /\ st' = [c \in Conns |-> CASE st[c] = "held" -> Closing(toDaemon[c])
                                          [] st[c] = "queued" -> "rst"
                                          [] OTHER -> st[c]]
              /\ toDaemon' = [c \in Conns |-> IF st[c] \in {"held", "queued"}
                                                THEN <<>> ELSE toDaemon[c]]
              /\ UNCHANGED <<toClient, daemon, lock, connect, sock, thread, book>>

\* bind fails while an orphan has the listening socket.
DaemonRestarts == /\ ~daemon /\ ~orphan
                  /\ daemon' = TRUE
                  /\ UNCHANGED <<st, toDaemon, toClient, orphan, lock, connect, sock, thread, book>>

\* The network resets a connection; a request not yet read is lost with it.
NetReset(c) == /\ st[c] = "open"
               /\ st' = [st EXCEPT ![c] = "rst"]
               /\ toDaemon' = [toDaemon EXCEPT ![c] = <<>>]
               /\ UNCHANGED <<toClient, daemon, orphan, lock, connect, sock, thread, book>>

Step(t) == \/ Acquire(t) \/ Send(t) \/ RecvCall(t)
           \/ Receive(t) \/ ReceiveEnd(t) \/ ReceiveRaises(t)
           \/ Dial(t) \/ Greeted(t)

Next == \/ \E t \in Threads : SendRequest(t) \/ NewSocket(t) \/ Step(t)
        \/ \E c \in Conns : Serve(c) \/ NetReset(c)
        \/ DaemonDies \/ OrphanEnds \/ DaemonRestarts

\* A thread that can go on does, the daemon serves what it has received, a
\* command with a time limit ends, and a thread gets the lock if it is free over
\* and over again: the sampler holds it for milliseconds of its one-second period.
Fairness == /\ \A t \in Threads : WF_vars(Step(t)) /\ SF_vars(Acquire(t))
            /\ \A c \in Conns : WF_vars(Serve(c))
            /\ WF_vars(OrphanEnds)

SafeSpec == Init /\ [][Next]_vars
Spec == SafeSpec /\ Fairness

-----------------------------------------------------------------------------
(* Properties                                                              *)

\* With the lock free, the connection in use owes nothing but, at most, the
\* three closing bytes of one reply: a reply read in two halves costs the
\* next call its answer, and never shifts answers from call to call.
StreamInStep ==
  lock = NoThread /\ st[sock] = "open" =>
    /\ toDaemon[sock] = <<>>
    /\ \/ toClient[sock] = <<>>
       \/ \E i \in Calls : toClient[sock] = <<Tail3(i)>>

\* The client implements RpcCalls: a request is executed at most once, whatever
\* is lost or repeated, and a call returns its own answer or None.
Rpc == INSTANCE RpcCalls WITH MaxCalls <- MaxCalls + MaxConns
RpcSpec == Rpc!Spec

\* With one web worker, a call never declares a healthy connection dead.
NoFalseDisconnect == [][connect = 1 /\ connect' = 0 => st[sock] # "open"]_vars

\* A call that has sent its request returns, unless checkconnect replaces
\* the socket under it.
CallReturns ==
  \A t \in Threads : pc[t] \in {"recv", "block"} ~>
                       (pc[t] \notin {"recv", "block"} \/ sock # via[t])

\* A reconnection ends, one way or the other, unless a call is left waiting
\* for its answer on a socket that checkconnect has replaced.
Overtaken == \E u \in Threads : pc[u] \in {"recv", "block"} /\ via[u] # sock

ReconnectEnds == \A t \in Web : t \in greeting ~> (t \notin greeting \/ Overtaken)
-----------------------------------------------------------------------------
(* The inductive invariant                                                 *)

InCall(t) == pc[t] \in {"want", "send", "recv", "block"}
Waiting(t) == pc[t] \in {"recv", "block"}

\* Who sends or waits for an answer has the lock.
LockHeld == \A t \in Threads : lock = t <=> pc[t] \in {"send", "recv", "block"}

\* A call under way is open, and no two threads are in the same.
OwnCalls == /\ \A t \in Threads : InCall(t) => cur[t] \in Calls /\ out[cur[t]] = "open"
            /\ \A t, u \in Threads : InCall(t) /\ InCall(u) /\ cur[t] = cur[u] => t = u

\* What has not been asked has not run; a new number has not been used.
Fresh == /\ \A i \in Calls : out[i] = "unused" => runs[i] = 0
         /\ \A i \in (calls + 1)..MaxCalls : out[i] = "unused"
         /\ \A c \in Conns : st[c] = "none" => out[Hello(c)] = "unused"

\* A request is sent once, and is on its way or has run, not both.
OneRequest ==
  /\ \A i \in Calls : runs[i] \in {0, 1}
  /\ \A c \in Conns : toDaemon[c] # <<>> =>
       \E i \in Calls : toDaemon[c] = <<i>> /\ runs[i] = 0 /\ out[i] # "unused"
  /\ \A c, d \in Conns : toDaemon[c] # <<>> /\ toDaemon[c] = toDaemon[d] => c = d
  /\ \A t \in Threads : pc[t] \in {"want", "send"} =>
       runs[cur[t]] = 0 /\ \A c \in Conns : toDaemon[c] # <<cur[t]>>

\* A socket that is not connected carries nothing, a dead one no requests.
Carried == /\ \A c \in Conns : c > sock => st[c] = "none"
           /\ \A c \in Conns : st[c] = "none" => toClient[c] = <<>>
           /\ \A c \in Conns : st[c] \notin Connected => toDaemon[c] = <<>>

\* Nothing is owed on the socket when a request is about to be sent.
Settled(c) == /\ toDaemon[c] = <<>>
              /\ toClient[c] = <<>> \/ \E i \in Calls : toClient[c] = <<Tail3(i)>>
SettledBetween == lock = NoThread \/ pc[lock] = "send" => Settled(sock)

\* While a thread waits nothing is sent on newer sockets.
NewerEmpty ==
  \A t \in Threads : Waiting(t) =>
    /\ via[t] \in 1..sock
    /\ pc[t] = "block" => from[t] \in via[t]..sock
    /\ \A c \in Conns : c > via[t] => toDaemon[c] = <<>> /\ toClient[c] = <<>>

\* What a thread has read has no marker, and no body but that of its own call.
OwnBody(t, piece) == piece.part = "body" => piece.call = cur[t] /\ runs[cur[t]] = 1
ReadSoFar ==
  \A t \in Threads :
    /\ ~Waiting(t) => acc[t] = <<>>
    /\ ~HasMark(acc[t])
    /\ \A k \in DOMAIN acc[t] : OwnBody(t, acc[t][k])

\* What comes on the socket of the request: closing bytes of an earlier reply,
\* then the reply, of which only the closing bytes follow the marker.
Reading(t) == Waiting(t) /\ via[t] = IF pc[t] = "block" THEN from[t] ELSE sock
Coming ==
  \A t \in Threads : Reading(t) =>
    LET s == toClient[via[t]] IN
    /\ toDaemon[via[t]] \in {<<>>, <<cur[t]>>}
    /\ \A k \in DOMAIN s :
         /\ OwnBody(t, s[k])
         /\ s[k].part # "tail" => toDaemon[via[t]] = <<>>
         /\ s[k].part = "mark" =>
              \A m \in DOMAIN s : m > k => m = k + 1 /\ s[m].part = "tail"

\* Inductive: every step preserves it (ZclientProofs).
IInv == /\ TypeOK /\ LockHeld /\ OwnCalls /\ Fresh /\ OneRequest /\ Carried
        /\ SettledBetween /\ NewerEmpty /\ ReadSoFar /\ Coming

\* With one web worker: while the flag is set, or about to be, who waits for
\* an answer waits on the socket in use.  Inductive with IInv.
OneWorkerWeb == \A t, u \in Web : t = u
OnSocketInUse ==
  /\ \A t \in Threads : pc[t] = "greeted" => t \in Web
  /\ connect = 1 \/ (\E t \in Threads : pc[t] = "greeted") =>
       \A t \in Threads : Waiting(t) =>
         via[t] = sock /\ (pc[t] = "block" => from[t] = sock)
=============================================================================
