--------------------------- MODULE ZclientProofs ----------------------------
(* Theorems about the RPC client, for any number of threads, sockets and    *)
(* calls, with and without bare replies and held sockets.                   *)
EXTENDS Zclient, SequenceTheorems, TLAPS

(* The parts of the invariant, before and after a step.                     *)
LEMMA IInvParts ==
  IInv => /\ TypeOK /\ LockHeld /\ OwnCalls /\ Fresh /\ OneRequest /\ Carried
          /\ SettledBetween /\ NewerEmpty /\ ReadSoFar /\ Coming
BY DEF IInv

LEMMA IInvNext ==
  (/\ TypeOK /\ LockHeld /\ OwnCalls /\ Fresh /\ OneRequest /\ Carried
   /\ SettledBetween /\ NewerEmpty /\ ReadSoFar /\ Coming)' => IInv'
BY DEF IInv

(* Sockets, calls and the numbers of the greetings.                         *)
LEMMA Numbers ==
  /\ Conns \subseteq Nat /\ Calls \subseteq Nat
  /\ 0 \notin Conns /\ 0 \notin Calls
  /\ 1..MaxCalls \subseteq Calls
  /\ \A c \in Conns : Hello(c) \in Calls /\ Hello(c) \notin 1..MaxCalls
  /\ \A c, d \in Conns : Hello(c) = Hello(d) => c = d
BY BoundsAssumption DEF Conns, Calls, Hello

(* A number that is new after a call was new before it.                     *)
LEMMA LaterNumbers ==
  ASSUME NEW a \in Nat, NEW b \in Nat, b >= a, NEW j \in (b + 1)..MaxCalls
  PROVE  j \in (a + 1)..MaxCalls /\ j \in 1..MaxCalls
BY BoundsAssumption

(* Only one thread sends or waits for an answer.                            *)
LEMMA OneHolder ==
  ASSUME IInv, NEW t \in Threads, pc[t] \in {"send", "recv", "block"}
  PROVE  /\ lock = t /\ lock # NoThread
         /\ \A u \in Threads : pc[u] \in {"send", "recv", "block"} => u = t
BY ThreadsAssumption DEF IInv, LockHeld

(* A step by which no piece comes: who reads has what it had to come.       *)
LEMMA ComingKept ==
  ASSUME Coming, UNCHANGED <<toClient, via, runs>>,
         \A u \in Threads : Reading(u)' =>
           /\ Reading(u) /\ cur'[u] = cur[u]
           /\ toDaemon'[via[u]] \in {<<>>, <<cur[u]>>}
           /\ toDaemon[via[u]] = <<>> => toDaemon'[via[u]] = <<>>
  PROVE  Coming'
<1>1. ASSUME NEW u \in Threads, Reading(u)', NEW piece, OwnBody(u, piece)
      PROVE  OwnBody(u, piece)'
  BY <1>1 DEF OwnBody
<1>2. SUFFICES ASSUME NEW u \in Threads, Reading(u)', NEW k \in DOMAIN toClient[via[u]]
      PROVE  LET s == toClient[via[u]] IN
             /\ OwnBody(u, s[k])'
             /\ s[k].part # "tail" => toDaemon'[via[u]] = <<>>
             /\ s[k].part = "mark" =>
                  \A m \in DOMAIN s : m > k => m = k + 1 /\ s[m].part = "tail"
  BY DEF Coming
<1> QED
  BY <1>1, <1>2 DEF Coming

(* The invariant holds at first.                                            *)
LEMMA InitInv == Init => IInv
<1> SUFFICES ASSUME Init PROVE IInv
  OBVIOUS
<1> USE Numbers, BoundsAssumption, ThreadsAssumption DEF Init
<1>1. TypeOK
  <2>1. 1 \in Conns
    BY DEF Conns
  <2>2. st \in [Conns -> ConnStates]
    BY DEF ConnStates
  <2>3. toDaemon \in [Conns -> Seq(Calls)] /\ toClient \in [Conns -> Seq(Pieces)] /\ acc \in [Threads -> Seq(Pieces)]
    OBVIOUS
  <2>4. runs \in [Calls -> Nat] /\ calls \in 0..MaxCalls
    OBVIOUS
  <2>5. /\ lock \in Threads \cup {NoThread} /\ connect \in {0, 1} /\ greeting \subseteq Web
        /\ daemon \in BOOLEAN /\ orphan \in BOOLEAN
    OBVIOUS
  <2>6. /\ pc \in [Threads -> {"idle", "want", "send", "recv", "block", "dial", "greeted"}]
        /\ cur \in [Threads -> Calls \cup {0}]
        /\ via \in [Threads -> 0..MaxConns] /\ from \in [Threads -> 0..MaxConns]
        /\ out \in [Calls -> {"unused", "open", "own", "null"}]
    OBVIOUS
  <2> QED
    BY <2>1, <2>2, <2>3, <2>4, <2>5, <2>6 DEF TypeOK
<1>2. LockHeld
  BY DEF LockHeld
<1>3. OwnCalls
  BY DEF OwnCalls, InCall
<1>4. Fresh
  BY DEF Fresh
<1>5. OneRequest
  BY DEF OneRequest
<1>6. Carried
  BY DEF Carried
<1>7. SettledBetween
  BY DEF SettledBetween, Settled, Conns
<1>8. NewerEmpty
  BY DEF NewerEmpty, Waiting
<1>9. ReadSoFar
  BY DEF ReadSoFar, Waiting, HasMark
<1>10. Coming
  BY DEF Coming, Reading, Waiting
<1> QED
  BY <1>1, <1>2, <1>3, <1>4, <1>5, <1>6, <1>7, <1>8, <1>9, <1>10 DEF IInv

-----------------------------------------------------------------------------
(* The calls                                                                *)

(* A thread goes for the lock with a number nobody has used.                *)
LEMMA EnterInv ==
  ASSUME IInv, NEW t \in Threads, NEW i \in Calls,
         pc[t] \in {"idle", "dial"}, out[i] = "unused", Enter(t, i),
         i \notin (calls' + 1)..MaxCalls, calls' \in 0..MaxCalls, calls' >= calls,
         st' \in [Conns -> ConnStates],
         \A c \in Conns : st'[c] = "none" => st[c] = "none" /\ Hello(c) # i,
         \A c \in Conns : st'[c] # st[c] => c = sock /\ st'[c] \in Connected,
         UNCHANGED <<lock, connect, sock, toDaemon, toClient, daemon, orphan, greeting, via, from, acc, runs>>
  PROVE  IInv'
<1> USE IInvParts, Numbers
<1>1. /\ cur' = [cur EXCEPT ![t] = i] /\ out' = [out EXCEPT ![i] = "open"]
      /\ pc' = [pc EXCEPT ![t] = "want"]
  BY DEF Enter
<1>2. /\ pc'[t] = "want" /\ cur'[t] = i /\ out'[i] = "open"
      /\ \A u \in Threads : u # t => pc'[u] = pc[u] /\ cur'[u] = cur[u]
      /\ \A j \in Calls : j # i => out'[j] = out[j]
  BY <1>1 DEF TypeOK
<1>3. TypeOK'
  BY <1>1 DEF TypeOK
<1>4. LockHeld'
  BY <1>2 DEF LockHeld
<1>5. OwnCalls'
  <2>1. \A u \in Threads : u # t /\ InCall(u)' =>
          /\ InCall(u) /\ cur'[u] = cur[u] /\ cur[u] # i
          /\ cur[u] \in Calls /\ out'[cur[u]] = "open"
    <3> SUFFICES ASSUME NEW u \in Threads, u # t, InCall(u)'
                 PROVE  /\ InCall(u) /\ cur'[u] = cur[u] /\ cur[u] # i
                        /\ cur[u] \in Calls /\ out'[cur[u]] = "open"
      OBVIOUS
    <3>1. InCall(u) /\ cur'[u] = cur[u]
      BY <1>2 DEF InCall
    <3>2. cur[u] \in Calls /\ out[cur[u]] = "open"
      BY <3>1 DEF OwnCalls
    <3> QED
      BY <1>2, <3>1, <3>2
  <2> QED
    BY <1>2, <2>1 DEF OwnCalls, InCall
<1>6. Fresh'
  <2>1. \A j \in Calls : out'[j] = "unused" => runs'[j] = 0
    BY <1>2 DEF Fresh
  <2>2. ASSUME NEW j \in (calls' + 1)..MaxCalls
        PROVE  out'[j] = "unused"
    <3>1. calls \in Nat /\ calls' \in Nat
      BY BoundsAssumption DEF TypeOK
    <3>2. j \in (calls + 1)..MaxCalls /\ j \in 1..MaxCalls
      BY <3>1, LaterNumbers
    <3>3. j # i /\ j \in Calls
      BY <3>2
    <3>4. out[j] = "unused"
      BY <3>2 DEF Fresh
    <3> QED
      BY <1>2, <3>3, <3>4, Zenon
  <2>3. ASSUME NEW c \in Conns, st'[c] = "none"
        PROVE  out'[Hello(c)] = "unused"
    <3>1. st[c] = "none" /\ Hello(c) # i /\ Hello(c) \in Calls
      BY <2>3
    <3>2. out[Hello(c)] = "unused"
      BY <3>1 DEF Fresh
    <3> QED
      BY <1>2, <3>1, <3>2
  <2> QED
    BY <2>1, <2>2, <2>3 DEF Fresh, Hello
<1>7. OneRequest'
  <2>1. \A c \in Conns : toDaemon[c] # <<i>>
    BY DEF OneRequest
  <2>2. runs[i] = 0
    BY DEF Fresh
  <2> QED
    BY <1>2, <2>1, <2>2 DEF OneRequest
<1>8. Carried'
  BY DEF Carried, TypeOK
<1>9. SettledBetween'
  BY <1>2, <1>4, ThreadsAssumption DEF SettledBetween, Settled, LockHeld, TypeOK
<1>10. NewerEmpty'
  BY <1>2 DEF NewerEmpty, Waiting
<1>11. ReadSoFar'
  <2>1. acc[t] = <<>>
    BY DEF ReadSoFar, Waiting
  <2> QED
    BY <1>2, <2>1 DEF ReadSoFar, Waiting, HasMark, OwnBody
<1>12. Coming'
  <2>1. \A u \in Threads : Reading(u)' => u # t
    BY <1>2 DEF Reading, Waiting
  <2>2. \A u \in Threads : Reading(u)' => Reading(u) /\ cur'[u] = cur[u]
    BY <1>2, <2>1 DEF Reading, Waiting
  <2>3. \A u \in Threads : Reading(u) => toDaemon[via[u]] \in {<<>>, <<cur[u]>>}
    BY DEF Coming
  <2> QED
    BY <2>2, <2>3, ComingKept
<1> QED
  BY <1>3, <1>4, <1>5, <1>6, <1>7, <1>8, <1>9, <1>10, <1>11, <1>12, IInvNext

(* sendrequest.                                                             *)
LEMMA SendRequestInv ==
  ASSUME IInv, NEW t \in Threads, SendRequest(t)
  PROVE  IInv'
<1> USE IInvParts, Numbers, BoundsAssumption
<1>1. calls' = calls + 1 /\ calls' \in 1..MaxCalls /\ calls \in Nat
  BY DEF SendRequest, TypeOK
<1>2. out[calls'] = "unused" /\ calls' \in Calls
  BY <1>1 DEF Fresh
<1>3. Enter(t, calls') /\ pc[t] = "idle" /\ st' = st
  BY DEF SendRequest, net
<1>4. \A c \in Conns : Hello(c) # calls'
  BY <1>1
<1>5. UNCHANGED <<lock, connect, sock, toDaemon, toClient, daemon, orphan, greeting, via, from, acc, runs>>
  BY DEF SendRequest, net
<1>6. st' \in [Conns -> ConnStates]
  BY <1>3 DEF TypeOK
<1> QED
  BY <1>1, <1>2, <1>3, <1>4, <1>5, <1>6, EnterInv

(* Taking the lock.                                                         *)
LEMMA AcquireInv ==
  ASSUME IInv, NEW t \in Threads, Acquire(t)
  PROVE  IInv'
<1> USE IInvParts
<1>1. /\ pc[t] = "want" /\ lock = NoThread /\ lock' = t
      /\ pc' = [pc EXCEPT ![t] = "send"]
      /\ UNCHANGED <<connect, sock, st, toDaemon, toClient, daemon, orphan, greeting, cur,
                     via, from, acc, calls, runs, out>>
  BY DEF Acquire, net, book
<1>2. /\ pc'[t] = "send"
      /\ \A u \in Threads : u # t => pc'[u] = pc[u]
      /\ \A u \in Threads : pc[u] \notin {"send", "recv", "block"}
  BY <1>1, ThreadsAssumption DEF TypeOK, LockHeld
<1>3. TypeOK'
  BY <1>1 DEF TypeOK
<1>4. LockHeld'
  BY <1>1, <1>2 DEF LockHeld
<1>5. OwnCalls'
  BY <1>1, <1>2 DEF OwnCalls, InCall
<1>6. Fresh'
  BY <1>1 DEF Fresh
<1>7. OneRequest'
  BY <1>1, <1>2 DEF OneRequest
<1>8. Carried'
  BY <1>1 DEF Carried
<1>9. SettledBetween'
  BY <1>1 DEF SettledBetween, Settled
<1>10. NewerEmpty'
  BY <1>1, <1>2 DEF NewerEmpty, Waiting
<1>11. ReadSoFar'
  BY <1>1, <1>2 DEF ReadSoFar, Waiting, HasMark, OwnBody
<1>12. Coming'
  BY <1>1, <1>2 DEF Coming, Reading, Waiting
<1> QED
  BY <1>3, <1>4, <1>5, <1>6, <1>7, <1>8, <1>9, <1>10, <1>11, <1>12, IInvNext

(* A call that returns with nothing owed on the socket in use.              *)
LEMMA ReturnInv ==
  ASSUME IInv, NEW t \in Threads, NEW r \in {"own", "null"}, Return(t, r),
         pc[t] \in {"send", "recv", "block"}, connect' \in {0, 1},
         UNCHANGED <<sock, st, toDaemon, daemon, orphan>>,
         toClient' \in [Conns -> Seq(Pieces)], Settled(sock)',
         \A c \in Conns : toClient[c] = <<>> => toClient'[c] = <<>>
  PROVE  IInv'
<1> USE IInvParts
<1>1. /\ lock' = NoThread
      /\ \A u \in Threads : u # t => pc[u] \notin {"send", "recv", "block"}
  BY OneHolder DEF Return
<1>2. /\ UNCHANGED <<cur, calls, runs>>
      /\ out' = [out EXCEPT ![cur[t]] = r]
      /\ via' = [via EXCEPT ![t] = 0] /\ from' = [from EXCEPT ![t] = 0]
      /\ acc' = [acc EXCEPT ![t] = <<>>]
      /\ greeting' \subseteq greeting
      /\ pc' = [pc EXCEPT ![t] = IF t \in greeting /\ r # "null" THEN "greeted" ELSE "idle"]
  BY DEF Return
<1>3. /\ cur[t] \in Calls /\ out[cur[t]] = "open"
      /\ \A u \in Threads : InCall(u) /\ cur[u] = cur[t] => u = t
  BY DEF OwnCalls, InCall
<1>4. /\ pc'[t] \in {"greeted", "idle"} /\ acc'[t] = <<>>
      /\ \A u \in Threads : u # t => pc'[u] = pc[u] /\ acc'[u] = acc[u]
      /\ out'[cur[t]] = r
      /\ \A j \in Calls : j # cur[t] => out'[j] = out[j]
  BY <1>2, <1>3 DEF TypeOK
<1>5. TypeOK'
  <2>1. out' \in [Calls -> {"unused", "open", "own", "null"}]
    BY <1>2, <1>3 DEF TypeOK
  <2>2. pc' \in [Threads -> {"idle", "want", "send", "recv", "block", "dial", "greeted"}]
    BY <1>2 DEF TypeOK
  <2>3. via' \in [Threads -> 0..MaxConns] /\ from' \in [Threads -> 0..MaxConns]
    BY <1>2, BoundsAssumption DEF TypeOK
  <2>4. acc' \in [Threads -> Seq(Pieces)]
    BY <1>2 DEF TypeOK
  <2>5. greeting' \subseteq Web /\ lock' \in Threads \cup {NoThread}
    BY <1>1, <1>2 DEF TypeOK
  <2> QED
    BY <1>2, <2>1, <2>2, <2>3, <2>4, <2>5 DEF TypeOK
<1>6. LockHeld'
  BY <1>1, <1>4, ThreadsAssumption DEF LockHeld
<1>7. OwnCalls'
  BY <1>2, <1>3, <1>4 DEF OwnCalls, InCall
<1>8. Fresh'
  BY <1>2, <1>3, <1>4, Numbers DEF Fresh
<1>9. OneRequest'
  BY <1>2, <1>3, <1>4 DEF OneRequest
<1>10. Carried'
  BY DEF Carried
<1>11. SettledBetween'
  BY DEF SettledBetween
<1>12. NewerEmpty'
  BY <1>1, <1>4 DEF NewerEmpty, Waiting
<1>13. ReadSoFar'
  BY <1>2, <1>4 DEF ReadSoFar, Waiting, HasMark, OwnBody
<1>14. Coming'
  BY <1>1, <1>4 DEF Coming, Reading, Waiting
<1> QED
  BY <1>5, <1>6, <1>7, <1>8, <1>9, <1>10, <1>11, <1>12, <1>13, <1>14, IInvNext

(* What is left on a settled socket is closing bytes.                       *)
LEMMA SettledTails ==
  ASSUME NEW c \in Conns, Settled(c)
  PROVE  \A k \in DOMAIN toClient[c] : toClient[c][k].part = "tail"
<1>1. CASE toClient[c] = <<>>
  BY <1>1
<1>2. ASSUME NEW i \in Calls, toClient[c] = <<Tail3(i)>>
      PROVE  \A k \in DOMAIN toClient[c] : toClient[c][k].part = "tail"
  <2>1. Tail3(i).part = "tail"
    BY DEF Tail3
  <2>2. DOMAIN toClient[c] = {1} /\ toClient[c][1] = Tail3(i)
    BY <1>2
  <2> QED
    BY <2>1, <2>2
<1> QED
  BY <1>1, <1>2 DEF Settled

(* Sending on a connection that, as far as the client knows, is there.      *)
LEMMA SentInv ==
  ASSUME IInv, NEW t \in Threads, pc[t] = "send", Sent(t),
         \/ /\ st[sock] \in Connected /\ st' = st
            /\ toDaemon' = [toDaemon EXCEPT ![sock] = Append(@, cur[t])]
         \/ /\ st[sock] = "fin" /\ st' = [st EXCEPT ![sock] = "broken"]
            /\ toDaemon' = toDaemon,
         UNCHANGED <<connect, sock, toClient, daemon, orphan>>
  PROVE  IInv'
<1> USE IInvParts
<1>1. /\ UNCHANGED <<lock, greeting, cur, from, acc, calls, runs, out>>
      /\ pc' = [pc EXCEPT ![t] = "recv"] /\ via' = [via EXCEPT ![t] = sock]
  BY DEF Sent, book
<1>2. /\ sock \in Conns /\ sock \in 1..MaxConns /\ sock \in 0..MaxConns
      /\ cur[t] \in Calls /\ out[cur[t]] = "open" /\ runs[cur[t]] = 0
  BY BoundsAssumption DEF TypeOK, Conns, OwnCalls, InCall, OneRequest
<1>3. /\ lock = t
      /\ \A u \in Threads : u # t => pc[u] \notin {"send", "recv", "block"}
  BY OneHolder
<1>4. /\ pc'[t] = "recv" /\ via'[t] = sock
      /\ \A u \in Threads : u # t => pc'[u] = pc[u]
  BY <1>1 DEF TypeOK
<1>5. Settled(sock)
  BY <1>3 DEF SettledBetween
<1>6. /\ \A c \in Conns : c # sock => toDaemon'[c] = toDaemon[c] /\ st'[c] = st[c]
      /\ toDaemon'[sock] \in {<<>>, <<cur[t]>>}
      /\ st'[sock] \in {"open", "held", "queued", "broken"}
      /\ toDaemon'[sock] # <<>> => st'[sock] \in Connected
      /\ toDaemon' \in [Conns -> Seq(Calls)]
      /\ st' \in [Conns -> ConnStates]
      /\ st[sock] # "none"
  <2>1. CASE st[sock] \in Connected /\ st' = st
             /\ toDaemon' = [toDaemon EXCEPT ![sock] = Append(@, cur[t])]
    <3>1. toDaemon'[sock] = <<cur[t]>>
      BY <2>1, <1>2, <1>5 DEF TypeOK, Settled
    <3>2. toDaemon' \in [Conns -> Seq(Calls)]
      BY <2>1, <1>2 DEF TypeOK
    <3> QED
      BY <2>1, <3>1, <3>2, <1>2 DEF TypeOK, Connected
  <2>2. CASE st[sock] = "fin" /\ st' = [st EXCEPT ![sock] = "broken"] /\ toDaemon' = toDaemon
    BY <2>2, <1>2, <1>5 DEF TypeOK, Settled, ConnStates
  <2> QED
    BY <2>1, <2>2
<1>7. TypeOK'
  BY <1>1, <1>2, <1>6 DEF TypeOK
<1>8. LockHeld'
  BY <1>1, <1>3, <1>4 DEF LockHeld
<1>9. OwnCalls'
  BY <1>1, <1>4 DEF OwnCalls, InCall
<1>10. Fresh'
  BY <1>1, <1>6 DEF Fresh
<1>11. OneRequest'
  <2>1. \A i \in Calls : runs'[i] \in {0, 1}
    BY <1>1 DEF OneRequest
  <2>2. \A c \in Conns : toDaemon[c] # <<cur[t]>>
    BY DEF OneRequest
  <2>3. ASSUME NEW c \in Conns, toDaemon'[c] # <<>>
        PROVE  /\ \E i \in Calls : toDaemon'[c] = <<i>> /\ runs'[i] = 0 /\ out'[i] # "unused"
               /\ \A d \in Conns : toDaemon'[c] = toDaemon'[d] => c = d
    <3>1. CASE c = sock
      BY <3>1, <2>2, <2>3, <1>1, <1>2, <1>6
    <3>2. CASE c # sock
      <4>1. toDaemon'[c] = toDaemon[c] /\ toDaemon[c] # <<cur[t]>>
        BY <3>2, <2>2, <1>6
      <4>2. \E i \in Calls : toDaemon'[c] = <<i>> /\ runs'[i] = 0 /\ out'[i] # "unused"
        BY <4>1, <2>3, <1>1 DEF OneRequest
      <4>3. ASSUME NEW d \in Conns, toDaemon'[c] = toDaemon'[d]
            PROVE  c = d
        <5>1. d # sock
          BY <4>1, <4>3, <2>3, <1>6
        <5> QED
          BY <5>1, <4>1, <4>3, <2>3, <1>6 DEF OneRequest
      <4> QED
        BY <4>2, <4>3
    <3> QED
      BY <3>1, <3>2
  <2>4. ASSUME NEW u \in Threads, pc'[u] \in {"want", "send"}
        PROVE  runs'[cur'[u]] = 0 /\ \A c \in Conns : toDaemon'[c] # <<cur'[u]>>
    <3>1. u # t /\ pc[u] = "want" /\ cur'[u] = cur[u]
      BY <2>4, <1>1, <1>3, <1>4
    <3>2. cur[u] # cur[t]
      BY <3>1 DEF OwnCalls, InCall
    <3>3. runs[cur[u]] = 0 /\ \A c \in Conns : toDaemon[c] # <<cur[u]>>
      BY <3>1 DEF OneRequest
    <3>4. runs'[cur'[u]] = 0
      BY <3>1, <3>3, <1>1, Zenon
    <3>5. ASSUME NEW c \in Conns
          PROVE  toDaemon'[c] # <<cur'[u]>>
      <4>1. CASE c = sock
        <5>1. toDaemon'[c] \in {<<>>, <<cur[t]>>}
          BY <4>1, <1>6, Zenon
        <5>2. <<cur[u]>> # <<>> /\ <<cur[u]>> # <<cur[t]>>
          BY <3>2
        <5> QED
          BY <3>1, <5>1, <5>2, Zenon
      <4>2. CASE c # sock
        BY <3>1, <3>3, <4>2, <1>6, Zenon
      <4> QED
        BY <4>1, <4>2
    <3> QED
      BY <3>4, <3>5
  <2> QED
    BY <2>1, <2>3, <2>4 DEF OneRequest
<1>12. Carried'
  BY <1>2, <1>6, Numbers DEF Carried
<1>13. SettledBetween'
  BY <1>1, <1>3, <1>4, ThreadsAssumption DEF SettledBetween
<1>14. NewerEmpty'
  <2>1. \A c \in Conns : c > sock => c # sock /\ toDaemon[c] = <<>> /\ toClient[c] = <<>>
    BY <1>2, Numbers DEF Carried, Connected
  <2>2. sock \in 1..sock
    BY <1>2, BoundsAssumption
  <2> QED
    BY <2>1, <2>2, <1>3, <1>4, <1>6 DEF NewerEmpty, Waiting
<1>15. ReadSoFar'
  BY <1>1, <1>4 DEF ReadSoFar, Waiting, HasMark, OwnBody
<1>16. Coming'
  <2>1. \A k \in DOMAIN toClient[sock] : toClient[sock][k].part = "tail"
    BY <1>2, <1>5, SettledTails
  <2>2. \A u \in Threads : Reading(u)' => u = t
    BY <1>3, <1>4 DEF Reading, Waiting
  <2> QED
    BY <2>1, <2>2, <1>1, <1>4, <1>6 DEF Coming, OwnBody
<1> QED
  BY <1>7, <1>8, <1>9, <1>10, <1>11, <1>12, <1>13, <1>14, <1>15, <1>16, IInvNext

(* send, whatever becomes of it.                                            *)
LEMMA SendInv ==
  ASSUME IInv, NEW t \in Threads, Send(t)
  PROVE  IInv'
<1>1. pc[t] = "send" /\ UNCHANGED <<connect, sock, toClient, daemon, orphan>>
  BY DEF Send
<1>2. CASE Sent(t) /\ ( \/ /\ st[sock] \in Connected /\ st' = st
                           /\ toDaemon' = [toDaemon EXCEPT ![sock] = Append(@, cur[t])]
                        \/ /\ st[sock] = "fin" /\ st' = [st EXCEPT ![sock] = "broken"]
                           /\ toDaemon' = toDaemon )
  BY <1>1, <1>2, SentInv
<1>3. CASE Return(t, "null") /\ UNCHANGED <<st, toDaemon>>
  <2>1. Settled(sock)
    BY <1>1, OneHolder, IInvParts DEF SettledBetween
  <2>2. Settled(sock)'
    BY <2>1, <1>1, <1>3 DEF Settled
  <2>3. toClient' \in [Conns -> Seq(Pieces)] /\ connect' \in {0, 1}
    BY <1>1, IInvParts DEF TypeOK
  <2> QED
    BY <2>2, <2>3, <1>1, <1>3, ReturnInv
<1> QED
  BY <1>1, <1>2, <1>3 DEF Send

(* The call of recv.                                                        *)
LEMMA RecvCallInv ==
  ASSUME IInv, NEW t \in Threads, RecvCall(t)
  PROVE  IInv'
<1> USE IInvParts
<1>1. /\ pc[t] = "recv"
      /\ pc' = [pc EXCEPT ![t] = "block"] /\ from' = [from EXCEPT ![t] = sock]
      /\ UNCHANGED <<lock, connect, sock, st, toDaemon, toClient, daemon, orphan, greeting, cur,
                     via, acc, calls, runs, out>>
  BY DEF RecvCall, net, book
<1>2. /\ pc'[t] = "block" /\ from'[t] = sock
      /\ \A u \in Threads : u # t => pc'[u] = pc[u] /\ from'[u] = from[u]
  <2>1. /\ pc'[t] = "block"
        /\ \A u \in Threads : u # t => pc'[u] = pc[u]
    BY <1>1 DEF TypeOK
  <2>2. /\ from'[t] = sock
        /\ \A u \in Threads : u # t => from'[u] = from[u]
    BY <1>1 DEF TypeOK
  <2> QED
    BY <2>1, <2>2
<1>3. sock \in Nat \ {0} /\ sock \in 0..MaxConns
  <2>1. sock \in Conns
    BY DEF TypeOK
  <2> HIDE IInvParts
  <2> QED
    BY <2>1, BoundsAssumption DEF Conns
<1>4. TypeOK'
  BY <1>1, <1>3 DEF TypeOK
<1>5. LockHeld'
  BY <1>1, <1>2 DEF LockHeld
<1>6. OwnCalls'
  BY <1>1, <1>2 DEF OwnCalls, InCall
<1>7. Fresh'
  BY <1>1 DEF Fresh
<1>8. OneRequest'
  BY <1>1, <1>2 DEF OneRequest
<1>9. Carried'
  BY <1>1 DEF Carried
<1>10. SettledBetween'
  <2>1. lock = t
    BY <1>1, OneHolder
  <2> QED
    BY <2>1, <1>1, <1>2, ThreadsAssumption DEF SettledBetween
<1>11. NewerEmpty'
  <2>1. via[t] \in 1..sock /\ sock \in via[t]..sock
    BY <1>1, <1>3 DEF NewerEmpty, Waiting
  <2> QED
    BY <2>1, <1>1, <1>2 DEF NewerEmpty, Waiting
<1>12. ReadSoFar'
  BY <1>1, <1>2 DEF ReadSoFar, Waiting, HasMark, OwnBody
<1>13. Coming'
  <2>1. \A u \in Threads : Reading(u)' => Reading(u)
    BY <1>1, <1>2 DEF Reading, Waiting
  <2>2. \A u \in Threads : Reading(u) => toDaemon[via[u]] \in {<<>>, <<cur[u]>>}
    BY DEF Coming
  <2> QED
    BY <2>1, <2>2, <1>1, ComingKept
<1> QED
  BY <1>4, <1>5, <1>6, <1>7, <1>8, <1>9, <1>10, <1>11, <1>12, <1>13, IInvNext

(* A thread that has recv called on a socket with nothing to come, and gets *)
(* an end or an error: nothing is owed on the socket in use.                *)
LEMMA NothingOwed ==
  ASSUME IInv, NEW t \in Threads, pc[t] = "block",
         toClient[from[t]] = <<>>, st[from[t]] \notin Connected
  PROVE  Settled(sock)
<1> USE IInvParts
<1>1. /\ sock \in Conns /\ from[t] \in Conns /\ via[t] \in Nat /\ sock \in Nat
      /\ via[t] <= from[t] /\ from[t] <= sock
      /\ \A c \in Conns : c > via[t] => toDaemon[c] = <<>> /\ toClient[c] = <<>>
  <2>1. sock \in 1..MaxConns /\ sock \in Nat /\ MaxConns \in Nat
    BY BoundsAssumption DEF TypeOK, Conns
  <2>2. /\ via[t] \in 1..sock /\ from[t] \in via[t]..sock
        /\ \A c \in Conns : c > via[t] => toDaemon[c] = <<>> /\ toClient[c] = <<>>
    BY DEF NewerEmpty, Waiting
  <2>3. /\ via[t] \in Nat /\ from[t] \in 1..MaxConns
        /\ via[t] <= from[t] /\ from[t] <= sock
    BY <2>1, <2>2
  <2> QED
    BY <2>1, <2>2, <2>3 DEF Conns
<1>2. CASE sock > via[t]
  BY <1>1, <1>2 DEF Settled
<1>3. CASE sock = from[t]
  BY <1>1, <1>3 DEF Settled, Carried
<1>4. sock > via[t] \/ sock = from[t]
  BY <1>1, BoundsAssumption DEF Conns
<1> QED
  BY <1>2, <1>3, <1>4

LEMMA ReceiveEndInv ==
  ASSUME IInv, NEW t \in Threads, ReceiveEnd(t) \/ ReceiveRaises(t)
  PROVE  IInv'
<1>1. /\ pc[t] = "block" /\ toClient[from[t]] = <<>>
      /\ st[from[t]] \in {"fin", "broken", "none", "rst"}
      /\ connect' \in {0, connect} /\ Return(t, "null")
      /\ UNCHANGED <<sock, st, toDaemon, toClient, daemon, orphan>>
  BY DEF ReceiveEnd, ReceiveRaises, net
<1>2. Settled(sock)
  BY <1>1, NothingOwed DEF Connected
<1>3. Settled(sock)'
  BY <1>1, <1>2 DEF Settled
<1>4. toClient' \in [Conns -> Seq(Pieces)] /\ connect' \in {0, 1}
  BY <1>1, IInvParts DEF TypeOK
<1> QED
  BY <1>1, <1>3, <1>4, ReturnInv

(* The places after the first n of L.                                       *)
LEMMA RestOf ==
  ASSUME NEW L \in Nat, NEW n \in 1..L
  PROVE  /\ L - (n + 1) + 1 = L - n
         /\ ~(n + 1 <= L) => L - n = 0
         /\ \A k \in 1..(L - n) : (n + 1) + k - 1 = k + n
OBVIOUS

(* What recv takes, and what is left, of the pieces that have come.         *)
LEMMA Taken ==
  ASSUME NEW a \in Seq(Pieces), NEW s \in Seq(Pieces), NEW n \in 1..Len(s)
  PROVE  LET got == a \o SubSeq(s, 1, n)
             left == SubSeq(s, n + 1, Len(s))
         IN  /\ got \in Seq(Pieces) /\ left \in Seq(Pieces)
             /\ \A k \in DOMAIN got : \/ k \in DOMAIN a /\ got[k] = a[k]
                                      \/ \E m \in DOMAIN s : m <= n /\ got[k] = s[m]
             /\ DOMAIN left = 1..(Len(s) - n)
             /\ \A k \in DOMAIN left : k + n \in DOMAIN s /\ left[k] = s[k + n]
<1> DEFINE front == SubSeq(s, 1, n)
           left == SubSeq(s, n + 1, Len(s))
           got == a \o front
<1>1. Len(s) \in Nat /\ n \in Nat /\ n >= 1 /\ n <= Len(s) /\ DOMAIN s = 1..Len(s)
  OBVIOUS
<1>2. /\ front \in Seq(Pieces) /\ Len(front) = n
      /\ \A k \in 1..n : front[k] = s[k]
  BY <1>1
<1>3. /\ left \in Seq(Pieces) /\ Len(left) = Len(s) - n
      /\ \A k \in 1..(Len(s) - n) : left[k] = s[k + n]
  <2>1. \A k \in (n + 1)..Len(s) : s[k] \in Pieces
    BY <1>1
  <2>2. n + 1 \in Int /\ Len(s) \in Int
    BY <1>1
  <2>3. /\ left \in Seq(Pieces)
        /\ Len(left) = IF n + 1 <= Len(s) THEN Len(s) - (n + 1) + 1 ELSE 0
        /\ \A k \in 1..(Len(s) - (n + 1) + 1) : left[k] = s[(n + 1) + k - 1]
    BY <2>1, <2>2, SubSeqProperties
  <2>4. /\ Len(s) - (n + 1) + 1 = Len(s) - n
        /\ ~(n + 1 <= Len(s)) => Len(s) - n = 0
        /\ \A k \in 1..(Len(s) - n) : (n + 1) + k - 1 = k + n
    BY <1>1, RestOf
  <2> HIDE DEF left
  <2> QED
    BY <2>3, <2>4
<1> HIDE DEF front, left
<1>4. got \in Seq(Pieces)
  BY <1>2
<1>5. ASSUME NEW k \in DOMAIN got
      PROVE  \/ k \in DOMAIN a /\ got[k] = a[k]
             \/ \E m \in DOMAIN s : m <= n /\ got[k] = s[m]
  <2>1. Len(a) \in Nat /\ k \in 1..(Len(a) + n) /\ DOMAIN a = 1..Len(a)
    BY <1>1, <1>2
  <2>2. CASE k <= Len(a)
    BY <2>1, <2>2, <1>2
  <2>3. CASE k > Len(a)
    <3>1. k - Len(a) \in 1..n /\ got[k] = front[k - Len(a)]
      BY <2>1, <2>3, <1>1, <1>2
    <3> QED
      BY <3>1, <1>1, <1>2
  <2> QED
    BY <2>1, <2>2, <2>3
<1>6. DOMAIN left = 1..(Len(s) - n)
  BY <1>1, <1>3
<1>7. ASSUME NEW k \in DOMAIN left
      PROVE  k + n \in DOMAIN s /\ left[k] = s[k + n]
  BY <1>1, <1>3, <1>6
<1> QED
  BY <1>3, <1>4, <1>5, <1>6, <1>7 DEF front, left

(* What comes on a socket that has something to come, for a thread that has *)
(* recv called on it: it is the socket of its request.                      *)
LEMMA OwnSocket ==
  ASSUME IInv, NEW t \in Threads, pc[t] = "block", toClient[from[t]] # <<>>
  PROVE  /\ from[t] = via[t] /\ from[t] \in Conns /\ sock \in Conns
         /\ sock = from[t] \/ Settled(sock)
         /\ Reading(t)
<1> USE IInvParts
<1>1. sock \in 1..MaxConns /\ sock \in Nat /\ MaxConns \in Nat
  BY BoundsAssumption DEF TypeOK, Conns
<1>2. /\ via[t] \in 1..sock /\ from[t] \in via[t]..sock
      /\ \A c \in Conns : c > via[t] => toDaemon[c] = <<>> /\ toClient[c] = <<>>
  BY DEF NewerEmpty, Waiting
<1>3. /\ via[t] \in Nat /\ from[t] \in 1..MaxConns /\ from[t] \in Nat
      /\ via[t] <= from[t] /\ from[t] <= sock
  BY <1>1, <1>2
<1>4. from[t] \in Conns /\ sock \in Conns
  BY <1>1, <1>3 DEF Conns
<1>5. ~(from[t] > via[t])
  BY <1>2, <1>4
<1>6. from[t] = via[t]
  BY <1>3, <1>5
<1>7. sock = from[t] \/ sock > via[t]
  BY <1>1, <1>3, <1>6
<1>8. sock > via[t] => Settled(sock)
  BY <1>2, <1>4 DEF Settled
<1> QED
  BY <1>4, <1>6, <1>7, <1>8 DEF Reading, Waiting

(* What a thread has got is the reply to its own call or no reply at all.   *)
LEMMA AnsweredOwn ==
  ASSUME NEW t \in Threads, NEW got \in Seq(Pieces),
         \A k \in DOMAIN got : OwnBody(t, got[k])
  PROVE  /\ Answered(t, got) \in {"own", "null"}
         /\ Answered(t, got) = "own" => runs[cur[t]] = 1
<1>1. ASSUME NEW i \in Calls, WholeReply(got, i)
      PROVE  i = cur[t] /\ runs[cur[t]] = 1
  <2>1. PICK b \in DOMAIN got : got[b] = Body(i)
    BY <1>1 DEF WholeReply
  <2>2. OwnBody(t, Body(i))
    BY <2>1
  <2> QED
    BY <2>2 DEF OwnBody, Body
<1> QED
  BY <1>1 DEF Answered

(* recv gets something.                                                     *)
LEMMA ReceiveInv ==
  ASSUME IInv, NEW t \in Threads, Receive(t)
  PROVE  IInv'
<1> USE IInvParts
<1> DEFINE c == from[t]
           s == toClient[c]
<1>1. /\ pc[t] = "block" /\ s # <<>>
      /\ UNCHANGED <<connect, sock, st, toDaemon, daemon, orphan>>
  BY DEF Receive
<1>2. PICK n \in 1..Len(s) :
        /\ toClient' = [toClient EXCEPT ![c] = SubSeq(@, n + 1, Len(@))]
        /\ IF HasMark(acc[t] \o SubSeq(s, 1, n))
           THEN Return(t, Answered(t, acc[t] \o SubSeq(s, 1, n)))
           ELSE /\ acc' = [acc EXCEPT ![t] = acc[t] \o SubSeq(s, 1, n)]
                /\ pc' = [pc EXCEPT ![t] = "recv"]
                /\ from' = [from EXCEPT ![t] = 0]
                /\ UNCHANGED <<lock, greeting, cur, via, book>>
  BY DEF Receive
<1>3. /\ c = via[t] /\ c \in Conns /\ sock \in Conns
      /\ sock = c \/ Settled(sock)
      /\ Reading(t)
  BY <1>1, OwnSocket
<1> DEFINE got == acc[t] \o SubSeq(s, 1, n)
           left == SubSeq(s, n + 1, Len(s))
<1>4. acc[t] \in Seq(Pieces) /\ s \in Seq(Pieces)
  BY <1>3 DEF TypeOK
<1>5. /\ got \in Seq(Pieces) /\ left \in Seq(Pieces)
      /\ \A k \in DOMAIN got : \/ k \in DOMAIN acc[t] /\ got[k] = acc[t][k]
                               \/ \E m \in DOMAIN s : m <= n /\ got[k] = s[m]
      /\ DOMAIN left = 1..(Len(s) - n)
      /\ \A k \in DOMAIN left : k + n \in DOMAIN s /\ left[k] = s[k + n]
  <2> HIDE DEF s
  <2> QED
    BY <1>4, Taken
<1>6. /\ toClient' = [toClient EXCEPT ![c] = left]
      /\ toClient'[c] = left
      /\ \A d \in Conns : d # c => toClient'[d] = toClient[d]
      /\ toClient' \in [Conns -> Seq(Pieces)]
  BY <1>2, <1>3, <1>5 DEF TypeOK
<1>7. /\ toDaemon[c] \in {<<>>, <<cur[t]>>}
      /\ \A k \in DOMAIN s :
           /\ OwnBody(t, s[k])
           /\ s[k].part # "tail" => toDaemon[c] = <<>>
           /\ s[k].part = "mark" =>
                \A m \in DOMAIN s : m > k => m = k + 1 /\ s[m].part = "tail"
  BY <1>3 DEF Coming
<1>8. \A k \in DOMAIN got : OwnBody(t, got[k])
  BY <1>5, <1>7 DEF ReadSoFar
<1>9. lock = t /\ \A u \in Threads : u # t => pc[u] \notin {"send", "recv", "block"}
  BY <1>1, OneHolder
<1>10. CASE HasMark(got)
  <2>1. PICK m \in DOMAIN s : m <= n /\ s[m].part = "mark"
    <3>1. PICK k \in DOMAIN got : got[k].part = "mark"
      BY <1>10 DEF HasMark
    <3>2. ~(k \in DOMAIN acc[t] /\ got[k] = acc[t][k])
      BY <3>1 DEF ReadSoFar, HasMark
    <3> QED
      BY <3>1, <3>2, <1>5
  <2>2. toDaemon[c] = <<>>
    BY <2>1, <1>7
  <2>3. ASSUME NEW k \in DOMAIN left
        PROVE  k = 1 /\ left[k].part = "tail"
    <3>1. k + n \in DOMAIN s /\ left[k] = s[k + n] /\ k \in Nat /\ k >= 1 /\ n \in Nat /\ m \in Nat
      BY <1>4, <1>5
    <3>2. k + n > m
      BY <2>1, <3>1
    <3>3. k + n = m + 1 /\ s[k + n].part = "tail"
      BY <2>1, <3>1, <3>2, <1>7
    <3>4. left[k].part = "tail"
      BY <3>1, <3>3, Zenon
    <3>5. k = 1
      BY <2>1, <3>1, <3>3
    <3> QED
      BY <3>4, <3>5
  <2>4. left = <<>> \/ \E i \in Calls : left = <<Tail3(i)>>
    <3>1. CASE left # <<>>
      <4>1. Len(left) = 1 /\ 1 \in DOMAIN left /\ left[1] \in Pieces
        <5> HIDE DEF left
        <5>1. Len(left) \in Nat /\ Len(left) # 0 /\ DOMAIN left = 1..Len(left)
          BY <3>1, <1>5
        <5>2. Len(left) \in DOMAIN left
          BY <5>1
        <5> QED
          BY <2>3, <5>1, <5>2, <1>5
      <4>2. PICK i \in Calls : left[1] = Tail3(i)
        <5> HIDE DEF left
        <5>1. left[1].part = "tail"
          BY <2>3, <4>1
        <5> QED
          BY <4>1, <5>1 DEF Pieces, Tail3
      <4>3. left = <<Tail3(i)>>
        <5> HIDE DEF left
        <5> QED
          BY <4>1, <4>2, <1>5
      <4> QED
        BY <4>3
    <3> QED
      BY <3>1
  <2>5. Settled(sock)'
    BY <2>2, <2>4, <1>1, <1>3, <1>6 DEF Settled
  <2>6. \A d \in Conns : toClient[d] = <<>> => toClient'[d] = <<>>
    BY <1>1, <1>6
  <2>7. Answered(t, got) \in {"own", "null"}
    BY <1>5, <1>8, AnsweredOwn
  <2>8. Return(t, Answered(t, got))
    BY <1>2, <1>10
  <2>9. connect' \in {0, 1}
    BY <1>1 DEF TypeOK
  <2> HIDE DEF got
  <2> QED
    BY <2>5, <2>6, <2>7, <2>8, <2>9, <1>1, <1>6, ReturnInv
<1>11. CASE ~HasMark(got)
  <2>1. /\ acc' = [acc EXCEPT ![t] = got]
        /\ pc' = [pc EXCEPT ![t] = "recv"] /\ from' = [from EXCEPT ![t] = 0]
        /\ UNCHANGED <<lock, greeting, cur, via, calls, runs, out>>
    BY <1>2, <1>11 DEF book
  <2> HIDE DEF got, left, s
  <2>2. /\ pc'[t] = "recv" /\ acc'[t] = got
        /\ \A u \in Threads : u # t => pc'[u] = pc[u] /\ acc'[u] = acc[u]
    BY <2>1 DEF TypeOK
  <2>3. TypeOK'
    <3>1. 0 \in 0..MaxConns
      BY BoundsAssumption
    <3>2. acc' \in [Threads -> Seq(Pieces)]
      BY <2>1, <1>5 DEF TypeOK
    <3>3. /\ from' \in [Threads -> 0..MaxConns]
          /\ pc' \in [Threads -> {"idle", "want", "send", "recv", "block", "dial", "greeted"}]
      BY <2>1, <3>1 DEF TypeOK
    <3> QED
      BY <2>1, <3>2, <3>3, <1>1, <1>6 DEF TypeOK
  <2>4. LockHeld'
    BY <2>1, <2>2, <1>1 DEF LockHeld
  <2>5. OwnCalls'
    BY <2>1, <2>2, <1>1 DEF OwnCalls, InCall
  <2>6. Fresh'
    BY <2>1, <1>1 DEF Fresh
  <2>7. OneRequest'
    BY <2>1, <2>2, <1>1 DEF OneRequest
  <2>8. Carried'
    BY <1>1, <1>6 DEF Carried, s
  <2>9. SettledBetween'
    BY <2>1, <2>2, <1>9, ThreadsAssumption DEF SettledBetween
  <2>10. NewerEmpty'
    <3>1. \A d \in Conns : toClient[d] = <<>> => toClient'[d] = <<>>
      BY <1>1, <1>6 DEF s
    <3>2. \A u \in Threads : Waiting(u)' => u = t
      BY <2>2, <1>9 DEF Waiting
    <3>3. Waiting(t)
      BY <1>1 DEF Waiting
    <3> QED
      BY <2>1, <2>2, <3>1, <3>2, <3>3, <1>1 DEF NewerEmpty
  <2>11. ReadSoFar'
    <3>1. Waiting(t)'
      BY <2>2 DEF Waiting
    <3>2. ~HasMark(acc[t])'
      BY <2>2, <1>11 DEF HasMark
    <3>3. \A k \in DOMAIN acc'[t] :
             acc'[t][k].part = "body" => acc'[t][k].call = cur'[t] /\ runs'[cur'[t]] = 1
      BY <2>1, <2>2, <1>8 DEF OwnBody
    <3>4. \A u \in Threads : u # t =>
            /\ Waiting(u)' <=> Waiting(u)
            /\ HasMark(acc[u])' <=> HasMark(acc[u])
            /\ \A k \in DOMAIN acc'[u] : OwnBody(u, acc[u][k])' <=> OwnBody(u, acc[u][k])
      BY <2>1, <2>2 DEF Waiting, HasMark, OwnBody
    <3> QED
      BY <2>2, <3>1, <3>2, <3>3, <3>4 DEF ReadSoFar, OwnBody
  <2>12. Coming'
    <3>1. \A u \in Threads : Reading(u)' => u = t
      BY <2>2, <1>9 DEF Reading, Waiting
    <3>2. /\ via'[t] = c /\ toDaemon'[c] = toDaemon[c] /\ toClient'[c] = left
      BY <2>1, <1>1, <1>3, <1>6
    <3>3. ASSUME NEW k \in DOMAIN left
          PROVE  /\ left[k].part = "body" => left[k].call = cur'[t] /\ runs'[cur'[t]] = 1
                 /\ left[k].part # "tail" => toDaemon[c] = <<>>
                 /\ left[k].part = "mark" =>
                      \A m \in DOMAIN left : m > k => m = k + 1 /\ left[m].part = "tail"
      <4>1. k + n \in DOMAIN s /\ left[k] = s[k + n]
        BY <1>5
      <4>2. ASSUME left[k].part = "mark", NEW m \in DOMAIN left, m > k
            PROVE  m = k + 1 /\ left[m].part = "tail"
        <5>1. m + n \in DOMAIN s /\ left[m] = s[m + n]
          BY <1>5
        <5>2. n \in Nat /\ k \in Nat /\ m \in Nat
          BY <1>4, <1>5
        <5>3. m + n > k + n
          BY <4>2, <5>2
        <5>4. m + n = (k + n) + 1 /\ s[m + n].part = "tail"
          BY <4>1, <4>2, <5>1, <5>3, <1>7
        <5> QED
          BY <5>1, <5>2, <5>4
      <4>3. OwnBody(t, left[k]) /\ (left[k].part # "tail" => toDaemon[c] = <<>>)
        BY <4>1, <1>7
      <4> QED
        BY <4>2, <4>3, <2>1 DEF OwnBody
    <3> HIDE DEF c
    <3> QED
      BY <3>1, <3>2, <3>3, <2>1, <1>7 DEF Coming, OwnBody
  <2> QED
    BY <2>3, <2>4, <2>5, <2>6, <2>7, <2>8, <2>9, <2>10, <2>11, <2>12, IInvNext
<1> QED
  BY <1>10, <1>11

-----------------------------------------------------------------------------
(* checkconnect                                                             *)

(* A new socket replaces the one in use.                                    *)
LEMMA NewSocketInv ==
  ASSUME IInv, NEW t \in Threads, NewSocket(t)
  PROVE  IInv'
<1> USE IInvParts
<1>1. /\ t \in Web /\ pc[t] = "idle" /\ sock < MaxConns /\ sock' = sock + 1
      /\ pc' = [pc EXCEPT ![t] = "dial"] /\ greeting' = greeting \cup {t}
      /\ UNCHANGED <<lock, connect, st, toDaemon, toClient, daemon, orphan, cur,
                     via, from, acc, calls, runs, out>>
  BY DEF NewSocket, net, book
<1>2. /\ pc'[t] = "dial"
      /\ \A u \in Threads : u # t => pc'[u] = pc[u]
  BY <1>1 DEF TypeOK
<1>3. sock \in Nat /\ sock' \in Conns
  <2>1. sock \in 1..MaxConns /\ MaxConns \in Nat
    BY BoundsAssumption DEF TypeOK, Conns
  <2> QED
    BY <2>1, <1>1 DEF Conns
<1>4. TypeOK'
  BY <1>1, <1>3 DEF TypeOK
<1>5. LockHeld'
  BY <1>1, <1>2 DEF LockHeld
<1>6. OwnCalls'
  BY <1>1, <1>2 DEF OwnCalls, InCall
<1>7. Fresh'
  BY <1>1 DEF Fresh
<1>8. OneRequest'
  BY <1>1, <1>2 DEF OneRequest
<1>9. Carried'
  <2>1. \A c \in Conns : c > sock' => c > sock
    BY <1>1, <1>3, Numbers
  <2> QED
    BY <2>1, <1>1 DEF Carried
<1>10. SettledBetween'
  <2>1. st[sock'] = "none"
    BY <1>1, <1>3 DEF Carried
  <2>2. toDaemon[sock'] = <<>> /\ toClient[sock'] = <<>>
    BY <2>1, <1>3 DEF Carried, Connected
  <2> QED
    BY <2>2, <1>1 DEF SettledBetween, Settled
<1>11. NewerEmpty'
  <2>1. \A u \in Threads : Waiting(u)' => Waiting(u) /\ u # t
    BY <1>2 DEF Waiting
  <2>2. ASSUME NEW u \in Threads, Waiting(u)
        PROVE  /\ via[u] \in 1..sock'
               /\ pc[u] = "block" => from[u] \in via[u]..sock'
    <3>1. via[u] \in 1..sock /\ (pc[u] = "block" => from[u] \in via[u]..sock)
      BY <2>2 DEF NewerEmpty
    <3>2. via[u] \in Nat
      BY <3>1, <1>3
    <3> QED
      BY <3>1, <3>2, <1>1, <1>3
  <2> QED
    BY <2>1, <2>2, <1>1, <1>2 DEF NewerEmpty, Waiting
<1>12. ReadSoFar'
  BY <1>1, <1>2 DEF ReadSoFar, Waiting, HasMark, OwnBody
<1>13. Coming'
  <2>1. ASSUME NEW u \in Threads, Reading(u)'
        PROVE  Reading(u)
    <3>1. Waiting(u) /\ pc'[u] = pc[u]
      BY <2>1, <1>2 DEF Reading, Waiting
    <3>2. via[u] # sock'
      BY <3>1, <1>1, <1>3 DEF NewerEmpty
    <3> QED
      BY <2>1, <3>1, <3>2, <1>1 DEF Reading, Waiting
  <2> QED
    BY <2>1, <1>1 DEF Coming, OwnBody
<1> QED
  BY <1>4, <1>5, <1>6, <1>7, <1>8, <1>9, <1>10, <1>11, <1>12, <1>13, IInvNext

(* A thread outside the calls goes idle.                                    *)
LEMMA IdleInv ==
  ASSUME IInv, NEW t \in Threads, pc[t] \in {"dial", "greeted"},
         pc' = [pc EXCEPT ![t] = "idle"], greeting' = greeting \ {t},
         connect' \in {0, 1},
         UNCHANGED <<lock, sock, st, toDaemon, toClient, daemon, orphan, cur,
                     via, from, acc, calls, runs, out>>
  PROVE  IInv'
<1> USE IInvParts
<1>1. /\ pc'[t] = "idle"
      /\ \A u \in Threads : u # t => pc'[u] = pc[u]
  BY DEF TypeOK
<1>2. TypeOK'
  BY DEF TypeOK
<1>3. LockHeld'
  BY <1>1 DEF LockHeld
<1>4. OwnCalls'
  BY <1>1 DEF OwnCalls, InCall
<1>5. Fresh'
  BY DEF Fresh
<1>6. OneRequest'
  BY <1>1 DEF OneRequest
<1>7. Carried'
  BY DEF Carried
<1>8. SettledBetween'
  BY <1>1 DEF SettledBetween, Settled, LockHeld
<1>9. NewerEmpty'
  BY <1>1 DEF NewerEmpty, Waiting
<1>10. ReadSoFar'
  BY <1>1 DEF ReadSoFar, Waiting, HasMark, OwnBody
<1>11. Coming'
  BY <1>1 DEF Coming, Reading, Waiting, OwnBody
<1> QED
  BY <1>2, <1>3, <1>4, <1>5, <1>6, <1>7, <1>8, <1>9, <1>10, <1>11, IInvNext

(* connect, and "checkconnect" if it succeeds.                              *)
LEMMA DialInv ==
  ASSUME IInv, NEW t \in Threads, Dial(t)
  PROVE  IInv'
<1> USE IInvParts
<1>1. /\ pc[t] = "dial"
      /\ UNCHANGED <<lock, connect, sock, toDaemon, toClient, daemon, orphan, via, from, acc, calls, runs>>
  BY DEF Dial
<1>2. CASE (daemon \/ orphan) /\ st[sock] = "none"
  <2>1. st' = [st EXCEPT ![sock] = IF daemon THEN "open" ELSE "queued"] /\ Enter(t, Hello(sock)) /\ UNCHANGED greeting
    BY <1>2 DEF Dial
  <2>2. sock \in Conns /\ Hello(sock) \in Calls /\ out[Hello(sock)] = "unused"
    BY <1>2, Numbers DEF TypeOK, Fresh
  <2>3. /\ st' \in [Conns -> ConnStates]
        /\ st'[sock] \in Connected /\ \A c \in Conns : c # sock => st'[c] = st[c]
    BY <2>1, <2>2 DEF TypeOK, ConnStates, Connected
  <2>4. /\ \A c \in Conns : st'[c] = "none" => st[c] = "none" /\ Hello(c) # Hello(sock)
        /\ \A c \in Conns : st'[c] # st[c] => c = sock /\ st'[c] \in Connected
    BY <2>2, <2>3, Numbers DEF Connected
  <2>5. /\ Hello(sock) \notin (calls' + 1)..MaxCalls
        /\ calls' \in 0..MaxCalls /\ calls' >= calls
    BY <1>1, <2>2, BoundsAssumption DEF TypeOK, Hello, Conns
  <2> QED
    BY <1>1, <2>1, <2>2, <2>3, <2>4, <2>5, EnterInv
<1>3. CASE ~((daemon \/ orphan) /\ st[sock] = "none")
  <2>1. /\ pc' = [pc EXCEPT ![t] = "idle"] /\ greeting' = greeting \ {t}
        /\ UNCHANGED <<st, cur, out>>
    BY <1>3 DEF Dial
  <2>2. connect' \in {0, 1}
    BY <1>1 DEF TypeOK
  <2> QED
    BY <1>1, <2>1, <2>2, IdleInv
<1> QED
  BY <1>2, <1>3

(* "done!".                                                                 *)
LEMMA GreetedInv ==
  ASSUME IInv, NEW t \in Threads, Greeted(t)
  PROVE  IInv'
BY IdleInv DEF Greeted, net, book

-----------------------------------------------------------------------------
(* The daemon and the network                                               *)

(* Requests may be lost, if the connections they were on are dead.          *)
LEMMA LostInv ==
  ASSUME IInv, daemon' \in BOOLEAN /\ orphan' \in BOOLEAN, st' \in [Conns -> ConnStates],
         \A c \in Conns : st'[c] = "none" <=> st[c] = "none",
         \A c \in Conns : st'[c] \notin Connected => toDaemon'[c] = <<>>,
         toDaemon' \in [Conns -> Seq(Calls)],
         \A c \in Conns : toDaemon'[c] \in {toDaemon[c], <<>>},
         UNCHANGED <<toClient, lock, connect, sock, thread, book>>
  PROVE  IInv'
<1> USE IInvParts
<1>1. UNCHANGED <<toClient, lock, connect, sock, pc, greeting, cur, via, from, acc,
                  calls, runs, out>>
  BY DEF thread, book
<1>2. TypeOK'
  BY <1>1 DEF TypeOK
<1>3. LockHeld'
  BY <1>1 DEF LockHeld
<1>4. OwnCalls'
  BY <1>1 DEF OwnCalls, InCall
<1>5. Fresh'
  BY <1>1 DEF Fresh
<1>6. OneRequest'
  <2>1. \A i \in Calls : <<i>> # <<>>
    OBVIOUS
  <2>2. \A c \in Conns : toDaemon'[c] # <<>> => toDaemon'[c] = toDaemon[c]
    OBVIOUS
  <2>3. \A c \in Conns, d \in Conns :
           toDaemon'[c] # <<>> /\ toDaemon'[c] = toDaemon'[d] => c = d
    BY <2>2 DEF OneRequest
  <2>4. \A t \in Threads : pc[t] \in {"want", "send"} =>
           \A c \in Conns : toDaemon'[c] # <<cur[t]>>
    <3> SUFFICES ASSUME NEW t \in Threads, pc[t] \in {"want", "send"}, NEW c \in Conns,
                        toDaemon'[c] = <<cur[t]>>
                 PROVE  FALSE
      OBVIOUS
    <3>1. toDaemon'[c] # <<>>
      OBVIOUS
    <3>2. toDaemon[c] = <<cur[t]>>
      BY <3>1, <2>2
    <3> QED
      BY <3>2 DEF OneRequest
  <2> QED
    BY <1>1, <2>2, <2>3, <2>4 DEF OneRequest
<1>7. Carried'
  BY <1>1 DEF Carried
<1>8. SettledBetween'
  BY <1>1 DEF SettledBetween, Settled, TypeOK
<1>9. NewerEmpty'
  BY <1>1 DEF NewerEmpty, Waiting
<1>10. ReadSoFar'
  BY <1>1 DEF ReadSoFar, Waiting, HasMark, OwnBody
<1>11. Coming'
  <2>1. ASSUME NEW t \in Threads, Reading(t)
        PROVE  /\ toDaemon'[via[t]] \in {<<>>, <<cur[t]>>}
               /\ toDaemon[via[t]] = <<>> => toDaemon'[via[t]] = <<>>
    <3>1. via[t] \in Conns
      <4>1. via[t] \in 1..sock /\ sock \in 1..MaxConns
        BY <2>1 DEF Reading, NewerEmpty, TypeOK, Conns
      <4> QED
        BY <4>1, BoundsAssumption DEF Conns
    <3> QED
      BY <2>1, <3>1 DEF Coming
  <2>2. \A t \in Threads : Reading(t)' => Reading(t)
    BY <1>1 DEF Reading, Waiting
  <2> QED
    BY <2>1, <2>2, <1>1, ComingKept
<1> QED
  BY <1>2, <1>3, <1>4, <1>5, <1>6, <1>7, <1>8, <1>9, <1>10, <1>11, IInvNext

(* What becomes of the connections when the daemon dies.                    *)
LEMMA GoneConnections ==
  ASSUME IInv, NEW unread \in [Conns -> Seq(Calls)], DaemonGone(unread)
  PROVE  /\ daemon' \in BOOLEAN /\ orphan' \in BOOLEAN /\ st' \in [Conns -> ConnStates]
         /\ \A c \in Conns : st'[c] = "none" <=> st[c] = "none"
         /\ toDaemon' \in [Conns -> Seq(Calls)]
         /\ \A c \in Conns : toDaemon'[c] \in {unread[c], <<>>}
         /\ \A c \in Conns : st'[c] \notin Connected => toDaemon'[c] = <<>>
<1>1. /\ daemon' = FALSE /\ orphan' \in BOOLEAN /\ st' \in [Conns -> ConnStates]
      /\ toDaemon' = [c \in Conns |-> IF st'[c] = "held" THEN unread[c] ELSE <<>>]
      /\ \A c \in Conns : st'[c] \in IF st[c] # "open" THEN {st[c]}
                                      ELSE {Closing(unread[c])} \cup (IF orphan' THEN {"held"} ELSE {})
  BY SwitchesAssumption DEF DaemonGone
<1>2. ASSUME NEW c \in Conns
      PROVE  st'[c] = "none" <=> st[c] = "none"
  <2>1. CASE st[c] = "open"
    <3>1. Closing(unread[c]) \in {"fin", "rst"}
      BY DEF Closing
    <3>2. st'[c] \in {"fin", "rst", "held"}
      BY <2>1, <3>1, <1>1
    <3> QED
      BY <2>1, <3>2
  <2>2. CASE st[c] # "open"
    BY <2>2, <1>1
  <2> QED
    BY <2>1, <2>2
<1>3. /\ toDaemon' \in [Conns -> Seq(Calls)]
      /\ \A c \in Conns : toDaemon'[c] \in {unread[c], <<>>}
      /\ \A c \in Conns : st'[c] \notin Connected => toDaemon'[c] = <<>>
  <2>1. <<>> \in Seq(Calls)
    OBVIOUS
  <2> QED
    BY <1>1, <2>1 DEF Connected
<1> QED
  BY <1>1, <1>2, <1>3

LEMMA DaemonDiesInv ==
  ASSUME IInv, DaemonDies
  PROVE  IInv'
<1>1. toDaemon \in [Conns -> Seq(Calls)] /\ DaemonGone(toDaemon)
      /\ UNCHANGED <<toClient, lock, connect, sock, thread, book>>
  BY IInvParts DEF DaemonDies, TypeOK
<1> QED
  BY <1>1, GoneConnections, LostInv

LEMMA OrphanEndsInv ==
  ASSUME IInv, OrphanEnds
  PROVE  IInv'
<1> USE IInvParts
<1>1. /\ st' = [c \in Conns |-> CASE st[c] = "held" -> Closing(toDaemon[c])
                                   [] st[c] = "queued" -> "rst"
                                   [] OTHER -> st[c]]
      /\ toDaemon' = [c \in Conns |-> IF st[c] \in {"held", "queued"}
                                      THEN <<>> ELSE toDaemon[c]]
      /\ orphan' = FALSE
      /\ UNCHANGED <<toClient, daemon, lock, connect, sock, thread, book>>
  BY DEF OrphanEnds
<1>2. ASSUME NEW c \in Conns
      PROVE  /\ st[c] = "held" => st'[c] \in {"fin", "rst"}
             /\ st[c] = "queued" => st'[c] = "rst"
             /\ st[c] \notin {"held", "queued"} => st'[c] = st[c]
  BY <1>1 DEF Closing
<1>3. st' \in [Conns -> ConnStates] /\ daemon' \in BOOLEAN /\ orphan' \in BOOLEAN
  <2>1. st' = [c \in Conns |-> st'[c]]
    BY <1>1
  <2>2. \A c \in Conns : st'[c] \in ConnStates
    BY <1>2 DEF TypeOK, ConnStates
  <2> QED
    BY <1>1, <2>1, <2>2 DEF TypeOK
<1>4. toDaemon' \in [Conns -> Seq(Calls)]
  BY <1>1 DEF TypeOK
<1>5. /\ \A c \in Conns : st'[c] = "none" <=> st[c] = "none"
      /\ \A c \in Conns : toDaemon'[c] \in {toDaemon[c], <<>>}
      /\ \A c \in Conns : st'[c] \notin Connected => toDaemon'[c] = <<>>
  <2>1. \A c \in Conns : toDaemon'[c] = IF st[c] \in {"held", "queued"} THEN <<>> ELSE toDaemon[c]
    BY <1>1
  <2>2. \A c \in Conns : st[c] \notin Connected => toDaemon[c] = <<>>
    BY DEF Carried
  <2> QED
    BY <1>2, <2>1, <2>2 DEF Connected
<1> QED
  BY <1>1, <1>3, <1>4, <1>5, LostInv

LEMMA DaemonRestartsInv ==
  ASSUME IInv, DaemonRestarts
  PROVE  IInv'
<1>1. /\ daemon' \in BOOLEAN /\ orphan' \in BOOLEAN
      /\ UNCHANGED <<st, toDaemon, toClient, lock, connect, sock, thread, book>>
  BY IInvParts DEF DaemonRestarts, TypeOK
<1> QED
  BY <1>1, LostInv, IInvParts DEF TypeOK, Carried

LEMMA NetResetInv ==
  ASSUME IInv, NEW c \in Conns, NetReset(c)
  PROVE  IInv'
<1> USE IInvParts
<1>1. /\ st[c] = "open" /\ st' = [st EXCEPT ![c] = "rst"]
      /\ toDaemon' = [toDaemon EXCEPT ![c] = <<>>]
      /\ UNCHANGED <<toClient, daemon, orphan, lock, connect, sock, thread, book>>
  BY DEF NetReset
<1>2. st' \in [Conns -> ConnStates] /\ daemon' \in BOOLEAN /\ orphan' \in BOOLEAN
  BY <1>1 DEF TypeOK, ConnStates
<1>3. toDaemon' \in [Conns -> Seq(Calls)]
  BY <1>1 DEF TypeOK
<1>4. /\ \A d \in Conns : st'[d] = "none" <=> st[d] = "none"
      /\ \A d \in Conns : toDaemon'[d] \in {toDaemon[d], <<>>}
      /\ \A d \in Conns : st'[d] \notin Connected => toDaemon'[d] = <<>>
  BY <1>1 DEF Carried, TypeOK, Connected
<1> QED
  BY <1>1, <1>2, <1>3, <1>4, LostInv

(* The pieces in s, on a socket that carries the requests q, are in order   *)
(* for a thread that waits for call i, which has run as ran says.           *)
Arriving(s, q, i, ran) ==
  \A k \in DOMAIN s :
    /\ s[k].part = "body" => s[k].call = i /\ ran = 1
    /\ s[k].part # "tail" => q = <<>>
    /\ s[k].part = "mark" => \A m \in DOMAIN s : m > k => m = k + 1 /\ s[m].part = "tail"

(* A reply is in order after closing bytes of an earlier one.               *)
LEMMA ReplyArrives ==
  ASSUME NEW s \in Seq(Pieces), \A k \in DOMAIN s : s[k].part = "tail",
         NEW i \in Calls, NEW r \in Reply(i)
  PROVE  Arriving(s \o r, <<>>, i, 1)
<1>1. /\ Body(i).part = "body" /\ Body(i).call = i /\ Body(i) \in Pieces
      /\ Mark(i).part = "mark" /\ Mark(i) \in Pieces
      /\ Tail3(i).part = "tail" /\ Tail3(i) \in Pieces
  BY DEF Body, Mark, Tail3, Pieces
<1>2. \/ r = <<Body(i), Mark(i), Tail3(i)>>
      \/ r = <<Body(i), Tail3(i)>>
  BY DEF Reply
<1>3. /\ r \in Seq(Pieces) /\ Len(r) \in {2, 3}
      /\ r[1] = Body(i) /\ r[Len(r)] = Tail3(i)
      /\ Len(r) = 3 => r[2] = Mark(i)
  <2>1. CASE r = <<Body(i), Mark(i), Tail3(i)>>
    BY <2>1, <1>1
  <2>2. CASE r = <<Body(i), Tail3(i)>>
    BY <2>2, <1>1
  <2> QED
    BY <2>1, <2>2, <1>2
<1>4. DOMAIN (s \o r) = 1..(Len(s) + Len(r)) /\ Len(s) \in Nat
  BY <1>3, ConcatProperties
<1>5. ASSUME NEW k \in DOMAIN (s \o r)
      PROVE  \/ k <= Len(s) /\ (s \o r)[k].part = "tail"
             \/ k = Len(s) + 1 /\ (s \o r)[k] = Body(i)
             \/ k = Len(s) + 2 /\ Len(r) = 3 /\ (s \o r)[k] = Mark(i)
             \/ k = Len(s) + Len(r) /\ (s \o r)[k] = Tail3(i)
  <2>1. k \in 1..(Len(s) + Len(r)) /\ k \in Nat
    BY <1>3, <1>4
  <2>2. (s \o r)[k] = IF k <= Len(s) THEN s[k] ELSE r[k - Len(s)]
    BY <2>1, <1>3, ConcatProperties
  <2>3. CASE k <= Len(s)
    BY <2>1, <2>2, <2>3
  <2>4. CASE k > Len(s)
    <3>1. \/ k = Len(s) + 1 /\ k - Len(s) = 1
          \/ k = Len(s) + 2 /\ k - Len(s) = 2
          \/ k = Len(s) + 3 /\ k - Len(s) = 3 /\ Len(r) = 3
      BY <2>1, <2>4, <1>3, <1>4
    <3>2. (s \o r)[k] = r[k - Len(s)]
      BY <2>1, <2>2, <2>4, <1>4
    <3> QED
      BY <3>1, <3>2, <1>3
  <2> QED
    BY <2>1, <2>3, <2>4, <1>4
<1>6. ASSUME NEW k \in DOMAIN (s \o r)
      PROVE  /\ (s \o r)[k].part = "body" => (s \o r)[k].call = i
             /\ (s \o r)[k].part = "mark" =>
                   \A m \in DOMAIN (s \o r) : m > k => m = k + 1 /\ (s \o r)[m].part = "tail"
  <2>1. (s \o r)[k].part = "body" => (s \o r)[k].call = i
    BY <1>1, <1>5
  <2>2. ASSUME (s \o r)[k].part = "mark", NEW m \in DOMAIN (s \o r), m > k
        PROVE  m = k + 1 /\ (s \o r)[m].part = "tail"
    <3>1. k = Len(s) + 2 /\ Len(r) = 3
      BY <2>2, <1>1, <1>5
    <3>2. m = Len(s) + 3 /\ (s \o r)[m] = Tail3(i)
      BY <2>2, <3>1, <1>4, <1>5
    <3> QED
      BY <3>1, <3>2, <1>1, <1>4
  <2> QED
    BY <2>1, <2>2
<1> QED
  BY <1>6 DEF Arriving

(* A request is executed and answered, or its answer kills the daemon.      *)
LEMMA ServeInv ==
  ASSUME IInv, NEW c \in Conns, Serve(c)
  PROVE  IInv'
<1> USE IInvParts
<1>1. /\ st[c] = "open" /\ toDaemon[c] # <<>>
      /\ UNCHANGED <<lock, connect, sock, pc, greeting, cur, via, from, acc, calls, out>>
  BY DEF Serve, thread
<1>2. PICK i \in Calls : toDaemon[c] = <<i>> /\ runs[i] = 0 /\ out[i] # "unused"
  BY <1>1 DEF OneRequest
<1>3. /\ runs' = [runs EXCEPT ![i] = @ + 1]
      /\ \/ /\ \E r \in Reply(i) :
                 toClient' = [toClient EXCEPT ![c] = IF Dropped(c) THEN <<>> ELSE @ \o r]
            /\ toDaemon' = [toDaemon EXCEPT ![c] = Tail(@)]
            /\ UNCHANGED <<st, daemon, orphan>>
         \/ /\ Dropped(c) /\ DaemonGone([toDaemon EXCEPT ![c] = Tail(@)])
            /\ UNCHANGED toClient
  <2>1. Head(toDaemon[c]) = i
    BY <1>2
  <2> QED
    BY <2>1 DEF Serve
<1>4. /\ runs' \in [Calls -> Nat] /\ runs'[i] = 1
      /\ \A j \in Calls : j # i => runs'[j] = runs[j]
  BY <1>2, <1>3 DEF TypeOK
<1>5. /\ daemon' \in BOOLEAN /\ orphan' \in BOOLEAN /\ st' \in [Conns -> ConnStates]
      /\ \A d \in Conns : st'[d] = "none" <=> st[d] = "none"
      /\ toDaemon' \in [Conns -> Seq(Calls)]
      /\ toDaemon'[c] = <<>>
      /\ \A d \in Conns : toDaemon'[d] \in {toDaemon[d], <<>>}
      /\ \A d \in Conns : st'[d] \notin Connected => toDaemon'[d] = <<>>
  <2> DEFINE left == [toDaemon EXCEPT ![c] = Tail(@)]
  <2>1. /\ left \in [Conns -> Seq(Calls)] /\ left[c] = <<>>
        /\ \A d \in Conns : d # c => left[d] = toDaemon[d]
    <3>1. Tail(toDaemon[c]) = <<>>
      BY <1>2
    <3>2. /\ left[c] = <<>> /\ left = [d \in Conns |-> left[d]]
          /\ \A d \in Conns : d # c => left[d] = toDaemon[d]
      BY <3>1 DEF TypeOK
    <3>3. ASSUME NEW d \in Conns
          PROVE  left[d] \in Seq(Calls)
      <4>1. toDaemon[d] \in Seq(Calls)
        BY DEF TypeOK
      <4>2. <<>> \in Seq(Calls)
        OBVIOUS
      <4> QED
        BY <3>2, <4>1, <4>2
    <3> HIDE DEF left
    <3> QED
      BY <3>2, <3>3
  <2>2. (toDaemon' = left /\ UNCHANGED <<st, daemon, orphan>>) \/ DaemonGone(left)
    BY <1>3
  <2> HIDE DEF left
  <2>3. CASE toDaemon' = left /\ UNCHANGED <<st, daemon, orphan>>
    BY <2>1, <2>3 DEF TypeOK, Carried
  <2>4. CASE DaemonGone(left)
    BY <2>1, <2>4, GoneConnections
  <2> QED
    BY <2>2, <2>3, <2>4
<1>6. /\ toClient' \in [Conns -> Seq(Pieces)]
      /\ \A d \in Conns : d # c => toClient'[d] = toClient[d]
      /\ ~Dropped(c) => \E r \in Reply(i) : toClient'[c] = toClient[c] \o r
  <2>1. Reply(i) \subseteq Seq(Pieces)
    <3>1. Body(i) \in Pieces /\ Mark(i) \in Pieces /\ Tail3(i) \in Pieces
      BY <1>2 DEF Body, Mark, Tail3, Pieces
    <3>2. /\ <<Body(i), Mark(i), Tail3(i)>> \in Seq(Pieces)
          /\ <<Body(i), Tail3(i)>> \in Seq(Pieces)
      BY <3>1
    <3> QED
      BY <3>2 DEF Reply
  <2>2. CASE UNCHANGED toClient /\ Dropped(c)
    BY <2>2 DEF TypeOK
  <2>3. ASSUME NEW r \in Reply(i),
               toClient' = [toClient EXCEPT ![c] = IF Dropped(c) THEN <<>> ELSE @ \o r]
        PROVE  /\ toClient' \in [Conns -> Seq(Pieces)]
               /\ \A d \in Conns : d # c => toClient'[d] = toClient[d]
               /\ ~Dropped(c) => toClient'[c] = toClient[c] \o r
    <3>1. (IF Dropped(c) THEN <<>> ELSE toClient[c] \o r) \in Seq(Pieces)
      BY <2>1 DEF TypeOK
    <3> QED
      BY <2>3, <3>1 DEF TypeOK
  <2> QED
    BY <2>2, <2>3, <1>3
<1>7. /\ \A d \in Conns : d # c => toDaemon[d] # <<i>>
      /\ \A d \in Conns : toDaemon'[d] # <<>> => d # c /\ toDaemon'[d] = toDaemon[d]
  BY <1>1, <1>2, <1>5 DEF OneRequest
<1>8. \A t \in Threads, p \in Pieces : OwnBody(t, p) /\ p.part = "body" => p.call # i
  BY <1>2 DEF OwnBody
<1>9. TypeOK'
  BY <1>1, <1>4, <1>5, <1>6 DEF TypeOK
<1>10. LockHeld'
  BY <1>1 DEF LockHeld
<1>11. OwnCalls'
  BY <1>1 DEF OwnCalls, InCall
<1>12. Fresh'
  BY <1>1, <1>2, <1>4, <1>5 DEF Fresh
<1>13. OneRequest'
  <2>1. \A j \in Calls : runs'[j] \in {0, 1}
    BY <1>4 DEF OneRequest
  <2>2. ASSUME NEW d \in Conns, toDaemon'[d] # <<>>
        PROVE  \E j \in Calls : toDaemon'[d] = <<j>> /\ runs'[j] = 0 /\ out'[j] # "unused"
    <3>1. PICK j \in Calls : toDaemon[d] = <<j>> /\ runs[j] = 0 /\ out[j] # "unused"
      BY <2>2, <1>7 DEF OneRequest
    <3>2. j # i
      BY <2>2, <3>1, <1>7
    <3> QED
      BY <2>2, <3>1, <3>2, <1>1, <1>4, <1>7
  <2>3. \A d, e \in Conns : toDaemon'[d] # <<>> /\ toDaemon'[d] = toDaemon'[e] => d = e
    BY <1>7 DEF OneRequest
  <2>4. ASSUME NEW t \in Threads, pc[t] \in {"want", "send"}
        PROVE  runs'[cur[t]] = 0 /\ \A d \in Conns : toDaemon'[d] # <<cur[t]>>
    <3>1. /\ runs[cur[t]] = 0 /\ \A d \in Conns : toDaemon[d] # <<cur[t]>>
          /\ cur[t] \in Calls
      BY <2>4 DEF OneRequest, OwnCalls, InCall
    <3>2. cur[t] # i
      BY <3>1, <1>2
    <3>3. <<cur[t]>> # <<>>
      OBVIOUS
    <3> QED
      BY <3>1, <3>2, <3>3, <1>4, <1>7
  <2> QED
    BY <2>1, <2>2, <2>3, <2>4, <1>1 DEF OneRequest
<1>14. Carried'
  BY <1>1, <1>5, <1>6 DEF Carried
<1>15. SettledBetween'
  <2>1. ASSUME Settled(sock)
        PROVE  Settled(sock)'
    <3>1. sock # c /\ sock \in Conns
      BY <2>1, <1>1 DEF Settled, TypeOK
    <3> QED
      BY <2>1, <3>1, <1>1, <1>5, <1>6 DEF Settled
  <2> QED
    BY <2>1, <1>1 DEF SettledBetween
<1>16. NewerEmpty'
  BY <1>1, <1>5, <1>6 DEF NewerEmpty, Waiting
<1>17. \A t \in Threads, p \in Pieces : OwnBody(t, p) => OwnBody(t, p)'
  BY <1>1, <1>2, <1>4 DEF OwnBody, Pieces
<1>18. ReadSoFar'
  <2>1. \A t \in Threads : \A k \in DOMAIN acc[t] : acc[t][k] \in Pieces
    BY DEF TypeOK
  <2> QED
    BY <2>1, <1>1, <1>17 DEF ReadSoFar, Waiting, HasMark
<1>19. Coming'
  <2>1. ASSUME NEW t \in Threads, Reading(t)
        PROVE  /\ toDaemon'[via[t]] \in {<<>>, <<cur[t]>>}
               /\ Arriving(toClient'[via[t]], toDaemon'[via[t]], cur[t], runs'[cur[t]])
    <3>1. via[t] \in Conns /\ ~Dropped(via[t]) /\ cur[t] \in Calls
      <4>1. via[t] \in 1..sock /\ sock \in 1..MaxConns
        BY <2>1 DEF Reading, NewerEmpty, TypeOK, Conns
      <4>2. via[t] \in Conns
        BY <4>1, BoundsAssumption DEF Conns
      <4>3. cur[t] \in Calls
        BY <2>1 DEF OwnCalls, InCall, Reading, Waiting
      <4> QED
        BY <4>2, <4>3, <2>1 DEF Reading, Dropped
    <3>2. /\ toDaemon[via[t]] \in {<<>>, <<cur[t]>>}
          /\ Arriving(toClient[via[t]], toDaemon[via[t]], cur[t], runs[cur[t]])
      BY <2>1 DEF Coming, OwnBody, Arriving
    <3>3. CASE via[t] # c
      <4>1. toClient'[via[t]] = toClient[via[t]] /\ toDaemon'[via[t]] \in {toDaemon[via[t]], <<>>}
        BY <3>1, <3>3, <1>5, <1>6
      <4>2. runs[cur[t]] = 1 => runs'[cur[t]] = 1
        BY <3>1, <1>2, <1>4
      <4> QED
        BY <3>2, <4>1, <4>2 DEF Arriving
    <3>4. CASE via[t] = c
      <4>1. cur[t] = i
        <5>1. toDaemon[c] = <<cur[t]>>
          BY <3>2, <3>4, <1>1
        <5> QED
          BY <5>1, <1>2
      <4>2. PICK r \in Reply(i) : toClient'[c] = toClient[c] \o r
        BY <3>1, <3>4, <1>6
      <4>3. \A k \in DOMAIN toClient[c] : toClient[c][k].part = "tail"
        BY <3>2, <3>4, <1>1 DEF Arriving
      <4>4. toClient[c] \in Seq(Pieces)
        BY DEF TypeOK
      <4>5. Arriving(toClient[c] \o r, <<>>, i, 1)
        BY <4>2, <4>3, <4>4, ReplyArrives
      <4> QED
        BY <3>4, <4>1, <4>2, <4>5, <1>4, <1>5
    <3> QED
      BY <3>3, <3>4
  <2>2. \A t \in Threads : Reading(t)' => Reading(t)
    BY <1>1 DEF Reading, Waiting
  <2> QED
    BY <2>1, <2>2, <1>1 DEF Coming, Arriving, OwnBody
<1> QED
  BY <1>9, <1>10, <1>11, <1>12, <1>13, <1>14, <1>15, <1>16, <1>18, <1>19, IInvNext

-----------------------------------------------------------------------------
(* Theorems                                                                 *)

(* A step of a thread, of the daemon or of the network, by name.            *)
LEMMA StepInv ==
  ASSUME IInv, [Next]_vars
  PROVE  IInv'
<1>1. ASSUME NEW t \in Threads, SendRequest(t) \/ NewSocket(t) \/ Step(t)
      PROVE  IInv'
  BY <1>1, SendRequestInv, NewSocketInv, AcquireInv, SendInv, RecvCallInv, ReceiveInv,
     ReceiveEndInv, DialInv, GreetedInv DEF Step
<1>2. ASSUME NEW c \in Conns, Serve(c) \/ NetReset(c)
      PROVE  IInv'
  BY <1>2, ServeInv, NetResetInv
<1>3. ASSUME DaemonDies \/ OrphanEnds \/ DaemonRestarts
      PROVE  IInv'
  BY <1>3, DaemonDiesInv, OrphanEndsInv, DaemonRestartsInv
<1>4. ASSUME UNCHANGED vars
      PROVE  IInv'
  <2>1. /\ daemon' = daemon /\ orphan' = orphan /\ st' = st /\ toDaemon' = toDaemon
        /\ UNCHANGED <<toClient, lock, connect, sock, thread, book>>
    BY <1>4 DEF vars, net
  <2> QED
    BY <2>1, LostInv, IInvParts DEF TypeOK, Carried
<1> QED
  BY <1>1, <1>2, <1>3, <1>4 DEF Next

(* The inductive invariant: between the lock, the sockets, the pieces that  *)
(* come and the calls under way.                                            *)
THEOREM Invariance == SafeSpec => []IInv
<1>1. Init => IInv
  BY InitInv
<1>2. IInv /\ [Next]_vars => IInv'
  BY StepInv
<1> QED
  BY <1>1, <1>2, PTL DEF SafeSpec

(* Each variable of the client keeps to its values.                         *)
THEOREM TypeCorrect == SafeSpec => []TypeOK
<1>1. IInv => TypeOK
  BY DEF IInv
<1> QED
  BY <1>1, Invariance, PTL

(* With the lock free, the connection in use owes at most the three closing *)
(* bytes of one reply: zclient.py never answers a call with the reply of an *)
(* earlier one, however its recv cuts the stream.                           *)
THEOREM InStep == SafeSpec => []StreamInStep
<1>1. IInv => StreamInStep
  BY DEF IInv, SettledBetween, Settled, StreamInStep
<1> QED
  BY <1>1, Invariance, PTL

(* Who holds the lock is in a call, and is the only one to send or receive: *)
(* self.sock carries one conversation at a time.                            *)
THEOREM OneAtATime ==
  SafeSpec => [](\A t, u \in Threads : pc[t] \in {"send", "recv", "block"}
                                       /\ pc[u] \in {"send", "recv", "block"} => t = u)
<1>1. IInv => \A t, u \in Threads : pc[t] \in {"send", "recv", "block"}
                                    /\ pc[u] \in {"send", "recv", "block"} => t = u
  BY DEF IInv, LockHeld
<1> QED
  BY <1>1, Invariance, PTL

(* What is on its way to the daemon grows by a send alone.                  *)
LEMMA OnlySendGrows ==
  ASSUME IInv, [Next]_vars, NEW c \in Conns, Len(toDaemon'[c]) > Len(toDaemon[c])
  PROVE  \E t \in Threads : Send(t) /\ c = sock
<1>1. toDaemon \in [Conns -> Seq(Calls)] /\ Len(toDaemon[c]) \in Nat
  BY DEF IInv, TypeOK
<1>2. toDaemon' # toDaemon
  BY <1>1
<1>3. toDaemon'[c] # <<>>
  <2>1. Len(<<>>) = 0 /\ ~(0 > Len(toDaemon[c]))
    BY <1>1
  <2> QED
    BY <2>1
<1>4. ASSUME NEW unread \in [Conns -> Seq(Calls)], DaemonGone(unread)
      PROVE  toDaemon'[c] = unread[c]
  BY <1>3, <1>4, GoneConnections
<1>5. ~DaemonDies
  <2> SUFFICES ASSUME DaemonDies PROVE FALSE
    OBVIOUS
  <2>1. toDaemon'[c] = toDaemon[c]
    BY <1>1, <1>4 DEF DaemonDies
  <2> QED
    BY <1>1, <2>1
<1>6. ASSUME NEW d \in Conns, Serve(d)
      PROVE  FALSE
  <2> DEFINE left == [toDaemon EXCEPT ![d] = Tail(@)]
  <2>1. toDaemon[d] # <<>> /\ (toDaemon' = left \/ DaemonGone(left))
    BY <1>6 DEF Serve
  <2>2. left \in [Conns -> Seq(Calls)]
    BY <1>1, <2>1
  <2>3. toDaemon'[c] = left[c]
    <3> HIDE DEF left
    <3> QED
      BY <1>4, <2>1, <2>2
  <2>4. CASE c = d
    <3>1. toDaemon'[c] = Tail(toDaemon[c]) /\ toDaemon[c] \in Seq(Calls) /\ toDaemon[c] # <<>>
      BY <1>1, <2>1, <2>3, <2>4
    <3>2. Len(Tail(toDaemon[c])) = Len(toDaemon[c]) - 1
      BY <3>1
    <3>3. Len(toDaemon'[c]) = Len(toDaemon[c]) - 1
      BY <3>1, <3>2, Zenon
    <3> QED
      BY <1>1, <3>3
  <2>5. CASE c # d
    <3>1. toDaemon'[c] = toDaemon[c]
      BY <1>1, <2>3, <2>5
    <3> QED
      BY <1>1, <3>1
  <2> QED
    BY <2>4, <2>5
<1>7. ASSUME NEW d \in Conns, NetReset(d)
      PROVE  FALSE
  <2>1. toDaemon' = [toDaemon EXCEPT ![d] = <<>>]
    BY <1>7 DEF NetReset
  <2>2. CASE c = d
    BY <1>1, <1>3, <2>1, <2>2
  <2>3. CASE c # d
    BY <1>1, <2>1, <2>3
  <2> QED
    BY <2>2, <2>3
<1>8. ~OrphanEnds
  BY <1>1, <1>3 DEF OrphanEnds
<1>9. PICK t \in Threads : Send(t)
  BY <1>2, <1>5, <1>6, <1>7, <1>8
     DEF Next, Step, SendRequest, NewSocket, Acquire, RecvCall, Receive, ReceiveEnd,
         ReceiveRaises, Dial, Greeted, DaemonRestarts, vars, net
<1>10. toDaemon' = [toDaemon EXCEPT ![sock] = Append(@, cur[t])]
  BY <1>2, <1>9 DEF Send
<1>11. c = sock
  BY <1>1, <1>10
<1> QED
  BY <1>9, <1>11

(* A request goes out only on a connection on which no request is under way *)
(* and no answer is owed but, at most, the closing bytes of one: the daemon *)
(* sees clients that wait, as SerialClients of JrpcServer supposes.         *)
THEOREM AsksInTurn ==
  SafeSpec => [][\A c \in Conns : Len(toDaemon'[c]) > Len(toDaemon[c]) =>
                   /\ toDaemon[c] = <<>>
                   /\ toClient[c] = <<>> \/ \E i \in Calls : toClient[c] = <<Tail3(i)>>]_vars
<1>1. ASSUME IInv, [Next]_vars, NEW c \in Conns, Len(toDaemon'[c]) > Len(toDaemon[c])
      PROVE  Settled(c)
  <2>1. PICK t \in Threads : Send(t) /\ c = sock
    BY <1>1, OnlySendGrows
  <2>2. lock = t /\ pc[lock] = "send"
    BY <1>1, <2>1, OneHolder DEF Send
  <2> QED
    BY <1>1, <2>1, <2>2 DEF IInv, SettledBetween
<1>2. IInv /\ [Next]_vars =>
        [\A c \in Conns : Len(toDaemon'[c]) > Len(toDaemon[c]) =>
           /\ toDaemon[c] = <<>>
           /\ toClient[c] = <<>> \/ \E i \in Calls : toClient[c] = <<Tail3(i)>>]_vars
  BY <1>1 DEF Settled
<1> QED
  BY <1>2, Invariance, PTL DEF SafeSpec

-----------------------------------------------------------------------------
(* The client implements RpcCalls                                           *)

(* A call that enters is asked.                                             *)
LEMMA EnterAsks ==
  ASSUME NEW t \in Threads, NEW i \in Calls, out[i] = "unused", Enter(t, i), UNCHANGED runs
  PROVE  Rpc!Ask(i)
BY DEF Enter, Rpc!Ask

(* A call that returns is answered or gives up.                             *)
LEMMA ReturnAnswers ==
  ASSUME IInv, NEW t \in Threads, NEW r \in {"own", "null"}, Return(t, r),
         pc[t] \in {"send", "recv", "block"},
         r = "own" => runs[cur[t]] = 1
  PROVE  cur[t] \in Calls /\ (Rpc!Answer(cur[t]) \/ Rpc!GiveUp(cur[t]))
<1>1. cur[t] \in Calls /\ out[cur[t]] = "open"
  BY DEF IInv, OwnCalls, InCall
<1>2. out' = [out EXCEPT ![cur[t]] = r] /\ UNCHANGED runs
  BY DEF Return
<1> QED
  BY <1>1, <1>2 DEF Rpc!Answer, Rpc!GiveUp

(* recv gets something: the call goes on, or returns its own answer, after  *)
(* the request ran, or None.                                                *)
LEMMA ReceiveAnswers ==
  ASSUME IInv, NEW t \in Threads, Receive(t)
  PROVE  (\E i \in Calls : Rpc!Answer(i) \/ Rpc!GiveUp(i)) \/ UNCHANGED <<runs, out>>
<1> USE IInvParts
<1> DEFINE s == toClient[from[t]]
<1>1. pc[t] = "block" /\ s # <<>>
  BY DEF Receive
<1>2. PICK n \in 1..Len(s) :
        IF HasMark(acc[t] \o SubSeq(s, 1, n))
        THEN Return(t, Answered(t, acc[t] \o SubSeq(s, 1, n)))
        ELSE UNCHANGED book
  BY DEF Receive
<1>3. from[t] = via[t] /\ from[t] \in Conns /\ Reading(t)
  BY <1>1, OwnSocket
<1>4. acc[t] \in Seq(Pieces) /\ s \in Seq(Pieces)
  BY <1>3 DEF TypeOK
<1>5. \A k \in DOMAIN s : OwnBody(t, s[k])
  BY <1>3 DEF Coming
<1> HIDE DEF s
<1> DEFINE got == acc[t] \o SubSeq(s, 1, n)
<1>6. /\ got \in Seq(Pieces)
      /\ \A k \in DOMAIN got : \/ k \in DOMAIN acc[t] /\ got[k] = acc[t][k]
                               \/ \E m \in DOMAIN s : m <= n /\ got[k] = s[m]
  BY <1>4, Taken
<1>7. \A k \in DOMAIN got : OwnBody(t, got[k])
  BY <1>5, <1>6 DEF ReadSoFar
<1> HIDE DEF got
<1>8. /\ Answered(t, got) \in {"own", "null"}
      /\ Answered(t, got) = "own" => runs[cur[t]] = 1
  BY <1>6, <1>7, AnsweredOwn
<1>9. CASE Return(t, Answered(t, got))
  BY <1>1, <1>8, <1>9, ReturnAnswers
<1>10. CASE UNCHANGED book
  BY <1>10 DEF book
<1> QED
  BY <1>2, <1>9, <1>10 DEF got

(* A request that is served runs for the first time, after it was asked.    *)
LEMMA ServeRuns ==
  ASSUME IInv, NEW c \in Conns, Serve(c)
  PROVE  \E i \in Calls : Rpc!Run(i)
<1>1. toDaemon[c] # <<>> /\ runs' = [runs EXCEPT ![Head(toDaemon[c])] = @ + 1] /\ UNCHANGED out
  BY DEF Serve
<1>2. PICK i \in Calls : toDaemon[c] = <<i>> /\ runs[i] = 0 /\ out[i] # "unused"
  BY <1>1 DEF IInv, OneRequest
<1>3. Head(toDaemon[c]) = i /\ runs[i] + 1 = 1
  BY <1>2
<1>4. runs' = [runs EXCEPT ![i] = 1]
  BY <1>1, <1>3, Zenon
<1> QED
  BY <1>1, <1>2, <1>4 DEF Rpc!Run

(* Every step of the client, the daemon and the network is a step of        *)
(* RpcCalls or changes nothing it speaks of.                                *)
LEMMA StepRefines ==
  ASSUME IInv, [Next]_vars
  PROVE  [Rpc!Next]_(Rpc!vars)
<1> USE IInvParts
<1>1. Rpc!Calls = Calls
  BY DEF Rpc!Calls, Calls
<1>2. SUFFICES \/ \E i \in Calls : Rpc!Ask(i) \/ Rpc!Run(i) \/ Rpc!Answer(i) \/ Rpc!GiveUp(i)
               \/ UNCHANGED <<runs, out>>
  BY <1>1 DEF Rpc!Next, Rpc!vars
<1>3. ASSUME NEW t \in Threads, SendRequest(t)
      PROVE  \E i \in Calls : Rpc!Ask(i)
  <2>1. calls' = calls + 1 /\ calls < MaxCalls /\ calls \in 0..MaxCalls
    BY <1>3 DEF SendRequest, TypeOK
  <2>2. calls' \in (calls + 1)..MaxCalls /\ calls' \in 1..MaxCalls
    BY <2>1, BoundsAssumption
  <2>3. out[calls'] = "unused" /\ calls' \in Calls
    BY <2>2, Numbers DEF Fresh
  <2>4. Enter(t, calls') /\ UNCHANGED runs
    BY <1>3 DEF SendRequest
  <2> QED
    BY <2>3, <2>4, EnterAsks
<1>4. ASSUME NEW t \in Threads, Dial(t)
      PROVE  (\E i \in Calls : Rpc!Ask(i)) \/ UNCHANGED <<runs, out>>
  <2>1. CASE (daemon \/ orphan) /\ st[sock] = "none"
    <3>1. Enter(t, Hello(sock)) /\ UNCHANGED runs
      BY <1>4, <2>1 DEF Dial
    <3>2. Hello(sock) \in Calls /\ out[Hello(sock)] = "unused"
      BY <2>1, Numbers DEF Fresh, TypeOK
    <3> QED
      BY <3>1, <3>2, EnterAsks
  <2>2. CASE ~((daemon \/ orphan) /\ st[sock] = "none")
    BY <1>4, <2>2 DEF Dial
  <2> QED
    BY <2>1, <2>2
<1>5. ASSUME NEW t \in Threads, Send(t) \/ ReceiveEnd(t) \/ ReceiveRaises(t)
      PROVE  (\E i \in Calls : Rpc!GiveUp(i) \/ Rpc!Answer(i)) \/ UNCHANGED <<runs, out>>
  <2>1. \/ pc[t] \in {"send", "block"} /\ Return(t, "null")
        \/ UNCHANGED <<runs, out>>
    BY <1>5 DEF Send, ReceiveEnd, ReceiveRaises, Sent, book
  <2> QED
    BY <2>1, ReturnAnswers
<1>6. ASSUME NEW t \in Threads, NewSocket(t) \/ Acquire(t) \/ RecvCall(t) \/ Greeted(t)
      PROVE  UNCHANGED <<runs, out>>
  BY <1>6 DEF NewSocket, Acquire, RecvCall, Greeted, book
<1>7. ASSUME \/ \E c \in Conns : NetReset(c)
             \/ DaemonDies \/ OrphanEnds \/ DaemonRestarts \/ UNCHANGED vars
      PROVE  UNCHANGED <<runs, out>>
  BY <1>7 DEF NetReset, DaemonDies, OrphanEnds, DaemonRestarts, vars, book
<1> QED
  BY <1>3, <1>4, <1>5, <1>6, <1>7, ReceiveAnswers, ServeRuns DEF Next, Step

(* Whatever the sockets, the threads and the daemon do, a request runs at   *)
(* most once on the device and a call returns the answer of its own request,*)
(* after it ran, or None.                                                   *)
THEOREM Refinement == SafeSpec => RpcSpec
<1>1. Init => Rpc!Init
  BY DEF Init, Rpc!Init, Rpc!Calls, Calls
<1>2. IInv /\ [Next]_vars => [Rpc!Next]_(Rpc!vars)
  BY StepRefines
<1> QED
  BY <1>1, <1>2, Invariance, PTL DEF SafeSpec, RpcSpec, Rpc!Spec

-----------------------------------------------------------------------------
(* One web worker                                                           *)

(* A thread that takes a step in a call, or leaves checkconnect, without a   *)
(* return: who waits goes on waiting on the socket in use.                  *)
LEMMA KeepsSocket ==
  ASSUME OnSocketInUse, NEW t \in Threads, sock' = sock,
         \A u \in Threads : u # t => pc'[u] = pc[u] /\ via'[u] = via[u] /\ from'[u] = from[u],
         pc'[t] # "greeted",
         connect' = 1 => connect = 1 \/ pc[t] = "greeted",
         Waiting(t)' => /\ via'[t] = sock \/ (Waiting(t) /\ via'[t] = via[t])
                        /\ pc'[t] = "block" => from'[t] = sock
  PROVE  OnSocketInUse'
<1>1. \A u \in Threads : pc'[u] = "greeted" => pc[u] = "greeted"
  OBVIOUS
<1>2. ASSUME connect' = 1 \/ (\E u \in Threads : pc'[u] = "greeted"),
             NEW u \in Threads, Waiting(u)'
      PROVE  via'[u] = sock' /\ (pc'[u] = "block" => from'[u] = sock')
  <2>1. connect = 1 \/ (\E v \in Threads : pc[v] = "greeted")
    BY <1>1, <1>2
  <2>2. \A v \in Threads : Waiting(v) => via[v] = sock /\ (pc[v] = "block" => from[v] = sock)
    BY <2>1 DEF OnSocketInUse
  <2>3. CASE u = t
    BY <2>2, <2>3, <1>2
  <2>4. CASE u # t
    BY <2>2, <2>4, <1>2 DEF Waiting
  <2> QED
    BY <2>3, <2>4
<1> QED
  BY <1>1, <1>2 DEF OnSocketInUse

(* After a return nobody waits.                                             *)
LEMMA ReturnFrees ==
  ASSUME IInv, OnSocketInUse, NEW t \in Threads, NEW r, Return(t, r),
         pc[t] \in {"send", "recv", "block"}
  PROVE  OnSocketInUse'
<1>1. /\ pc' = [pc EXCEPT ![t] = IF t \in greeting /\ r # "null" THEN "greeted" ELSE "idle"]
      /\ \A u \in Threads : u # t => pc[u] \notin {"send", "recv", "block"}
  BY OneHolder DEF Return
<1>2. /\ pc'[t] \in {"greeted", "idle"} /\ (pc'[t] = "greeted" => t \in Web)
      /\ \A u \in Threads : u # t => pc'[u] = pc[u]
  BY <1>1, IInvParts DEF TypeOK
<1>3. \A u \in Threads : ~Waiting(u)'
  BY <1>1, <1>2 DEF Waiting
<1> QED
  BY <1>2, <1>3 DEF OnSocketInUse

LEMMA OnSocketStep ==
  ASSUME OneWorkerWeb, IInv, OnSocketInUse, [Next]_vars
  PROVE  OnSocketInUse'
<1> USE IInvParts
<1>1. ASSUME NEW t \in Threads, SendRequest(t) \/ Acquire(t) \/ Dial(t) \/ Greeted(t)
      PROVE  OnSocketInUse'
  <2>1. /\ UNCHANGED <<sock, via, from>>
        /\ \E v \in {"want", "send", "idle"} : pc' = [pc EXCEPT ![t] = v]
        /\ connect' = connect \/ pc[t] = "greeted"
    BY <1>1 DEF SendRequest, Acquire, Dial, Greeted, Enter
  <2>2. /\ pc'[t] \in {"want", "send", "idle"}
        /\ \A u \in Threads : u # t => pc'[u] = pc[u]
    BY <2>1 DEF TypeOK
  <2>3. ~Waiting(t)'
    BY <2>2 DEF Waiting
  <2> QED
    BY <2>1, <2>2, <2>3, KeepsSocket
<1>2. ASSUME NEW t \in Threads, Send(t)
      PROVE  OnSocketInUse'
  <2>1. CASE Sent(t)
    <3>1. /\ pc' = [pc EXCEPT ![t] = "recv"] /\ via' = [via EXCEPT ![t] = sock]
          /\ UNCHANGED <<connect, sock, from>>
      BY <1>2, <2>1 DEF Send, Sent
    <3>2. /\ pc'[t] = "recv" /\ via'[t] = sock
          /\ \A u \in Threads : u # t => pc'[u] = pc[u] /\ via'[u] = via[u]
      BY <3>1 DEF TypeOK
    <3> QED
      BY <3>1, <3>2, KeepsSocket
  <2>2. CASE Return(t, "null")
    BY <1>2, <2>2, ReturnFrees DEF Send
  <2> QED
    BY <1>2, <2>1, <2>2 DEF Send
<1>3. ASSUME NEW t \in Threads, RecvCall(t)
      PROVE  OnSocketInUse'
  <2>1. /\ pc[t] = "recv" /\ pc' = [pc EXCEPT ![t] = "block"] /\ from' = [from EXCEPT ![t] = sock]
        /\ UNCHANGED <<connect, sock, via>>
    BY <1>3 DEF RecvCall
  <2>2. /\ pc'[t] = "block" /\ from'[t] = sock /\ Waiting(t)
        /\ \A u \in Threads : u # t => pc'[u] = pc[u] /\ from'[u] = from[u]
    BY <2>1 DEF TypeOK, Waiting
  <2> QED
    BY <2>1, <2>2, KeepsSocket
<1>4. ASSUME NEW t \in Threads, Receive(t)
      PROVE  OnSocketInUse'
  <2>1. /\ pc[t] = "block" /\ UNCHANGED <<connect, sock>>
        /\ \/ \E r : Return(t, r)
           \/ /\ pc' = [pc EXCEPT ![t] = "recv"] /\ from' = [from EXCEPT ![t] = 0]
              /\ UNCHANGED via
    BY <1>4 DEF Receive
  <2>2. CASE /\ pc' = [pc EXCEPT ![t] = "recv"] /\ from' = [from EXCEPT ![t] = 0]
             /\ UNCHANGED via
    <3>1. /\ pc'[t] = "recv" /\ Waiting(t)
          /\ \A u \in Threads : u # t => pc'[u] = pc[u] /\ from'[u] = from[u]
      BY <2>1, <2>2 DEF TypeOK, Waiting
    <3> QED
      BY <2>1, <2>2, <3>1, KeepsSocket
  <2> QED
    BY <2>1, <2>2, ReturnFrees
<1>5. ASSUME NEW t \in Threads, ReceiveEnd(t) \/ ReceiveRaises(t)
      PROVE  OnSocketInUse'
  BY <1>5, ReturnFrees DEF ReceiveEnd, ReceiveRaises
<1>6. ASSUME NEW t \in Threads, NewSocket(t)
      PROVE  OnSocketInUse'
  <2>1. /\ t \in Web /\ pc[t] = "idle" /\ connect' = 0
        /\ pc' = [pc EXCEPT ![t] = "dial"]
    BY <1>6 DEF NewSocket
  <2>2. \A u \in Threads : pc[u] # "greeted"
    BY <2>1 DEF OnSocketInUse, OneWorkerWeb
  <2>3. \A u \in Threads : pc'[u] # "greeted"
    BY <2>1, <2>2 DEF TypeOK
  <2> QED
    BY <2>1, <2>3 DEF OnSocketInUse
<1>7. ASSUME \/ \E c \in Conns : Serve(c) \/ NetReset(c)
             \/ DaemonDies \/ OrphanEnds \/ DaemonRestarts \/ UNCHANGED vars
      PROVE  OnSocketInUse'
  <2>1. UNCHANGED <<connect, sock, pc, via, from>>
    BY <1>7 DEF Serve, NetReset, DaemonDies, OrphanEnds, DaemonRestarts, vars, thread
  <2> QED
    BY <2>1 DEF OnSocketInUse, Waiting
<1> QED
  BY <1>1, <1>2, <1>3, <1>4, <1>5, <1>6, <1>7 DEF Next, Step

(* With one web worker, as the app of manage.py has it, a call that clears  *)
(* the connect flag has met the end of the connection in use: a healthy one *)
(* is never declared dead, however the sampler's calls and the reconnection *)
(* are interleaved.                                                         *)
THEOREM HealthyKept ==
  ASSUME OneWorkerWeb
  PROVE  SafeSpec => NoFalseDisconnect
<1>1. Init => OnSocketInUse
  BY DEF Init, OnSocketInUse, Waiting
<1>2. IInv /\ OnSocketInUse /\ [Next]_vars => OnSocketInUse'
  BY OnSocketStep
<1>3. IInv /\ OnSocketInUse /\ [Next]_vars =>
        (connect = 1 /\ connect' = 0 => st[sock] # "open")
  <2> SUFFICES ASSUME IInv, OnSocketInUse, [Next]_vars, connect = 1, connect' = 0
               PROVE  st[sock] # "open"
    OBVIOUS
  <2>1. \E t \in Threads : ReceiveEnd(t)
    BY DEF Next, Step, SendRequest, NewSocket, Acquire, Send, RecvCall, Receive, ReceiveRaises,
           Dial, Greeted, Serve, NetReset, DaemonDies, OrphanEnds, DaemonRestarts, vars
  <2>2. PICK t \in Threads : pc[t] = "block" /\ st[from[t]] \in {"fin", "broken"}
    BY <2>1 DEF ReceiveEnd
  <2>3. from[t] = sock
    BY <2>2 DEF OnSocketInUse, Waiting
  <2> QED
    BY <2>2, <2>3
<1>4. SafeSpec => []OnSocketInUse
  BY <1>1, <1>2, Invariance, PTL DEF SafeSpec
<1> QED
  BY <1>3, <1>4, Invariance, PTL DEF SafeSpec, NoFalseDisconnect

=============================================================================
