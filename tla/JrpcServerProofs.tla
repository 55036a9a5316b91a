-------------------------- MODULE JrpcServerProofs --------------------------
(* Theorems about the JSON-RPC server, for any number of clients, any       *)
(* requests and any size of the first buffer.                               *)
EXTENDS JrpcServer, SequenceTheorems, WellFoundedInduction, TLAPS

(* The first n bytes of what has come, and the rest.                        *)
LEMMA CutStream ==
  ASSUME NEW S, NEW s \in Seq(S), NEW n \in 0..Len(s)
  PROVE  /\ SubSeq(s, 1, n) \in Seq(S) /\ Len(SubSeq(s, 1, n)) = n
         /\ SubSeq(s, n + 1, Len(s)) \in Seq(S)
         /\ Len(SubSeq(s, n + 1, Len(s))) = Len(s) - n
         /\ SubSeq(s, 1, n) \o SubSeq(s, n + 1, Len(s)) = s
<1>1. Len(s) \in Nat /\ n \in Nat /\ n <= Len(s) /\ \A i \in 1..Len(s) : s[i] \in S
  OBVIOUS
<1>2. SubSeq(s, 1, n) \in Seq(S) /\ Len(SubSeq(s, 1, n)) = IF 1 <= n THEN n - 1 + 1 ELSE 0
  BY <1>1, SubSeqProperties
<1>3. /\ SubSeq(s, n + 1, Len(s)) \in Seq(S)
      /\ Len(SubSeq(s, n + 1, Len(s))) = IF n + 1 <= Len(s) THEN Len(s) - (n + 1) + 1 ELSE 0
  BY <1>1, SubSeqProperties
<1>4. SubSeq(s, 1, n) \o SubSeq(s, n + 1, Len(s)) = SubSeq(s, 1, Len(s))
  <2>1. 1 \in 1..Len(s) + 1 /\ n \in 1 - 1..Len(s) /\ Len(s) \in n..Len(s)
    BY <1>1
  <2> QED
    BY <2>1, ConcatAdjacentSubSeq
<1>5. SubSeq(s, 1, Len(s)) = s
  BY SubSeqFull
<1>6. Len(SubSeq(s, 1, n)) = n
  BY <1>1, <1>2
<1>7. Len(SubSeq(s, n + 1, Len(s))) = Len(s) - n
  <2>1. ASSUME NEW L \in Nat, n <= L
        PROVE  (IF n + 1 <= L THEN L - (n + 1) + 1 ELSE 0) = L - n
    BY <1>1, <2>1
  <2> QED
    BY <1>1, <1>3, <2>1, Zenon
<1>8. SubSeq(s, 1, n) \o SubSeq(s, n + 1, Len(s)) = s
  BY <1>4, <1>5
<1> QED
  BY <1>2, <1>3, <1>6, <1>7, <1>8, Zenon

(* A text that is whole ends inside what was parsed, and not at its start.  *)
LEMMA WholeEnds ==
  ASSUME NEW b, Parse(b).is = "whole"
  PROVE  Parse(b).end \in 2..Len(b)
BY DEF Parse

(* The buffer after a request never holds more than what came behind it.    *)
LEMMA ShiftedShorter ==
  ASSUME NEW b \in Seq(Bytes), NEW k \in 2..Len(b)
  PROVE  Shifted(b, k) \in Seq(Bytes) /\ Len(Shifted(b, k)) <= Len(b)
<1> DEFINE rest == Len(b) - k
           pos == IF rest + 2 <= k THEN rest ELSE IF rest > k THEN rest - k ELSE 0
<1>1. Len(b) \in Nat /\ k \in Nat /\ k <= Len(b) /\ \A i \in 1..Len(b) : b[i] \in Bytes
  OBVIOUS
<1>2. rest \in Nat /\ k + rest = Len(b)
  BY <1>1
<1>3. pos \in Nat /\ pos <= rest
  <2> HIDE DEF rest
  <2> QED
    BY <1>1, <1>2
<1>4. Shifted(b, k) = SubSeq(b, k + 1, k + pos)
  BY DEF Shifted
<1> HIDE DEF pos, rest
<1>5. k + 1 \in Int /\ k + pos \in Int /\ k + pos <= Len(b)
  BY <1>1, <1>2, <1>3
<1>6. \A i \in (k + 1)..(k + pos) : i \in 1..Len(b)
  BY <1>1, <1>5
<1>7. /\ SubSeq(b, k + 1, k + pos) \in Seq(Bytes)
      /\ Len(SubSeq(b, k + 1, k + pos))
           = IF k + 1 <= k + pos THEN (k + pos) - (k + 1) + 1 ELSE 0
  <2>1. \A i \in (k + 1)..(k + pos) : b[i] \in Bytes
    BY <1>1, <1>6
  <2> QED
    BY <2>1, <1>5, SubSeqProperties
<1>8. (IF k + 1 <= k + pos THEN (k + pos) - (k + 1) + 1 ELSE 0) = pos
  BY <1>1, <1>3
<1> QED
  BY <1>1, <1>2, <1>3, <1>4, <1>7, <1>8

(* No answer among these is a parse error.                                  *)
Clean(sent) == \A k \in DOMAIN sent : sent[k].what # "parse_error"

(* The answers to a request are at most one.                                *)
LEMMA AnswerType ==
  ASSUME NEW r, NEW n \in 1..MaxRequests
  PROVE  /\ AnswerTo(r, n) \in Seq(Answers) /\ Len(AnswerTo(r, n)) <= 1
         /\ Clean(AnswerTo(r, n))
<1>1. /\ [msg |-> n, what |-> "result"] \in Answers
      /\ [msg |-> n, what |-> "error"] \in Answers
  BY SizeAssumption DEF Answers
<1>2. \/ AnswerTo(r, n) = <<[msg |-> n, what |-> "result"]>>
      \/ AnswerTo(r, n) = <<[msg |-> n, what |-> "error"]>>
      \/ AnswerTo(r, n) = <<>>
  BY DEF AnswerTo
<1>3. ASSUME NEW a \in Answers, a.what # "parse_error"
      PROVE  <<a>> \in Seq(Answers) /\ Len(<<a>>) <= 1 /\ Clean(<<a>>)
  BY <1>3 DEF Clean
<1>4. <<>> \in Seq(Answers) /\ Len(<<>>) <= 1 /\ Clean(<<>>)
  BY DEF Clean
<1>5. /\ [msg |-> n, what |-> "result"].what # "parse_error"
      /\ [msg |-> n, what |-> "error"].what # "parse_error"
  OBVIOUS
<1> QED
  BY <1>1, <1>2, <1>3, <1>4, <1>5, Zenon

(* The bytes of a request.                                                  *)
LEMMA BytesType ==
  ASSUME NEW r \in Requests, NEW n \in 1..MaxRequests
  PROVE  /\ BytesOf(r, n) \in Seq(Bytes) /\ Len(BytesOf(r, n)) = Len(r.bytes)
         /\ \A k \in 1..Len(r.bytes) : BytesOf(r, n)[k].msg = n
<1>1. r.bytes \in Seq(ByteKinds) /\ Len(r.bytes) \in Nat
  BY RequestsAssumption
<1>2. \A k \in 1..Len(r.bytes) : [msg |-> n, kind |-> r.bytes[k]] \in Bytes
  BY <1>1 DEF Bytes
<1>3. /\ BytesOf(r, n) \in [1..Len(r.bytes) -> Bytes]
      /\ \A k \in 1..Len(r.bytes) : BytesOf(r, n)[k] = [msg |-> n, kind |-> r.bytes[k]]
  BY <1>1, <1>2 DEF BytesOf
<1>4. BytesOf(r, n) \in Seq(Bytes) /\ Len(BytesOf(r, n)) = Len(r.bytes)
  BY <1>1, <1>3
<1>5. \A k \in 1..Len(r.bytes) : [msg |-> n, kind |-> r.bytes[k]].msg = n
  OBVIOUS
<1>6. \A k \in 1..Len(r.bytes) : BytesOf(r, n)[k].msg = n
  BY <1>3, <1>5, Zenon
<1> QED
  BY <1>4, <1>6

(* There is always room to read a byte.                                     *)
LEMMA RoomGrows ==
  ASSUME TypeOK, NEW c \in Conns, Len(buffer[c]) <= size[c] - 1
  PROVE  /\ GrownSize(c) \in Nat /\ GrownSize(c) >= size[c]
         /\ Room(c) > 0 /\ Room(c) = GrownSize(c) - Len(buffer[c]) - 1
<1>1. size[c] \in Nat /\ Len(buffer[c]) \in Nat
  BY DEF TypeOK
<1> QED
  BY <1>1 DEF GrownSize, Room

(* The buffers keep their byte, whatever becomes of them, if they shrink,    *)
(* or if what was read is no more than the room there was.                  *)
LEMMA RoomKept ==
  ASSUME TypeOK', \A c \in Conns : Len(buffer'[c]) <= size'[c] - 1
  PROVE  RoomForNul'
<1> SUFFICES ASSUME NEW c \in Conns
             PROVE  (Len(buffer[c]) <= size[c] - 1 /\ Room(c) > 0)'
  BY DEF RoomForNul
<1>1. size'[c] \in Nat /\ Len(buffer'[c]) \in Nat /\ Len(buffer'[c]) <= size'[c] - 1
  BY DEF TypeOK
<1> QED
  BY <1>1 DEF GrownSize, Room

(* What a call of connection_cb does to a connection.                       *)
LEMMA ReadEffect ==
  ASSUME IInv, NEW c \in Conns, NEW n \in 1..Len(wire[c]), n <= Room(c), ReadBytes(c, n)
  PROVE  LET got == buffer[c] \o SubSeq(wire[c], 1, n) IN
         /\ got \in Seq(Bytes) /\ Len(got) = Len(buffer[c]) + n /\ Len(got) > 0
         /\ Len(got) <= GrownSize(c) - 1
         /\ wire' = [wire EXCEPT ![c] = SubSeq(wire[c], n + 1, Len(wire[c]))]
         /\ SubSeq(wire[c], n + 1, Len(wire[c])) \in Seq(Bytes)
         /\ got \o SubSeq(wire[c], n + 1, Len(wire[c])) = buffer[c] \o wire[c]
         /\ got[1].msg \in 1..MaxRequests
<1> DEFINE front == SubSeq(wire[c], 1, n)
           left == SubSeq(wire[c], n + 1, Len(wire[c]))
           got == buffer[c] \o front
<1>1. wire[c] \in Seq(Bytes) /\ buffer[c] \in Seq(Bytes) /\ Len(wire[c]) \in Nat
  BY DEF IInv, TypeOK
<1>2. n \in 0..Len(wire[c]) /\ n \in Nat /\ n > 0
  BY <1>1
<1>3. /\ front \in Seq(Bytes) /\ Len(front) = n
      /\ left \in Seq(Bytes) /\ front \o left = wire[c]
  BY <1>1, <1>2, CutStream
<1>4. wire' = [wire EXCEPT ![c] = left]
  BY DEF ReadBytes
<1> HIDE DEF front, left
<1>5. got \in Seq(Bytes) /\ Len(got) = Len(buffer[c]) + n
  BY <1>1, <1>3, ConcatProperties
<1>6. got \o left = buffer[c] \o wire[c]
  <2>1. \A a, b, d \in Seq(Bytes) : (a \o b) \o d = a \o (b \o d)
    BY ConcatAssociative
  <2>2. (buffer[c] \o front) \o left = buffer[c] \o (front \o left)
    BY <2>1, <1>1, <1>3, Zenon
  <2> QED
    BY <2>2, <1>3
<1>7. Len(got) > 0 /\ Len(got) <= GrownSize(c) - 1
  <2>1. GrownSize(c) \in Nat /\ Room(c) = GrownSize(c) - Len(buffer[c]) - 1
    BY RoomGrows DEF IInv, RoomForNul
  <2>2. Len(buffer[c]) \in Nat
    BY <1>1
  <2> QED
    BY <2>1, <2>2, <1>2, <1>5
<1>8. got[1].msg \in 1..MaxRequests
  <2>1. got[1] \in Bytes
    <3> HIDE DEF got
    <3> QED
      BY <1>5, <1>7
  <2> QED
    BY <2>1 DEF Bytes
<1> QED
  BY <1>3, <1>4, <1>5, <1>6, <1>7, <1>8 DEF front, left

-----------------------------------------------------------------------------
(* Types and room, whatever the clients send                                *)

LEMMA InitIInv == Init => IInv
<1> SUFFICES ASSUME Init PROVE IInv
  OBVIOUS
<1>1. \A S : <<>> \in Seq(S)
  OBVIOUS
<1>2. TypeOK
  <2>1. /\ asked \in [Conns -> Seq(Requests)] /\ wire \in [Conns -> Seq(Bytes)]
        /\ buffer \in [Conns -> Seq(Bytes)] /\ answers \in [Conns -> Seq(Answers)]
    BY <1>1 DEF Init
  <2>2. \A c \in Conns : Len(asked[c]) <= MaxRequests
    BY SizeAssumption DEF Init
  <2> QED
    BY <2>1, <2>2, SizeAssumption DEF Init, TypeOK
<1>3. RoomForNul
  BY SizeAssumption DEF Init, RoomForNul, Room, GrownSize
<1>4. InWork
  BY NamesAssumption DEF Init, InWork
<1> QED
  BY <1>2, <1>3, <1>4 DEF IInv

(* What leaves the buffers alone.                                           *)
LEMMA SameBuffers ==
  ASSUME IInv, TypeOK', UNCHANGED <<buffer, size, serving>>
  PROVE  IInv'
<1>1. RoomForNul'
  BY RoomKept DEF IInv, RoomForNul
<1>2. InWork'
  BY DEF IInv, InWork
<1> QED
  BY <1>1, <1>2 DEF IInv

LEMMA AskIInv ==
  ASSUME IInv, NEW c \in Conns, NEW r \in Requests, Ask(c, r)
  PROVE  IInv'
<1> DEFINE n == Len(asked[c]) + 1
<1>1. /\ asked' = [asked EXCEPT ![c] = Append(@, r)]
      /\ wire' = [wire EXCEPT ![c] = @ \o BytesOf(r, n)]
      /\ UNCHANGED <<eof, deaf, state, buffer, size, answers, pending, serving, broken, running>>
      /\ Len(asked[c]) < MaxRequests
  BY DEF Ask, conn, ev
<1>2. asked[c] \in Seq(Requests) /\ n \in 1..MaxRequests
  BY <1>1, SizeAssumption DEF IInv, TypeOK
<1> HIDE DEF n
<1>3. BytesOf(r, n) \in Seq(Bytes)
  BY <1>2, BytesType
<1>4. asked' \in [Conns -> Seq(Requests)]
  BY <1>1 DEF IInv, TypeOK
<1>5. wire' \in [Conns -> Seq(Bytes)]
  BY <1>1, <1>3 DEF IInv, TypeOK
<1>6. \A d \in Conns : Len(asked'[d]) <= MaxRequests
  <2>1. Len(asked'[c]) = Len(asked[c]) + 1 /\ Len(asked[c]) \in Nat
    BY <1>1, <1>2 DEF IInv, TypeOK
  <2>2. Len(asked'[c]) <= MaxRequests
    BY <2>1, <1>1, SizeAssumption
  <2> QED
    BY <2>2, <1>1 DEF IInv, TypeOK
<1>7. TypeOK'
  BY <1>1, <1>4, <1>5, <1>6 DEF IInv, TypeOK
<1> QED
  BY <1>1, <1>7, SameBuffers

(* A buffer that is no longer than one with room has room, whatever is in it. *)
LEMMA OneBuffer ==
  ASSUME IInv, TypeOK', NEW c \in Conns, NEW b \in Seq(Bytes), NEW z \in Nat, Len(b) <= z - 1,
         buffer' = [buffer EXCEPT ![c] = b], size' = [size EXCEPT ![c] = z],
         serving' = c => b # <<>>, serving' \in {c, Nobody, serving}
  PROVE  IInv'
<1>1. ASSUME NEW d \in Conns
      PROVE  Len(buffer'[d]) <= size'[d] - 1
  <2>1. CASE d = c
    BY <2>1 DEF IInv, TypeOK
  <2>2. CASE d # c
    BY <2>2 DEF IInv, TypeOK, RoomForNul
  <2> QED
    BY <2>1, <2>2
<1>2. InWork'
  BY NamesAssumption DEF IInv, TypeOK, InWork
<1> QED
  BY <1>1, <1>2, RoomKept DEF IInv

LEMMA ConnectionCbIInv ==
  ASSUME IInv, NEW c \in Conns, ConnectionCb(c)
  PROVE  IInv'
<1>1. /\ size' = [size EXCEPT ![c] = GrownSize(c)]
      /\ pending' \subseteq pending /\ UNCHANGED <<asked, eof, deaf, answers, broken, running>>
  BY DEF ConnectionCb
<1>2. /\ GrownSize(c) \in Nat /\ GrownSize(c) >= size[c] /\ size[c] \in Nat
      /\ size' \in [Conns -> Nat]
  <2>1. GrownSize(c) \in Nat /\ GrownSize(c) >= size[c]
    BY RoomGrows DEF IInv, RoomForNul
  <2> QED
    BY <1>1, <2>1 DEF IInv, TypeOK
<1>3. ASSUME NEW n \in 1..Len(wire[c]), n <= Room(c), ReadBytes(c, n), UNCHANGED state
      PROVE  IInv'
  <2> DEFINE got == buffer[c] \o SubSeq(wire[c], 1, n)
             left == SubSeq(wire[c], n + 1, Len(wire[c]))
  <2>1. /\ got \in Seq(Bytes) /\ Len(got) > 0 /\ Len(got) <= GrownSize(c) - 1
        /\ wire' = [wire EXCEPT ![c] = left] /\ left \in Seq(Bytes)
    BY <1>3, ReadEffect
  <2>2. buffer' = [buffer EXCEPT ![c] = got] /\ serving' \in {c, Nobody}
    BY <1>3 DEF ReadBytes
  <2> HIDE DEF got, left
  <2>3. TypeOK'
    BY <1>1, <1>2, <1>3, <2>1, <2>2 DEF IInv, TypeOK
  <2>4. got # <<>>
    BY <2>1
  <2> QED
    BY <1>1, <1>2, <2>1, <2>2, <2>3, <2>4, OneBuffer
<1>4. CASE /\ Close(c) /\ buffer' = [buffer EXCEPT ![c] = <<>>]
           /\ UNCHANGED <<wire, serving>>
  <2>1. <<>> \in Seq(Bytes) /\ Len(<<>>) = 0
    OBVIOUS
  <2>2. TypeOK'
    BY <1>1, <1>2, <1>4, <2>1 DEF IInv, TypeOK, Close
  <2>3. Len(<<>>) <= GrownSize(c) - 1
    BY <1>2, <2>1 DEF IInv, TypeOK, RoomForNul
  <2>4. serving' # c
    BY <1>4, NamesAssumption DEF ConnectionCb
  <2> QED
    BY <1>1, <1>2, <1>4, <2>1, <2>2, <2>3, <2>4, OneBuffer
<1> QED
  BY <1>3, <1>4 DEF ConnectionCb

(* What a reply is made of.                                                  *)
LEMMA ReplyType ==
  ASSUME IInv, NEW c \in Conns, serving = c
  PROVE  /\ Reply(c) \in Seq(Answers) /\ buffer[c][1].msg \in 1..MaxRequests
         /\ Len(buffer[c]) > 0
<1>1. buffer[c] \in Seq(Bytes) /\ buffer[c] # <<>>
  BY DEF IInv, TypeOK, InWork
<1>2. Len(buffer[c]) > 0 /\ buffer[c][1] \in Bytes
  <2> DEFINE b == buffer[c]
  <2> HIDE DEF b
  <2>1. b \in Seq(Bytes) /\ b # <<>>
    BY <1>1 DEF b
  <2>2. Len(b) > 0 /\ b[1] \in Bytes
    BY <2>1, EmptySeq, LenProperties
  <2> QED
    BY <2>2 DEF b
<1>3. buffer[c][1].msg \in 1..MaxRequests
  BY <1>2 DEF Bytes
<1>4. <<ParseError>> \in Seq(Answers)
  <2>1. ParseError \in Answers
    BY SizeAssumption DEF ParseError, Answers
  <2> HIDE DEF ParseError
  <2> QED
    BY <2>1
<1>5. Reply(c) \in {AnswerTo(asked[c][buffer[c][1].msg], buffer[c][1].msg), <<ParseError>>}
  BY DEF Reply
<1> QED
  BY <1>2, <1>3, <1>4, <1>5, AnswerType

LEMMA RespondIInv ==
  ASSUME IInv, NEW c \in Conns, Respond(c)
  PROVE  IInv'
<1>1. /\ serving = c /\ serving' = Nobody /\ UNCHANGED <<asked, wire, eof, deaf, size>>
      /\ pending' \subseteq pending /\ running' \in BOOLEAN
  BY DEF Respond, Processes, Killed, IInv, TypeOK
<1>2. buffer[c] \in Seq(Bytes) /\ Len(buffer[c]) <= size[c] - 1 /\ Len(buffer[c]) \in Nat
      /\ size[c] \in Nat
  BY DEF IInv, TypeOK, RoomForNul
<1>3. CASE Killed(c)
  <2>1. TypeOK' /\ UNCHANGED buffer
    BY <1>1, <1>3 DEF Killed, IInv, TypeOK
  <2>2. RoomForNul'
    BY <1>1, <2>1, RoomKept DEF IInv, RoomForNul
  <2>3. InWork'
    BY <1>1, NamesAssumption DEF InWork
  <2> QED
    BY <2>1, <2>2, <2>3 DEF IInv
<1>4. CASE Processes(c)
  <2>1. \E b \in Seq(Bytes) : buffer' = [buffer EXCEPT ![c] = b] /\ Len(b) <= Len(buffer[c])
    <3>1. CASE Parse(buffer[c]).is = "whole"
      <4>1. Parse(buffer[c]).end \in 2..Len(buffer[c])
        BY <3>1, WholeEnds
      <4>2. buffer' = [buffer EXCEPT ![c] = Shifted(buffer[c], Parse(buffer[c]).end)]
        BY <1>4, <3>1 DEF Processes
      <4> QED
        BY <4>1, <4>2, <1>2, ShiftedShorter
    <3>2. CASE Parse(buffer[c]).is # "whole"
      <4>1. buffer' = [buffer EXCEPT ![c] = <<>>]
        BY <1>4, <3>2 DEF Processes
      <4>2. <<>> \in Seq(Bytes) /\ Len(<<>>) <= Len(buffer[c])
        BY <1>2
      <4> QED
        BY <4>1, <4>2
    <3> QED
      BY <3>1, <3>2
  <2>2. PICK b \in Seq(Bytes) : buffer' = [buffer EXCEPT ![c] = b] /\ Len(b) <= Len(buffer[c])
    BY <2>1
  <2>3. answers' = [answers EXCEPT ![c] = @ \o Reply(c)] /\ Reply(c) \in Seq(Answers)
    BY <1>1, <1>4, ReplyType DEF Processes
  <2>4. answers' \in [Conns -> Seq(Answers)]
    <3>1. answers \in [Conns -> Seq(Answers)]
      BY DEF IInv, TypeOK
    <3> QED
      BY <2>3, <3>1
  <2>5. /\ broken' \in BOOLEAN
        /\ state' \in [Conns -> {"away", "backlog", "open", "closed"}]
    BY <1>4 DEF Processes, Close, IInv, TypeOK
  <2>6. TypeOK'
    BY <1>1, <2>2, <2>4, <2>5 DEF IInv, TypeOK
  <2>7. Len(b) <= size[c] - 1
    <3>1. Len(b) \in Nat
      OBVIOUS
    <3> QED
      BY <1>2, <2>2, <3>1
  <2>8. size' = [size EXCEPT ![c] = size[c]] /\ serving' # c
    BY <1>1, NamesAssumption DEF IInv, TypeOK
  <2> QED
    BY <1>1, <1>2, <2>2, <2>6, <2>7, <2>8, OneBuffer
<1> QED
  BY <1>3, <1>4 DEF Respond

LEMMA StepIInv ==
  ASSUME IInv, [Next]_vars
  PROVE  IInv'
<1>1. ASSUME NEW c \in Conns, Connect(c) \/ Hangup(c) \/ StopsReading(c)
      PROVE  IInv'
  <2>1. TypeOK' /\ UNCHANGED <<buffer, size, serving>>
    BY <1>1 DEF Connect, Hangup, StopsReading, IInv, TypeOK, client, conn, ev
  <2> QED
    BY <2>1, SameBuffers
<1>2. ASSUME Poll \/ LoopEnds \/ Accept \/ UNCHANGED vars
      PROVE  IInv'
  <2>1. /\ UNCHANGED <<asked, wire, eof, deaf, buffer, size, answers, serving>>
        /\ pending' \subseteq Conns \cup {Listener}
    BY <1>2 DEF Poll, LoopEnds, Accept, IInv, TypeOK, vars, client, conn, ev
  <2>2. /\ state' \in [Conns -> {"away", "backlog", "open", "closed"}]
        /\ broken' \in BOOLEAN /\ running' \in BOOLEAN
    BY <1>2 DEF Poll, LoopEnds, Accept, IInv, TypeOK, vars, client, conn, ev
  <2>3. TypeOK'
    BY <2>1, <2>2 DEF IInv, TypeOK
  <2> QED
    BY <2>1, <2>3, SameBuffers
<1> QED
  BY <1>1, <1>2, AskIInv, ConnectionCbIInv, RespondIInv DEF Next

(* Each variable keeps to its values, and the buffer of a connection always *)
(* has room for the terminating NUL and for one byte more.                  *)
THEOREM Invariance == SafeSpec => []IInv
<1>1. Init => IInv
  BY InitIInv
<1>2. IInv /\ [Next]_vars => IInv'
  BY StepIInv
<1> QED
  BY <1>1, <1>2, PTL DEF SafeSpec

THEOREM TypeCorrect == SafeSpec => []TypeOK
<1>1. IInv => TypeOK
  BY DEF IInv
<1> QED
  BY <1>1, Invariance, PTL

(* connection_cb never fills the buffer to its last byte, nor calls read    *)
(* with no room, which would be taken for the end of the connection.        *)
THEOREM BufferSuffices == SafeSpec => []RoomForNul
<1>1. IInv => RoomForNul
  BY DEF IInv
<1> QED
  BY <1>1, Invariance, PTL

-----------------------------------------------------------------------------
(* Sequences of sequences, flattened                                        *)

LEMMA LeastExists ==
  ASSUME NEW S \in SUBSET Nat, S # {}
  PROVE  \E x \in S : \A y \in S : x <= y
<1>1. \E x \in S : \A y \in S : ~(<<y, x>> \in OpToRel(<, Nat))
  BY NatLessThanWellFounded, WFMin
<1>2. PICK x \in S : \A y \in S : ~(<<y, x>> \in OpToRel(<, Nat))
  BY <1>1
<1>3. \A y \in S : ~(y < x)
  BY <1>2 DEF OpToRel
<1>4. \A y \in S : x <= y
  BY <1>3
<1> QED
  BY <1>4

(* h has the flattenings of the first one, two, ... n elements of s.        *)
Flattens(s, n, h) == h = [i \in 1..n |-> IF i = 1 THEN s[i] ELSE h[i - 1] \o s[i]]

(* There is such a function for every n: there is no least n without one.   *)
LEMMA FlattensExists ==
  ASSUME NEW s, NEW n \in Nat
  PROVE  \E h : Flattens(s, n, h)
<1> DEFINE T == {k \in 0..n : ~(\E h : Flattens(s, k, h))}
<1>1. SUFFICES ASSUME T # {} PROVE FALSE
  <2>1. n \in 0..n
    OBVIOUS
  <2> QED
    BY <2>1
<1>2. T \in SUBSET Nat
  OBVIOUS
<1>3. PICK k \in T : \A l \in T : k <= l
  BY <1>1, <1>2, LeastExists
<1>4. k # 0
  <2> DEFINE h == [i \in 1..0 |-> s]
  <2>1. Flattens(s, 0, h)
    BY DEF Flattens
  <2> HIDE DEF h
  <2> QED
    BY <2>1
<1>5. k \in Nat /\ k - 1 \in 0..n /\ k \in 1..n /\ ~(k <= k - 1)
  BY <1>4
<1>6. PICK g : Flattens(s, k - 1, g)
  <2>1. k - 1 \notin T
    <3> HIDE DEF T
    <3> QED
      BY <1>3, <1>5
  <2> QED
    BY <2>1, <1>5
<1> DEFINE h == [i \in 1..k |-> IF i < k THEN g[i]
                                ELSE IF k = 1 THEN s[1] ELSE g[k - 1] \o s[k]]
<1>7. ASSUME NEW i \in 1..k
      PROVE  h[i] = IF i = 1 THEN s[i] ELSE h[i - 1] \o s[i]
  <2>1. CASE i < k
    <3>1. i \in 1..(k - 1) /\ h[i] = g[i]
      BY <2>1, <1>5
    <3>2. g[i] = IF i = 1 THEN s[i] ELSE g[i - 1] \o s[i]
      BY <3>1, <1>6 DEF Flattens
    <3>3. i # 1 => h[i - 1] = g[i - 1]
      BY <3>1, <1>5
    <3> HIDE DEF h
    <3> QED
      BY <3>1, <3>2, <3>3
  <2>2. CASE i = k
    <3>1. h[i] = IF k = 1 THEN s[1] ELSE g[k - 1] \o s[k]
      BY <2>2, <1>5
    <3>2. k # 1 => h[k - 1] = g[k - 1]
      BY <1>5
    <3> HIDE DEF h
    <3> QED
      BY <2>2, <3>1, <3>2
  <2> QED
    BY <2>1, <2>2, <1>5
<1>8. Flattens(s, k, h)
  <2>1. h = [i \in 1..k |-> h[i]]
    OBVIOUS
  <2> HIDE DEF h
  <2> QED
    BY <2>1, <1>7 DEF Flattens
<1> HIDE DEF h
<1> QED
  BY <1>8

(* Two such functions agree.                                                *)
LEMMA FlattensUnique ==
  ASSUME NEW s, NEW t, NEW n \in Nat, NEW m \in Nat, n <= m,
         NEW g, NEW h, Flattens(s, n, g), Flattens(t, m, h),
         \A i \in 1..n : s[i] = t[i]
  PROVE  \A i \in 1..n : g[i] = h[i]
<1> DEFINE T == {i \in 1..n : g[i] # h[i]}
<1>1. SUFFICES ASSUME T # {} PROVE FALSE
  OBVIOUS
<1>2. T \in SUBSET Nat
  OBVIOUS
<1>3. PICK k \in T : \A l \in T : k <= l
  BY <1>1, <1>2, LeastExists
<1>4. k \in 1..n /\ k \in 1..m /\ g[k] # h[k]
  OBVIOUS
<1>5. /\ g[k] = IF k = 1 THEN s[k] ELSE g[k - 1] \o s[k]
      /\ h[k] = IF k = 1 THEN t[k] ELSE h[k - 1] \o t[k]
  BY <1>4 DEF Flattens
<1>6. k # 1 => k - 1 \in 1..n /\ ~(k <= k - 1)
  BY <1>4
<1>7. k # 1 => g[k - 1] = h[k - 1]
  BY <1>3, <1>6
<1> QED
  BY <1>4, <1>5, <1>7

(* What FlattenSeq computes.                                                *)
LEMMA FlattenIs ==
  ASSUME NEW s, NEW n \in Nat \ {0}, Len(s) = n
  PROVE  \E h : Flattens(s, n, h) /\ FlattenSeq(s) = h[n]
<1>1. \E h : h = [i \in 1..Len(s) |-> IF i = 1 THEN s[i] ELSE h[i - 1] \o s[i]]
  BY FlattensExists DEF Flattens
<1> DEFINE f == CHOOSE h : h = [i \in 1..Len(s) |-> IF i = 1 THEN s[i] ELSE h[i - 1] \o s[i]]
<1>2. f = [i \in 1..Len(s) |-> IF i = 1 THEN s[i] ELSE f[i - 1] \o s[i]]
  BY <1>1
<1>3. FlattenSeq(s) = f[Len(s)]
  BY DEF FlattenSeq
<1> HIDE DEF f
<1> QED
  BY <1>2, <1>3 DEF Flattens

LEMMA FlattenNone ==
  ASSUME NEW s, Len(s) = 0
  PROVE  FlattenSeq(s) = s
BY DEF FlattenSeq

LEMMA FlattenOne ==
  ASSUME NEW s, Len(s) = 1
  PROVE  FlattenSeq(s) = s[1]
<1>1. PICK h : Flattens(s, 1, h) /\ FlattenSeq(s) = h[1]
  <2>1. 1 \in Nat \ {0}
    OBVIOUS
  <2> QED
    BY <2>1, FlattenIs
<1>2. h[1] = s[1]
  BY <1>1 DEF Flattens
<1> QED
  BY <1>1, <1>2

(* With one element more.                                                   *)
LEMMA FlattenMore ==
  ASSUME NEW s, NEW t, NEW n \in Nat \ {0}, Len(s) = n, Len(t) = n + 1,
         \A i \in 1..n : s[i] = t[i]
  PROVE  FlattenSeq(t) = FlattenSeq(s) \o t[n + 1]
<1>1. PICK g : Flattens(s, n, g) /\ FlattenSeq(s) = g[n]
  BY FlattenIs
<1>2. PICK h : Flattens(t, n + 1, h) /\ FlattenSeq(t) = h[n + 1]
  BY FlattenIs
<1>3. g[n] = h[n]
  BY <1>1, <1>2, FlattensUnique
<1>4. h[n + 1] = h[n] \o t[n + 1]
  <2>1. n + 1 \in 1..(n + 1) /\ n + 1 # 1 /\ (n + 1) - 1 = n
    OBVIOUS
  <2>2. \A i \in 1..(n + 1) : i # 1 => h[i] = h[i - 1] \o t[i]
    BY <1>2 DEF Flattens
  <2>3. h[n + 1] = h[(n + 1) - 1] \o t[n + 1]
    BY <2>1, <2>2, Zenon
  <2> QED
    BY <2>1, <2>3
<1> QED
  BY <1>1, <1>2, <1>3, <1>4

-----------------------------------------------------------------------------
(* What is due                                                              *)

LEMMA DueNone == ASSUME NEW s PROVE Due(s, 0) = <<>>
<1>1. [n \in 1..0 |-> AnswerTo(s[n], n)] = <<>>
  OBVIOUS
<1>2. FlattenSeq(<<>>) = <<>>
  BY FlattenNone
<1> QED
  BY <1>1, <1>2 DEF Due

(* What is due for m requests is what is due for all but the last of them,  *)
(* and the answer to that one.                                              *)
LEMMA DueMore ==
  ASSUME NEW s, NEW m \in 1..MaxRequests
  PROVE  Due(s, m) = Due(s, m - 1) \o AnswerTo(s[m], m)
<1> DEFINE f(k) == [n \in 1..k |-> AnswerTo(s[n], n)]
<1>1. m \in Nat \ {0} /\ m - 1 \in Nat
  BY SizeAssumption
<1>2. \A k \in Nat : Len(f(k)) = k
  OBVIOUS
<1>3. CASE m = 1
  <2>1. Due(s, 1) = AnswerTo(s[1], 1)
    <3>1. f(1)[1] = AnswerTo(s[1], 1)
      OBVIOUS
    <3>2. FlattenSeq(f(1)) = f(1)[1]
      <4> HIDE DEF f
      <4> QED
        BY <1>2, FlattenOne
    <3> QED
      BY <3>1, <3>2 DEF Due
  <2>2. AnswerTo(s[m], m) \in Seq(Answers)
    BY AnswerType
  <2>3. <<>> \o AnswerTo(s[m], m) = AnswerTo(s[m], m)
    BY <2>2
  <2>4. Due(s, m - 1) = <<>>
    <3>1. m - 1 = 0
      BY <1>3
    <3> QED
      BY <3>1, DueNone
  <2>5. Due(s, m) = AnswerTo(s[m], m)
    BY <2>1, <1>3, Zenon
  <2> QED
    BY <2>3, <2>4, <2>5, Zenon
<1>4. CASE m # 1
  <2> DEFINE g == [n \in 1..(m - 1) |-> AnswerTo(s[n], n)]
             h == [n \in 1..m |-> AnswerTo(s[n], n)]
  <2>1. m - 1 \in Nat \ {0} /\ (m - 1) + 1 = m
    BY <1>1, <1>4
  <2>2. (\A i \in 1..(m - 1) : g[i] = h[i]) /\ h[m] = AnswerTo(s[m], m)
    BY <1>1
  <2>3. Len(g) = m - 1 /\ Len(h) = m
    BY <1>1
  <2>4. Due(s, m) = FlattenSeq(h) /\ Due(s, m - 1) = FlattenSeq(g)
    BY DEF Due
  <2> HIDE DEF g, h
  <2>5. FlattenSeq(h) = FlattenSeq(g) \o h[m]
    <3>1. \A k \in Nat \ {0} :
            /\ Len(g) = k /\ Len(h) = k + 1
            /\ \A i \in 1..k : g[i] = h[i]
            => FlattenSeq(h) = FlattenSeq(g) \o h[k + 1]
      BY FlattenMore
    <3>2. FlattenSeq(h) = FlattenSeq(g) \o h[(m - 1) + 1]
      BY <3>1, <2>1, <2>2, <2>3
    <3> QED
      BY <3>2, <2>1
  <2> QED
    BY <2>2, <2>4, <2>5
<1> QED
  BY <1>3, <1>4

LEMMA DueSame ==
  ASSUME NEW s, NEW t, NEW m, \A n \in 1..m : s[n] = t[n]
  PROVE  Due(s, m) = Due(t, m)
<1>1. [n \in 1..m |-> AnswerTo(s[n], n)] = [n \in 1..m |-> AnswerTo(t[n], n)]
  BY Zenon
<1> QED
  BY <1>1 DEF Due

LEMMA DueType ==
  ASSUME NEW s, NEW m \in 0..MaxRequests
  PROVE  Due(s, m) \in Seq(Answers) /\ Clean(Due(s, m))
<1> DEFINE Fine(k) == Due(s, k) \in Seq(Answers) /\ Clean(Due(s, k))
           T == {k \in 0..m : ~Fine(k)}
<1>1. SUFFICES ASSUME T # {} PROVE FALSE
  <2>1. m \in 0..m
    BY SizeAssumption
  <2> QED
    BY <2>1
<1>2. T \in SUBSET Nat
  OBVIOUS
<1>3. PICK k \in T : \A l \in T : k <= l
  BY <1>1, <1>2, LeastExists
<1>4. Fine(0)
  <2>1. <<>> \in Seq(Answers) /\ Clean(<<>>)
    BY DEF Clean
  <2> QED
    BY <2>1, DueNone
<1>5. /\ k \in 1..MaxRequests /\ k - 1 \in 0..m /\ ~(k <= k - 1)
      /\ ~Fine(k)
  BY <1>4, SizeAssumption
<1>6. Fine(k - 1)
  <2>1. k - 1 \notin T
    <3> HIDE DEF T
    <3> QED
      BY <1>3, <1>5
  <2> QED
    BY <2>1, <1>5
<1> DEFINE a == Due(s, k - 1)
           b == AnswerTo(s[k], k)
<1>7. Due(s, k) = a \o b
  BY <1>5, DueMore
<1>8. b \in Seq(Answers) /\ Clean(b)
  BY <1>5, AnswerType
<1>9. a \in Seq(Answers) /\ Clean(a)
  BY <1>6
<1> HIDE DEF a, b
<1>10. /\ a \o b \in Seq(Answers) /\ Len(a \o b) = Len(a) + Len(b)
       /\ \A i \in 1..Len(a) + Len(b) : (a \o b)[i] = IF i <= Len(a) THEN a[i] ELSE b[i - Len(a)]
  BY <1>8, <1>9, ConcatProperties
<1>11. ASSUME NEW i \in DOMAIN (a \o b)
       PROVE  (a \o b)[i].what # "parse_error"
  <2>1. Len(a) \in Nat /\ Len(b) \in Nat /\ i \in 1..Len(a) + Len(b)
    BY <1>8, <1>9, <1>10
  <2>2. CASE i <= Len(a)
    BY <2>1, <2>2, <1>9, <1>10 DEF Clean
  <2>3. CASE i > Len(a)
    <3>1. i - Len(a) \in 1..Len(b)
      BY <2>1, <2>3
    <3>2. (a \o b)[i] = b[i - Len(a)]
      BY <2>1, <2>3, <1>10
    <3> QED
      BY <3>1, <3>2, <1>8 DEF Clean
  <2> QED
    BY <2>1, <2>2, <2>3
<1>12. Fine(k)
  BY <1>7, <1>10, <1>11 DEF Clean
<1> QED
  BY <1>5, <1>12

-----------------------------------------------------------------------------
(* Serial clients                                                           *)

LEMMA InitSerial == Init => SerialIInv
<1> SUFFICES ASSUME Init PROVE SerialIInv
  OBVIOUS
<1>1. PendingOpen /\ Ended
  BY NamesAssumption DEF Init, PendingOpen, Ended
<1>2. InStep
  <2> SUFFICES ASSUME NEW c \in Conns PROVE Processed(c)
    BY DEF InStep
  <2>1. asked[c] = <<>> /\ buffer[c] = <<>> /\ wire[c] = <<>> /\ answers[c] = <<>>
    BY DEF Init
  <2>2. Len(<<>>) = 0 /\ Due(<<>>, 0) = <<>>
    BY DueNone
  <2> QED
    BY <2>1, <2>2 DEF Processed
<1> QED
  BY <1>1, <1>2, InitIInv DEF SerialIInv

(* What a connection has to process, and what was answered on it, depends   *)
(* on its own variables only.                                               *)
LEMMA SameConnection ==
  ASSUME NEW c \in Conns, UNCHANGED <<asked[c], buffer[c], wire[c], answers[c]>>
  PROVE  /\ InHand(c) => InHand(c)'
         /\ Processed(c) => Processed(c)'
<1>1. InHand(c) => InHand(c)'
  BY DEF InHand
<1>2. Processed(c) => Processed(c)'
  BY DEF Processed
<1> QED
  BY <1>1, <1>2

(* A step that reads and answers nothing, and closes no connection.         *)
LEMMA QuietSerial ==
  ASSUME SerialIInv, IInv', PendingOpen', UNCHANGED <<asked, buffer, wire, answers>>,
         \A c \in Conns : state'[c] = "closed" <=> state[c] = "closed"
  PROVE  SerialIInv'
<1>1. InStep'
  BY SameConnection DEF SerialIInv, InStep
<1>2. Ended'
  BY DEF SerialIInv, Ended
<1> QED
  BY <1>1, <1>2 DEF SerialIInv

(* A client that waits asks when everything has been processed.             *)
LEMMA AskSerial ==
  ASSUME SerialIInv, ~Pipelining, NEW c \in Conns, NEW r \in Requests, Ask(c, r)
  PROVE  SerialIInv'
<1> DEFINE n == Len(asked[c]) + 1
<1>1. /\ asked' = [asked EXCEPT ![c] = Append(@, r)]
      /\ wire' = [wire EXCEPT ![c] = @ \o BytesOf(r, n)]
      /\ UNCHANGED <<state, buffer, answers, pending, serving>>
      /\ Len(asked[c]) < MaxRequests /\ Len(answers[c]) = Len(asked[c])
      /\ state[c] # "closed"
  BY DEF Ask, conn, ev
<1>2. /\ IInv /\ IInv' /\ TypeOK
      /\ asked[c] \in Seq(Requests) /\ Len(asked[c]) \in Nat /\ n \in 1..MaxRequests
  <2>1. IInv /\ IInv' /\ TypeOK
    BY AskIInv DEF SerialIInv, IInv
  <2>2. asked[c] \in Seq(Requests)
    BY <2>1 DEF TypeOK
  <2>3. Len(asked[c]) \in Nat /\ n \in 1..MaxRequests
    BY <1>1, <2>2, SizeAssumption
  <2> QED
    BY <2>1, <2>2, <2>3
<1>3. Processed(c)
  <2>1. InHand(c) => Len(answers[c]) < Len(asked[c])
    BY DEF InHand
  <2>2. ~(Len(answers[c]) < Len(asked[c]))
    BY <1>1, <1>2
  <2> QED
    BY <2>1, <2>2, <1>1 DEF SerialIInv, InStep
<1>4. /\ asked'[c] = Append(asked[c], r) /\ wire'[c] = <<>> \o BytesOf(r, n)
      /\ \A d \in Conns : d # c => asked'[d] = asked[d] /\ wire'[d] = wire[d]
  BY <1>1, <1>2, <1>3 DEF TypeOK, Processed
<1>5. /\ Len(asked'[c]) = n /\ asked'[c][n] = r
      /\ \A i \in 1..Len(asked[c]) : asked'[c][i] = asked[c][i]
  BY <1>2, <1>4
<1>6. InHand(c)'
  <2>1. BytesOf(r, n) \in Seq(Bytes)
    <3> HIDE DEF n
    <3> QED
      BY <1>2, BytesType
  <2>2. buffer'[c] \o wire'[c] = BytesOf(r, n)
    <3>1. \A b \in Seq(Bytes) : <<>> \o (<<>> \o b) = b
      OBVIOUS
    <3> QED
      BY <1>1, <1>3, <1>4, <2>1, <3>1 DEF Processed
  <2>3. answers'[c] = Due(asked'[c], n - 1)
    <3>1. n - 1 = Len(asked[c])
      BY <1>2
    <3>2. Due(asked'[c], Len(asked[c])) = Due(asked[c], Len(asked[c]))
      BY <1>5, DueSame
    <3> QED
      BY <3>1, <3>2, <1>1, <1>3 DEF Processed
  <2>4. Len(answers'[c]) < n /\ n > 0
    BY <1>1, <1>2
  <2> HIDE DEF n
  <2> QED
    BY <1>5, <2>2, <2>3, <2>4 DEF InHand
<1>7. InStep'
  <2> SUFFICES ASSUME NEW d \in Conns, d # c, state[d] # "closed"
               PROVE  InHand(d)' \/ Processed(d)'
    BY <1>1, <1>6 DEF InStep
  <2> QED
    BY <1>1, <1>4, SameConnection DEF SerialIInv, InStep
<1>8. Ended'
  <2> SUFFICES ASSUME NEW d \in Conns, state'[d] = "closed"
               PROVE  asked'[d] = asked[d] /\ answers'[d] = answers[d] /\ state[d] = "closed"
    BY DEF SerialIInv, Ended
  <2> QED
    BY <1>1, <1>4
<1>9. PendingOpen'
  BY <1>1 DEF SerialIInv, PendingOpen
<1> QED
  BY <1>2, <1>7, <1>8, <1>9 DEF SerialIInv

(* A connection is closed while the last request has not been processed, or *)
(* everything has been, with or without a parse error.                      *)
LEMMA CloseSerial ==
  ASSUME SerialIInv, IInv', NEW c \in Conns, Close(c), state[c] = "open",
         pending' \subseteq pending, c \notin pending', serving' = Nobody, UNCHANGED asked,
         \A d \in Conns : d # c => UNCHANGED <<buffer[d], wire[d], answers[d]>>,
         answers'[c] \in {answers[c], Append(answers[c], ParseError)}
  PROVE  SerialIInv'
<1>1. /\ state'[c] = "closed" /\ \A d \in Conns : d # c => state'[d] = state[d]
  BY DEF Close, SerialIInv, IInv, TypeOK
<1>2. InStep'
  BY <1>1, SameConnection DEF SerialIInv, InStep
<1>3. Ended'
  <2>1. \E m \in 0..Len(asked[c]) : m + 1 >= Len(asked[c]) /\ answers[c] = Due(asked[c], m)
    <3>1. Len(asked[c]) \in Nat
      BY DEF SerialIInv, IInv, TypeOK
    <3>2. CASE InHand(c)
      <4>1. Len(asked[c]) - 1 \in 0..Len(asked[c]) /\ (Len(asked[c]) - 1) + 1 >= Len(asked[c])
        BY <3>1, <3>2 DEF InHand
      <4> QED
        BY <4>1, <3>2 DEF InHand
    <3>3. CASE Processed(c)
      BY <3>1, <3>3 DEF Processed
    <3> QED
      BY <3>2, <3>3 DEF SerialIInv, InStep
  <2>2. \E m \in 0..Len(asked[c]) :
          /\ m + 1 >= Len(asked[c])
          /\ answers'[c] \in {Due(asked[c], m), Append(Due(asked[c], m), ParseError)}
    BY <2>1
  <2>3. ASSUME NEW d \in Conns, d # c, state'[d] = "closed"
        PROVE  \E m \in 0..Len(asked[d]) :
                 /\ m + 1 >= Len(asked[d])
                 /\ answers'[d] \in {Due(asked[d], m), Append(Due(asked[d], m), ParseError)}
    BY <2>3, <1>1 DEF SerialIInv, Ended
  <2> QED
    BY <2>2, <2>3 DEF Ended
<1>4. PendingOpen'
  BY <1>1, NamesAssumption DEF SerialIInv, PendingOpen
<1> QED
  BY <1>2, <1>3, <1>4 DEF SerialIInv

(* The start of a sequence.                                                 *)
LEMMA StartOf ==
  ASSUME NEW S, NEW a \in Seq(S), NEW b \in Seq(S)
  PROVE  /\ a = SubSeq(a \o b, 1, Len(a)) /\ Len(a \o b) = Len(a) + Len(b)
         /\ \A i \in 1..Len(a) : (a \o b)[i] = a[i]
<1>1. /\ a \o b \in Seq(S) /\ Len(a \o b) = Len(a) + Len(b)
      /\ \A i \in 1..Len(a) : (a \o b)[i] = a[i]
  BY ConcatProperties
<1> DEFINE t == a \o b
<1>2. Len(a) \in Nat /\ Len(t) \in Nat /\ Len(a) <= Len(t)
  BY <1>1
<1>3. /\ t \in Seq(S) /\ Len(a) \in 0..Len(t) /\ \A i \in 1..Len(a) : t[i] = a[i]
  BY <1>1, <1>2
<1> HIDE DEF t
<1>4. SubSeq(t, 1, Len(a)) \in Seq(S) /\ Len(SubSeq(t, 1, Len(a))) = Len(a)
  BY <1>3, CutStream
<1>5. ASSUME NEW i \in 1..Len(a)
      PROVE  SubSeq(t, 1, Len(a))[i] = a[i]
  BY <1>2, <1>3, <1>4
<1>6. a = SubSeq(t, 1, Len(a))
  BY <1>4, <1>5, SeqEqual
<1> QED
  BY <1>1, <1>6 DEF t

(* A request that came to its end leaves nothing in the buffer.             *)
LEMMA ShiftedAll ==
  ASSUME NEW b \in Seq(Bytes), Len(b) \in 2..Len(b)
  PROVE  Shifted(b, Len(b)) = <<>>
<1>1. Len(b) \in Nat /\ Len(b) >= 2 /\ Len(b) - Len(b) = 0 /\ 0 + 2 <= Len(b)
  BY LenProperties
<1>2. Shifted(b, Len(b)) = SubSeq(b, Len(b) + 1, Len(b) + 0)
  BY <1>1 DEF Shifted
<1>3. SubSeq(b, Len(b) + 1, Len(b)) = <<>>
  BY <1>1, SubSeqEmpty
<1> QED
  BY <1>1, <1>2, <1>3

(* A call of connection_cb that reads takes the request in hand further: what *)
(* is to be processed stays the same.                                        *)
LEMMA ReadSerial ==
  ASSUME SerialIInv, IInv', NEW c \in Conns, c \in pending,
         NEW n \in 1..Len(wire[c]), n <= Room(c), ReadBytes(c, n),
         pending' = pending \ {c}, UNCHANGED <<asked, answers, state>>
  PROVE  SerialIInv'
<1> DEFINE got == buffer[c] \o SubSeq(wire[c], 1, n)
           left == SubSeq(wire[c], n + 1, Len(wire[c]))
<1>1. state[c] = "open"
  BY DEF SerialIInv, PendingOpen
<1>2. InHand(c)
  <2>1. wire[c] # <<>>
    OBVIOUS
  <2> QED
    BY <2>1, <1>1 DEF SerialIInv, InStep, Processed
<1>3. /\ got \o left = buffer[c] \o wire[c]
      /\ wire' = [wire EXCEPT ![c] = left]
  BY ReadEffect DEF SerialIInv
<1>4. buffer' = [buffer EXCEPT ![c] = got] /\ serving' \in {c, Nobody}
  BY DEF ReadBytes
<1> HIDE DEF got, left
<1>5. /\ buffer'[c] = got /\ wire'[c] = left
      /\ \A d \in Conns : d # c => UNCHANGED <<buffer[d], wire[d]>>
  BY <1>3, <1>4 DEF SerialIInv, IInv, TypeOK
<1>6. InHand(c)'
  BY <1>2, <1>3, <1>5 DEF InHand
<1>7. InStep'
  BY <1>5, <1>6, SameConnection DEF SerialIInv, InStep
<1>8. PendingOpen'
  BY <1>1, <1>4, NamesAssumption DEF SerialIInv, PendingOpen
<1>9. Ended'
  BY DEF SerialIInv, Ended
<1> QED
  BY <1>7, <1>8, <1>9 DEF SerialIInv

LEMMA ConnectionCbSerial ==
  ASSUME SerialIInv, NEW c \in Conns, ConnectionCb(c)
  PROVE  SerialIInv'
<1>1. IInv'
  BY ConnectionCbIInv DEF SerialIInv
<1>2. c \in pending /\ pending' = pending \ {c} /\ UNCHANGED <<asked, answers>>
      /\ serving = Nobody
  BY DEF ConnectionCb
<1>3. ASSUME NEW n \in 1..Len(wire[c]), n <= Room(c), ReadBytes(c, n), UNCHANGED state
      PROVE  SerialIInv'
  BY <1>1, <1>2, <1>3, ReadSerial
<1>4. CASE /\ Close(c) /\ buffer' = [buffer EXCEPT ![c] = <<>>]
           /\ UNCHANGED <<wire, serving>>
  <2>1. \A d \in Conns : d # c => UNCHANGED <<buffer[d], wire[d], answers[d]>>
    BY <1>2, <1>4 DEF SerialIInv, IInv, TypeOK
  <2>2. state[c] = "open"
    BY <1>2 DEF SerialIInv, PendingOpen
  <2>3. /\ pending' \subseteq pending /\ c \notin pending' /\ serving' = Nobody
        /\ answers'[c] = answers[c]
    BY <1>2, <1>4
  <2> QED
    BY <1>1, <1>2, <1>4, <2>1, <2>2, <2>3, CloseSerial
<1> QED
  BY <1>3, <1>4 DEF ConnectionCb

(* The request in work is the one in hand: it is answered, or the connection  *)
(* is closed with a parse error, or the daemon ends.                          *)
LEMMA RespondSerial ==
  ASSUME SerialClients, SerialIInv, NEW c \in Conns, Respond(c)
  PROVE  SerialIInv'
<1> DEFINE got == buffer[c]
           left == wire[c]
           last == Len(asked[c])
           r == asked[c][last]
           parsed == Parse(got)
<1>1. /\ IInv' /\ serving = c /\ serving' = Nobody
      /\ UNCHANGED <<asked, wire>>
  BY RespondIInv DEF SerialIInv, Respond
<1>2. state[c] = "open" /\ c \notin pending
  BY <1>1 DEF SerialIInv, PendingOpen
<1>3. CASE Killed(c)
  <2>1. UNCHANGED <<asked, buffer, wire, answers, state>> /\ pending' = {}
    BY <1>1, <1>3 DEF Killed
  <2>2. PendingOpen'
    BY <1>1, <2>1, NamesAssumption DEF PendingOpen
  <2> QED
    BY <1>1, <2>1, <2>2, QuietSerial
<1>4. /\ InHand(c)
      /\ got \in Seq(Bytes) /\ Len(got) > 0 /\ left \in Seq(Bytes)
  <2>1. buffer[c] # <<>>
    BY <1>1 DEF SerialIInv, IInv, InWork
  <2>2. InHand(c)
    BY <2>1, <1>2 DEF SerialIInv, InStep, Processed
  <2> QED
    BY <2>2, <1>1, ReplyType DEF SerialIInv, IInv, TypeOK
<1>5. /\ got \o left = BytesOf(r, last)
      /\ Len(answers[c]) < last /\ answers[c] = Due(asked[c], last - 1)
  BY <1>4 DEF InHand
<1>6. /\ last \in 1..MaxRequests /\ r \in Requests /\ Len(r.bytes) \in Nat
  <2>1. /\ asked[c] \in Seq(Requests) /\ Len(asked[c]) \in Nat
        /\ Len(asked[c]) <= MaxRequests /\ Len(asked[c]) > 0
    BY <1>4 DEF InHand, SerialIInv, IInv, TypeOK
  <2> QED
    BY <2>1, RequestsAssumption, SizeAssumption
<1>7. ASSUME Processes(c)
      PROVE  /\ UNCHANGED pending /\ answers'[c] = answers[c] \o Reply(c)
             /\ \A d \in Conns : d # c => UNCHANGED <<buffer[d], wire[d], answers[d]>>
  <2>1. \E b : buffer' = [buffer EXCEPT ![c] = b]
    BY <1>7 DEF Processes
  <2>2. answers' = [answers EXCEPT ![c] = @ \o Reply(c)] /\ UNCHANGED pending
    BY <1>7 DEF Processes
  <2> QED
    BY <1>1, <2>1, <2>2 DEF SerialIInv, IInv, TypeOK
<1>8. CASE Processes(c) /\ parsed.is # "whole"
  <2>1. Close(c) /\ Reply(c) = <<ParseError>>
    BY <1>8 DEF Processes, Reply
  <2>2. answers'[c] = Append(answers[c], ParseError)
    <3>1. answers[c] \in Seq(Answers) /\ ParseError \in Answers
      <4>1. ParseError \in Answers
        BY SizeAssumption DEF ParseError, Answers
      <4>2. answers[c] \in Seq(Answers)
        BY DEF SerialIInv, IInv, TypeOK
      <4> QED
        BY <4>1, <4>2
    <3>2. \A s \in Seq(Answers), a \in Answers : s \o <<a>> = Append(s, a)
      OBVIOUS
    <3> QED
      BY <1>7, <1>8, <2>1, <3>1, <3>2, Zenon
  <2> QED
    BY <1>1, <1>2, <1>7, <1>8, <2>1, <2>2, CloseSerial
<1>9. CASE Processes(c) /\ parsed.is = "whole"
  <2>1. /\ got = SubSeq(BytesOf(r, last), 1, Len(got))
        /\ Len(BytesOf(r, last)) = Len(got) + Len(left)
        /\ \A i \in 1..Len(got) : BytesOf(r, last)[i] = got[i]
    <3> HIDE DEF got, left, r, last
    <3>1. /\ got = SubSeq(got \o left, 1, Len(got)) /\ Len(got \o left) = Len(got) + Len(left)
          /\ \A i \in 1..Len(got) : (got \o left)[i] = got[i]
      BY <1>4, StartOf
    <3>2. got \o left = BytesOf(r, last)
      BY <1>5, Zenon
    <3> QED
      BY <3>1, <3>2, Zenon
  <2>2. /\ BytesOf(r, last) \in Seq(Bytes) /\ Len(BytesOf(r, last)) = Len(r.bytes)
        /\ \A k \in 1..Len(r.bytes) : BytesOf(r, last)[k].msg = last
    <3> HIDE DEF r, last
    <3> QED
      BY <1>6, BytesType
  <2>3. /\ Len(got) \in Nat /\ Len(left) \in Nat /\ Len(got) \in 1..Len(r.bytes)
        /\ Len(r.bytes) = Len(got) + Len(left) /\ 1 \in 1..Len(got)
    <3> HIDE DEF got, left, r, last
    <3>1. Len(got) \in Nat /\ Len(left) \in Nat
      BY <1>4, LenProperties
    <3>2. Len(r.bytes) = Len(got) + Len(left)
      BY <2>1, <2>2, Zenon
    <3> QED
      BY <3>1, <3>2, <1>4, <1>6
  <2>4. got[1].msg = last
    <3> HIDE DEF got, left, r, last
    <3> QED
      BY <2>1, <2>2, <2>3
  <2>5. parsed.end = Len(r.bytes) /\ parsed.end \in 2..Len(got)
    <3> HIDE DEF got, left, r, last
    <3>1. OneText(r)
      BY <1>6 DEF SerialClients
    <3>2. LET p == Parse(SubSeq(BytesOf(r, last), 1, Len(got)))
          IN  p.is = "whole" => p.end = Len(r.bytes)
      BY <3>1, <1>6, <2>3 DEF OneText
    <3> QED
      BY <3>2, <2>1, <1>9, WholeEnds
  <2>6. parsed.end = Len(got) /\ left = <<>>
    <3> HIDE DEF got, left, r, last, parsed
    <3>1. parsed.end = Len(got) /\ Len(left) = 0
      BY <2>3, <2>5
    <3> QED
      BY <3>1, <1>4, EmptySeq
  <2>7. /\ buffer' = [buffer EXCEPT ![c] = Shifted(got, parsed.end)] /\ UNCHANGED state
        /\ Reply(c) = AnswerTo(asked[c][got[1].msg], got[1].msg)
    BY <1>9 DEF Processes, Reply
  <2>8. /\ buffer'[c] = <<>> /\ wire'[c] = <<>>
        /\ answers'[c] = answers[c] \o AnswerTo(r, last)
    <3> HIDE DEF got, left, parsed
    <3>1. Shifted(got, Len(got)) = <<>>
      BY <1>4, <2>5, <2>6, ShiftedAll
    <3>2. buffer'[c] = <<>>
      BY <3>1, <2>6, <2>7 DEF SerialIInv, IInv, TypeOK
    <3>3. wire'[c] = <<>>
      BY <1>1, <2>6 DEF left
    <3> QED
      BY <3>2, <3>3, <1>7, <1>9, <2>4, <2>7
  <2>9. answers'[c] = Due(asked[c], last)
    <3> HIDE DEF last
    <3> QED
      BY <2>8, <1>5, <1>6, DueMore
  <2>10. Len(answers'[c]) <= last
    <3> HIDE DEF r, last
    <3>1. AnswerTo(r, last) \in Seq(Answers) /\ Len(AnswerTo(r, last)) <= 1
      BY <1>6, AnswerType
    <3>2. answers[c] \in Seq(Answers)
      BY DEF SerialIInv, IInv, TypeOK
    <3>3. Len(answers[c] \o AnswerTo(r, last)) = Len(answers[c]) + Len(AnswerTo(r, last))
      BY <3>1, <3>2
    <3> QED
      BY <3>1, <3>2, <3>3, <2>8, <1>5, <1>6
  <2>11. Processed(c)'
    BY <1>1, <2>8, <2>9, <2>10 DEF Processed
  <2>12. InStep'
    BY <1>1, <1>7, <1>9, <2>7, <2>11, SameConnection DEF SerialIInv, InStep
  <2>13. PendingOpen'
    BY <1>1, <1>7, <1>9, <2>7, NamesAssumption DEF SerialIInv, PendingOpen
  <2>14. Ended'
    <3> SUFFICES ASSUME NEW d \in Conns, state'[d] = "closed"
                 PROVE  asked'[d] = asked[d] /\ answers'[d] = answers[d] /\ state[d] = "closed"
      BY DEF SerialIInv, Ended
    <3> QED
      BY <1>1, <1>2, <1>7, <1>9, <2>7
  <2> QED
    BY <1>1, <2>12, <2>13, <2>14 DEF SerialIInv
<1> QED
  BY <1>3, <1>8, <1>9 DEF Respond

LEMMA StepSerial ==
  ASSUME SerialClients, SerialIInv, [Next]_vars
  PROVE  SerialIInv'
<1>1. IInv'
  BY StepIInv DEF SerialIInv
<1>2. ASSUME NEW c \in Conns, Connect(c) \/ Hangup(c) \/ StopsReading(c)
      PROVE  SerialIInv'
  <2>1. UNCHANGED <<asked, buffer, wire, answers, pending, serving>>
    BY <1>2 DEF Connect, Hangup, StopsReading, conn, client, ev
  <2>2. /\ \A d \in Conns : state'[d] = "closed" <=> state[d] = "closed"
        /\ \A d \in Conns : state[d] = "open" => state'[d] = "open"
    BY <1>2 DEF Connect, Hangup, StopsReading, conn, SerialIInv, IInv, TypeOK
  <2>3. PendingOpen'
    BY <2>1, <2>2 DEF SerialIInv, PendingOpen
  <2> QED
    BY <1>1, <2>1, <2>2, <2>3, QuietSerial
<1>3. CASE Poll
  <2>1. UNCHANGED <<asked, buffer, wire, answers, state, serving>> /\ serving = Nobody
    BY <1>3 DEF Poll, conn, client
  <2>2. PendingOpen'
    <3> SUFFICES ASSUME NEW c \in Conns, c \in pending' PROVE state[c] = "open"
      BY <2>1, NamesAssumption DEF PendingOpen
    <3>1. c # Listener /\ Ready(c)
      BY <1>3, NamesAssumption DEF Poll
    <3> QED
      BY <3>1 DEF Ready
  <2> QED
    BY <1>1, <2>1, <2>2, QuietSerial
<1>4. CASE Accept
  <2>1. UNCHANGED <<asked, buffer, wire, answers, serving>> /\ pending' \subseteq pending
    BY <1>4 DEF Accept, client
  <2>2. /\ \A d \in Conns : state'[d] = "closed" <=> state[d] = "closed"
        /\ \A d \in Conns : state[d] = "open" => state'[d] = "open"
    BY <1>4 DEF Accept, SerialIInv, IInv, TypeOK
  <2>3. PendingOpen'
    BY <2>1, <2>2 DEF SerialIInv, PendingOpen
  <2> QED
    BY <1>1, <2>1, <2>2, <2>3, QuietSerial
<1>5. CASE LoopEnds \/ UNCHANGED vars
  <2>1. UNCHANGED <<asked, buffer, wire, answers, state, pending, serving>>
    BY <1>5 DEF LoopEnds, vars, conn, client, ev
  <2>2. PendingOpen'
    BY <2>1 DEF SerialIInv, PendingOpen
  <2> QED
    BY <1>1, <2>1, <2>2, QuietSerial
<1>6. ASSUME NEW c \in Conns, NEW r \in Requests, Ask(c, r)
      PROVE  SerialIInv'
  BY <1>6, AskSerial DEF SerialClients
<1> QED
  BY <1>2, <1>3, <1>4, <1>5, <1>6, ConnectionCbSerial, RespondSerial DEF Next

(* With clients that wait for an answer before they ask again, every        *)
(* connection is in step with its client until it is closed.                *)
THEOREM SerialInvariance ==
  ASSUME SerialClients
  PROVE  SafeSpec => []SerialIInv
<1>1. Init => SerialIInv
  BY InitSerial
<1>2. SerialIInv /\ [Next]_vars => SerialIInv'
  BY StepSerial
<1> QED
  BY <1>1, <1>2, PTL DEF SafeSpec

(* What a client that waits for answers has sent and the daemon has not     *)
(* processed is still there, to the byte: in the buffer, or on its way.     *)
THEOREM StreamKept ==
  ASSUME SerialClients
  PROVE  SafeSpec => []NothingLost
<1>1. SerialIInv => NothingLost
  <2> SUFFICES ASSUME SerialIInv, NEW c \in Conns, state[c] = "open"
               PROVE  \E n \in 1..(Len(asked[c]) + 1) :
                        buffer[c] \o wire[c] = StreamFrom(c, n)
    BY DEF NothingLost
  <2> DEFINE last == Len(asked[c])
             from(n) == [k \in 1..(last + 1 - n) |-> BytesOf(asked[c][n + k - 1], n + k - 1)]
  <2>1. last \in Nat
    BY DEF SerialIInv, IInv, TypeOK
  <2>2. InHand(c) \/ Processed(c)
    BY DEF SerialIInv, InStep
  <2>3. CASE InHand(c)
    <3>1. last \in 1..(last + 1) /\ last + 1 - last = 1
      BY <2>1, <2>3 DEF InHand
    <3>2. Len(from(last)) = 1 /\ from(last)[1] = BytesOf(asked[c][last], last)
      BY <2>1, <3>1
    <3>3. StreamFrom(c, last) = FlattenSeq(from(last))
      BY DEF StreamFrom
    <3> HIDE DEF from
    <3>4. FlattenSeq(from(last)) = from(last)[1]
      BY <3>2, FlattenOne
    <3>5. buffer[c] \o wire[c] = StreamFrom(c, last)
      BY <3>2, <3>3, <3>4, <2>3 DEF InHand
    <3> QED
      BY <3>1, <3>5
  <2>4. CASE Processed(c)
    <3>1. last + 1 \in 1..(last + 1) /\ last + 1 - (last + 1) = 0
      BY <2>1
    <3>2. from(last + 1) = <<>>
      BY <3>1
    <3>3. StreamFrom(c, last + 1) = FlattenSeq(from(last + 1))
      BY DEF StreamFrom
    <3>4. FlattenSeq(<<>>) = <<>> /\ <<>> \o <<>> = <<>>
      BY FlattenNone
    <3> HIDE DEF from
    <3>5. buffer[c] \o wire[c] = StreamFrom(c, last + 1)
      BY <3>2, <3>3, <3>4, <2>4 DEF Processed
    <3> QED
      BY <3>1, <3>5
  <2> QED
    BY <2>2, <2>3, <2>4
<1> QED
  BY <1>1, SerialInvariance, PTL

(* All that is due, or all but the last answer, is a prefix of what is due. *)
LEMMA DuePrefix ==
  ASSUME NEW c \in Conns, TypeOK, NEW m \in 0..Len(asked[c]), m + 1 >= Len(asked[c])
  PROVE  /\ IsPrefix(Due(asked[c], m), Due(asked[c], Len(asked[c])))
         /\ Due(asked[c], m) \in Seq(Answers) /\ Clean(Due(asked[c], m))
<1> DEFINE last == Len(asked[c])
           a == Due(asked[c], m)
<1>1. last \in Nat /\ last <= MaxRequests /\ m \in 0..MaxRequests
  BY SizeAssumption DEF TypeOK
<1>2. a \in Seq(Answers) /\ Clean(a)
  BY <1>1, DueType
<1>3. CASE m = last
  <2> HIDE DEF last
  <2>1. a = Due(asked[c], last)
    BY <1>3
  <2> HIDE DEF a
  <2>2. Len(a) <= Len(a)
    BY <1>2, LenProperties
  <2>3. IsPrefix(a, a)
    BY <2>2 DEF IsPrefix
  <2> QED
    BY <1>2, <2>1, <2>3 DEF a, last
<1>4. CASE m # last
  <2>1. last \in 1..MaxRequests /\ m = last - 1
    BY <1>1, <1>4
  <2> DEFINE b == AnswerTo(asked[c][last], last)
  <2> HIDE DEF last
  <2>2. b \in Seq(Answers)
    BY <2>1, AnswerType
  <2>3. Due(asked[c], last) = a \o b
    BY <2>1, DueMore
  <2> HIDE DEF a, b
  <2>4. a = SubSeq(a \o b, 1, Len(a)) /\ Len(a \o b) = Len(a) + Len(b)
    BY <1>2, <2>2, StartOf
  <2>5. SubSeq(a, 1, Len(a)) = a
    BY <1>2, SubSeqFull
  <2>6. Len(a) <= Len(a \o b)
    <3>1. Len(a) \in Nat /\ Len(b) \in Nat
      BY <1>2, <2>2, LenProperties
    <3> QED
      BY <3>1, <2>4
  <2>7. IsPrefix(a, a \o b)
    BY <2>4, <2>5, <2>6 DEF IsPrefix
  <2> QED
    BY <1>2, <2>3, <2>7 DEF a, last
<1> QED
  BY <1>3, <1>4

(* A client that waits for answers gets them in order, each once, and a     *)
(* parse error only as the last thing.                                      *)
THEOREM AnswersOrdered ==
  ASSUME SerialClients
  PROVE  SafeSpec => []AnswersInOrder
<1>1. SerialIInv => AnswersInOrder
  <2> SUFFICES ASSUME SerialIInv, NEW c \in Conns
               PROVE  LET due == Due(asked[c], Len(asked[c]))
                          sent == answers[c]
                      IN  IsPrefix(IF sent # <<>> /\ sent[Len(sent)].what = "parse_error"
                                   THEN SubSeq(sent, 1, Len(sent) - 1) ELSE sent, due)
    BY DEF AnswersInOrder
  <2>1. TypeOK /\ Len(asked[c]) \in Nat
    BY DEF SerialIInv, IInv, TypeOK
  <2>2. PICK m \in 0..Len(asked[c]) :
          /\ m + 1 >= Len(asked[c])
          /\ answers[c] \in {Due(asked[c], m), Append(Due(asked[c], m), ParseError)}
    <3>1. CASE InHand(c)
      <4>1. Len(asked[c]) - 1 \in 0..Len(asked[c]) /\ (Len(asked[c]) - 1) + 1 >= Len(asked[c])
        BY <2>1, <3>1 DEF InHand
      <4> QED
        BY <4>1, <3>1 DEF InHand
    <3>2. CASE Processed(c)
      BY <2>1, <3>2 DEF Processed
    <3>3. CASE state[c] = "closed"
      BY <3>3 DEF SerialIInv, Ended
    <3> QED
      BY <3>1, <3>2, <3>3 DEF SerialIInv, InStep
  <2> DEFINE a == Due(asked[c], m)
  <2>3. /\ IsPrefix(a, Due(asked[c], Len(asked[c])))
        /\ a \in Seq(Answers) /\ Clean(a)
    BY <2>1, <2>2, DuePrefix
  <2>4. answers[c] \in {a, Append(a, ParseError)}
    BY <2>2
  <2> HIDE DEF a
  <2>5. CASE answers[c] = a
    <3>1. a # <<>> => a[Len(a)].what # "parse_error"
      <4> SUFFICES ASSUME a # <<>> PROVE a[Len(a)].what # "parse_error"
        OBVIOUS
      <4>1. Len(a) \in DOMAIN a
        BY <2>3, EmptySeq, LenProperties
      <4> QED
        BY <4>1, <2>3 DEF Clean
    <3> QED
      BY <2>3, <2>5, <3>1
  <2>6. CASE answers[c] = Append(a, ParseError)
    <3> DEFINE b == Append(a, ParseError)
    <3>1. ParseError \in Answers /\ ParseError.what = "parse_error"
      BY SizeAssumption DEF ParseError, Answers
    <3>2. /\ b \in Seq(Answers) /\ Len(b) = Len(a) + 1 /\ b[Len(a) + 1] = ParseError
          /\ \A i \in 1..Len(a) : b[i] = a[i]
      BY <2>3, <3>1, AppendProperties
    <3>3. Len(a) \in Nat /\ Len(b) - 1 = Len(a) /\ Len(a) \in 0..Len(b)
      BY <2>3, <3>2, LenProperties
    <3> HIDE DEF b
    <3>4. b # <<>> /\ b[Len(b)].what = "parse_error"
      <4>1. b[Len(b)] = ParseError
        BY <3>2
      <4>2. b # <<>>
        BY <3>2, <3>3
      <4> QED
        BY <4>1, <4>2, <3>1, Zenon
    <3>5. SubSeq(b, 1, Len(b) - 1) = a
      <4>1. SubSeq(b, 1, Len(a)) \in Seq(Answers) /\ Len(SubSeq(b, 1, Len(a))) = Len(a)
        BY <3>2, <3>3, CutStream
      <4>2. ASSUME NEW i \in 1..Len(a)
            PROVE  SubSeq(b, 1, Len(a))[i] = a[i]
        <5>1. SubSeq(b, 1, Len(a))[i] = b[i]
          BY <3>3, <4>1
        <5> QED
          BY <5>1, <3>2
      <4>3. SubSeq(b, 1, Len(a)) = a
        BY <4>1, <4>2, <2>3, SeqEqual
      <4> QED
        BY <4>3, <3>3
    <3> QED
      BY <2>3, <2>6, <3>4, <3>5 DEF b
  <2> QED
    BY <2>4, <2>5, <2>6
<1> QED
  BY <1>1, SerialInvariance, PTL

=============================================================================
