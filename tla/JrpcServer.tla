----------------------------- MODULE JrpcServer -----------------------------
(***************************************************************************)
(* The JSON-RPC server of ztracerd (ztracerd/jsonrpc-c.c with the stream   *)
(* parser of cJSON.c): the libev loop, the listening socket, and for each  *)
(* connection the receive buffer in which a byte stream is cut into        *)
(* requests that are answered one by one.                                  *)
(*                                                                         *)
(* A request is a sequence of bytes of five kinds: it opens, it closes,    *)
(* and between the two it has plain bytes and escape pairs ("esc" and the  *)
(* byte it quotes), as a JSON object holding one string has.  A byte of    *)
(* the stream knows the request it belongs to, which the parser never      *)
(* looks at and the properties need.                                       *)
(***************************************************************************)
EXTENDS Naturals, Sequences, SequencesExt

CONSTANTS
  Conns,        \* the clients, with one connection each
  Requests,     \* what clients may send: records [bytes, is], see Requests below
  MaxRequests,  \* bound: requests a client sends
  InitSize,     \* buffer_size of a new connection (1500 in the code)
  Pipelining    \* TRUE: a client may send before it has its last answer

ByteKinds == {"open", "plain", "esc", "quoted", "close"}

\* What invoke_procedure makes of a request: a procedure that answers, one that
\* may never come back (acmdwait, a command without end, a file whose reading
\* fails), "exit", a name that is not registered, an object without a method, or
\* a JSON text that is no object, for which nothing is sent.
Meanings == {"call", "endless", "exit", "unknown", "invalid", "nonobject"}

ASSUME SizeAssumption == InitSize \in Nat /\ InitSize > 1 /\ MaxRequests \in Nat
ASSUME RequestsAssumption ==
  \A r \in Requests : r.is \in Meanings /\ r.bytes \in Seq(ByteKinds)

VARIABLES
  state,     \* state[c]: "away", "backlog", "open" or "closed"
  asked,     \* asked[c]: the requests the client has sent, in order
  wire,      \* wire[c]: bytes sent and not yet read by the daemon
  eof,       \* eof[c]: the client has closed its sending half, or reset
  deaf,      \* deaf[c]: the client does not read its answers any more
  buffer,    \* buffer[c]: the bytes up to conn->pos
  size,      \* size[c]: conn->buffer_size
  answers,   \* answers[c]: what has been written to the client, in order
  pending,   \* the watchers libev is going to call back in this iteration
  serving,   \* the connection whose request is in work, or Nobody
  broken,    \* ev_break has been called
  running    \* ev_run has not returned, and no signal has ended the daemon

client == <<asked, wire, eof, deaf>>
conn == <<state, buffer, size, answers>>
ev == <<pending, serving, broken, running>>
vars == <<client, conn, ev>>

Listener == "listener"
Nobody == "nobody"
ASSUME NamesAssumption == Listener \notin Conns /\ Nobody \notin Conns
Bytes == [msg : 1..MaxRequests, kind : ByteKinds]
Answers == [msg : 0..MaxRequests, what : {"result", "error", "parse_error"}]

\* Each variable keeps to its values.
TypeOK == /\ state \in [Conns -> {"away", "backlog", "open", "closed"}]
          /\ eof \in [Conns -> BOOLEAN] /\ deaf \in [Conns -> BOOLEAN]
          /\ asked \in [Conns -> Seq(Requests)]
          /\ \A c \in Conns : Len(asked[c]) <= MaxRequests
          /\ wire \in [Conns -> Seq(Bytes)]
          /\ buffer \in [Conns -> Seq(Bytes)]
          /\ size \in [Conns -> Nat]
          /\ answers \in [Conns -> Seq(Answers)]
          /\ pending \subseteq Conns \cup {Listener}
          /\ serving \in Conns \cup {Nobody}
          /\ broken \in BOOLEAN /\ running \in BOOLEAN

Init == /\ state = [c \in Conns |-> "away"]
        /\ asked = [c \in Conns |-> <<>>]
        /\ wire = [c \in Conns |-> <<>>]
        /\ eof = [c \in Conns |-> FALSE]
        /\ deaf = [c \in Conns |-> FALSE]
        /\ buffer = [c \in Conns |-> <<>>]
        /\ size = [c \in Conns |-> InitSize]
        /\ answers = [c \in Conns |-> <<>>]
        /\ pending = {}
        /\ serving = Nobody
        /\ broken = FALSE
        /\ running = TRUE

-----------------------------------------------------------------------------
(* The clients                                                             *)

\* The bytes of request r sent as the n-th of a connection.
BytesOf(r, n) == [k \in 1..Len(r.bytes) |-> [msg |-> n, kind |-> r.bytes[k]]]

Connect(c) == /\ state[c] = "away"
              /\ state' = [state EXCEPT ![c] = "backlog"]
              /\ UNCHANGED <<client, buffer, size, answers, ev>>

Ask(c, r) == /\ state[c] \in {"backlog", "open"}
             /\ ~eof[c]
             /\ Len(asked[c]) < MaxRequests
             /\ Pipelining \/ (Len(answers[c]) = Len(asked[c]) /\ ~deaf[c])
             /\ asked' = [asked EXCEPT ![c] = Append(@, r)]
             /\ wire' = [wire EXCEPT ![c] = @ \o BytesOf(r, Len(asked[c]) + 1)]
             /\ UNCHANGED <<eof, deaf, conn, ev>>

Hangup(c) == /\ state[c] \in {"backlog", "open"}
             /\ ~eof[c]
             /\ eof' = [eof EXCEPT ![c] = TRUE]
             /\ UNCHANGED <<asked, wire, deaf, conn, ev>>

StopsReading(c) == /\ state[c] \in {"backlog", "open"}
                   /\ ~deaf[c]
                   /\ deaf' = [deaf EXCEPT ![c] = TRUE]
                   /\ UNCHANGED <<asked, wire, eof, conn, ev>>

-----------------------------------------------------------------------------
(* The event loop: one iteration polls, then calls back what was ready     *)

\* Mutant: one client at a time.
ReadyOneClient(w) ==
  IF w = Listener THEN \E c \in Conns : state[c] = "backlog" /\ \A d \in Conns : state[d] # "open"
  ELSE state[w] = "open" /\ (wire[w] # <<>> \/ eof[w])

Ready(w) == IF w = Listener THEN \E c \in Conns : state[c] = "backlog"
            ELSE state[w] = "open" /\ (wire[w] # <<>> \/ eof[w])

Poll == /\ running /\ ~broken
        /\ pending = {} /\ serving = Nobody
        /\ pending' = {w \in Conns \cup {Listener} : Ready(w)}
        /\ pending' # {}
        /\ UNCHANGED <<client, conn, serving, broken, running>>

\* ev_break takes effect when the iteration is over.
LoopEnds == /\ running /\ broken
            /\ pending = {} /\ serving = Nobody
            /\ running' = FALSE
            /\ UNCHANGED <<client, conn, pending, serving, broken>>

\* accept: one connection, with an empty buffer.  It may fail, for want of
\* descriptors; then the connection stays in the backlog.
Accept == /\ Listener \in pending /\ serving = Nobody
          /\ pending' = pending \ {Listener}
          /\ \/ \E c \in Conns : /\ state[c] = "backlog"
                                 /\ state' = [state EXCEPT ![c] = "open"]
             \/ UNCHANGED state
          /\ UNCHANGED <<client, buffer, size, answers, serving, broken, running>>

-----------------------------------------------------------------------------
(* The stream parser                                                       *)

\* Where the scan of one JSON text in b stops: at its closing byte, at the
\* byte that cannot be there, or past the end.  An escape takes the next byte
\* with it whatever that is, even the NUL that ends the buffer.
ScanFrom(b) ==
  LET at[i \in 1..(Len(b) + 2)] ==
        IF i > Len(b) THEN i
        ELSE CASE b[i].kind = "esc" -> at[i + 2]
               [] b[i].kind = "open" -> IF i = 1 THEN at[i + 1] ELSE i
               [] b[i].kind \in {"plain", "quoted"} -> IF i = 1 THEN i ELSE at[i + 1]
               [] OTHER -> i
  IN  at[1]

\* cJSON_Parse_Stream and the test of end_ptr that follows it: a text that is
\* complete ("whole"), one that ends with the buffer ("more"), or an error.
Parse(b) ==
  LET stop == IF b[1].kind = "esc" THEN 1 ELSE ScanFrom(b)
  IN  [is  |-> IF stop \in 2..Len(b) /\ b[stop].kind = "close" THEN "whole"
               ELSE IF stop = Len(b) + 1 THEN "more" ELSE "error",
       end |-> stop]

-----------------------------------------------------------------------------
(* connection_cb: grow the buffer, read once, take at most one request     *)

\* Mutant: the last byte of the processed request is taken for the next one's.
ShiftedEarly(b, k) == SubSeq(b, k, Len(b))

\* Mutant: the processed request is not discarded.
ShiftedKeeps(b, k) == b

\* The buffer after a request of k bytes: memmove shifts the rest down, but
\* strlen is taken at the old end_ptr, inside the moved bytes when the rest
\* is as long as the request, and the memset wipes what lies beyond it.
Shifted(b, k) ==
  LET rest == Len(b) - k
      pos == IF rest + 2 <= k THEN rest ELSE IF rest > k THEN rest - k ELSE 0
  IN  SubSeq(b, k + 1, k + pos)

\* Mutant: something that is no object is answered with an empty result.
AnswerToAnything(r, n) == CASE r.is \in {"call", "endless", "exit"} -> <<[msg |-> n, what |-> "result"]>>
                            [] r.is \in {"unknown", "invalid"} -> <<[msg |-> n, what |-> "error"]>>
                            [] OTHER -> <<[msg |-> n, what |-> "nothing"]>>

\* eval_request: the answer to the n-th request of a connection, if any, and if
\* the procedure comes back.
AnswerTo(r, n) == CASE r.is \in {"call", "endless", "exit"} -> <<[msg |-> n, what |-> "result"]>>
                    [] r.is \in {"unknown", "invalid"} -> <<[msg |-> n, what |-> "error"]>>
                    [] OTHER -> <<>>

Close(c) == state' = [state EXCEPT ![c] = "closed"]

\* Mutant: the buffer does not grow.
GrownSizeFixed(c) == size[c]

GrownSize(c) == IF Len(buffer[c]) = size[c] - 1 THEN 2 * size[c] ELSE size[c]

\* What is read now fits the buffer and leaves room for the NUL.
Room(c) == GrownSize(c) - Len(buffer[c]) - 1

\* The bytes read so far are parsed: if the text is not complete, there is
\* nothing to do yet.
ReadBytes(c, n) ==
  LET got == buffer[c] \o SubSeq(wire[c], 1, n)
  IN  /\ wire' = [wire EXCEPT ![c] = SubSeq(@, n + 1, Len(@))]
      /\ buffer' = [buffer EXCEPT ![c] = got]
      /\ serving' = IF Parse(got).is = "more" THEN Nobody ELSE c

ConnectionCb(c) ==
  /\ c \in pending /\ serving = Nobody
  /\ pending' = pending \ {c}
  /\ size' = [size EXCEPT ![c] = GrownSize(c)]
  /\ \/ /\ \E n \in 1..Len(wire[c]) : n <= Room(c) /\ ReadBytes(c, n)
        /\ UNCHANGED state
     \/ \* end of file, a connection reset, or no memory to grow the buffer
        /\ \/ eof[c]
           \/ GrownSize(c) # size[c]
        /\ Close(c)
        /\ buffer' = [buffer EXCEPT ![c] = <<>>]
        /\ UNCHANGED <<wire, serving>>
  /\ UNCHANGED <<asked, eof, deaf, answers, broken, running>>

ParseError == [msg |-> 0, what |-> "parse_error"]

\* What is written to the connection for the text in its buffer.
Reply(c) == LET b == buffer[c] IN
            IF Parse(b).is = "whole" THEN AnswerTo(asked[c][b[1].msg], b[1].msg)
            ELSE <<ParseError>>

\* The request is answered and discarded; after a parse error the connection is
\* closed.
Processes(c) ==
  LET b == buffer[c]
      parsed == Parse(b)
  IN  /\ answers' = [answers EXCEPT ![c] = @ \o Reply(c)]
      /\ \/ /\ parsed.is = "whole"
            /\ buffer' = [buffer EXCEPT ![c] = Shifted(b, parsed.end)]
            /\ broken' = (broken \/ asked[c][b[1].msg].is = "exit")
            /\ UNCHANGED state
         \/ /\ parsed.is # "whole"
            /\ buffer' = [buffer EXCEPT ![c] = <<>>]
            /\ Close(c)
            /\ UNCHANGED broken
      /\ UNCHANGED <<pending, running>>

\* SIGPIPE: the client has closed the connection that is written to.
Killed(c) == /\ eof[c] /\ Reply(c) # <<>>
             /\ running' = FALSE /\ pending' = {}
             /\ UNCHANGED <<answers, buffer, broken, state>>

\* The rest of connection_cb: the procedure comes back and write is done.  Both
\* keep the one thread as long as they take.
Respond(c) ==
  /\ serving = c
  /\ serving' = Nobody
  /\ Processes(c) \/ Killed(c)
  /\ UNCHANGED <<asked, wire, eof, deaf, size>>

Next == \/ \E c \in Conns : \/ Connect(c) \/ Hangup(c) \/ StopsReading(c)
                            \/ ConnectionCb(c) \/ Respond(c)
                            \/ \E r \in Requests : Ask(c, r)
        \/ Poll \/ LoopEnds \/ Accept

\* A procedure that need not come back is in work for c.
Endless(c) == LET b == buffer[c] IN
              Parse(b).is = "whole" /\ asked[c][b[1].msg].is = "endless"

\* libev goes on, calls back every pending watcher, and accept succeeds once
\* in a while.  A request comes to its end if its procedure does, and if the
\* client reads the answer; if not, it may (the answer fits the socket's buffer),
\* or the thread waits for ever.
Fairness == /\ WF_vars(Poll) /\ WF_vars(LoopEnds)
            /\ SF_vars(Accept /\ state' # state)
            /\ \A c \in Conns : /\ WF_vars(ConnectionCb(c))
                               /\ WF_vars(Respond(c) /\ ~deaf[c] /\ ~Endless(c))

SafeSpec == Init /\ [][Next]_vars
Spec == SafeSpec /\ Fairness

-----------------------------------------------------------------------------
(* Properties                                                              *)

\* The buffer always keeps a byte for the terminating NUL, however requests
\* are cut into reads and whatever the buffer has grown to.
RoomForNul == \A c \in Conns : Len(buffer[c]) <= size[c] - 1 /\ Room(c) > 0

\* What the client has sent, from request n on.
StreamFrom(c, n) ==
  FlattenSeq([k \in 1..(Len(asked[c]) + 1 - n) |-> BytesOf(asked[c][n + k - 1], n + k - 1)])

\* What the daemon has yet to process of an open connection is what the
\* client sent after the requests processed so far, to the byte: a request
\* that has been processed is discarded, and nothing else is.
NothingLost == \A c \in Conns : state[c] = "open" =>
                 \E n \in 1..(Len(asked[c]) + 1) :
                   buffer[c] \o wire[c] = StreamFrom(c, n)

\* What eval_request answers to the first m of the requests s.
Due(s, m) == FlattenSeq([n \in 1..m |-> AnswerTo(s[n], n)])

\* The answers of a connection are those of its requests, each once and in
\* order, with at most one parse error behind them.
AnswersInOrder ==
  \A c \in Conns :
    LET due == Due(asked[c], Len(asked[c]))
        sent == answers[c]
    IN  IsPrefix(IF sent # <<>> /\ sent[Len(sent)].what = "parse_error"
                 THEN SubSeq(sent, 1, Len(sent) - 1) ELSE sent, due)

\* A connection is refused with a parse error only if its client has sent
\* something that is no JSON text; a text that is cut short is waited for.
WellFormed(r) == Parse(BytesOf(r, 1)) = [is |-> "whole", end |-> Len(r.bytes)]

ErrorOnlyIfMalformed ==
  \A c \in Conns : (\E k \in 1..Len(answers[c]) : answers[c][k].what = "parse_error")
                     => \E n \in 1..Len(asked[c]) : ~WellFormed(asked[c][n])

\* The one thread is in a procedure that need not come back, or writes to a client
\* that does not read.
HeldUp == \E c \in Conns : serving = c /\ (deaf[c] \/ Endless(c))

\* c waits for an answer to one of its requests.
Waits(c) == /\ state[c] # "closed" /\ running /\ ~broken
            /\ \E n \in 1..Len(asked[c]) : asked[c][n].is # "nonobject" /\ Len(answers[c]) < n

\* A client that calls for an answer gets it, unless the connection or the daemon
\* ends, or the thread is held up for good.  Nothing less than that keeps a client
\* from its answer: neither a request of another one that has come only in part,
\* nor one that hangs up, does not read while it has nothing to be answered, or
\* asks again and again.
EveryRequestAnswered == <>[]HeldUp \/ \A c \in Conns : Waits(c) ~> ~Waits(c)
-----------------------------------------------------------------------------
(* The inductive invariants                                                *)

\* The request in work is in the buffer of its connection.
InWork == \A c \in Conns : serving = c => buffer[c] # <<>>

\* Whatever clients send: inductive by itself (JrpcServerProofs).
IInv == TypeOK /\ RoomForNul /\ InWork

\* A request is one JSON text, or none: no part of it is a text but the whole.
OneText(r) ==
  \A n \in 1..MaxRequests, k \in 1..Len(r.bytes) :
    LET parsed == Parse(SubSeq(BytesOf(r, n), 1, k))
    IN  parsed.is = "whole" => parsed.end = Len(r.bytes)

\* Clients that wait for the answer before they send the next request, each of
\* which is one text: what the lock and json.dumps of zclient.py see to.
SerialClients == ~Pipelining /\ \A r \in Requests : OneText(r)

\* Only an open connection is called back, or has a request in work, and not both.
PendingOpen == \A c \in Conns : /\ c \in pending \/ serving = c => state[c] = "open"
                                /\ ~(c \in pending /\ serving = c)

\* The last request has not been processed, or everything has been.
InHand(c) == LET last == Len(asked[c]) IN
             /\ last > 0
             /\ buffer[c] \o wire[c] = BytesOf(asked[c][last], last)
             /\ Len(answers[c]) < last /\ answers[c] = Due(asked[c], last - 1)
Processed(c) == /\ buffer[c] = <<>> /\ wire[c] = <<>>
                /\ Len(answers[c]) <= Len(asked[c])
                /\ answers[c] = Due(asked[c], Len(asked[c]))
InStep == \A c \in Conns : state[c] # "closed" =>
            InHand(c) \/ Processed(c)

\* A connection that was closed has its answers but, perhaps, the last.
Ended == \A c \in Conns : state[c] = "closed" =>
           \E m \in 0..Len(asked[c]) :
             /\ m + 1 >= Len(asked[c])
             /\ answers[c] \in {Due(asked[c], m), Append(Due(asked[c], m), ParseError)}

\* Inductive for serial clients.
SerialIInv == IInv /\ PendingOpen /\ InStep /\ Ended
=============================================================================
