---------------------------- MODULE ReplyBuffer -----------------------------
(***************************************************************************)
(* How the ztracerd procedures that return data fill their reply buffer    *)
(* (ztracerd/main.c): readfile, runcmd, acmdresult (and perfscript, which  *)
(* has the same loop) and seqread.  Each reads in chunks into a buffer it  *)
(* grows, and appends the end marker with strcat, that is, at the first    *)
(* NUL of the buffer.  Bytes are counted, not kept: the source holds no    *)
(* NUL, so the first NUL is the end of what was read, or the start of the  *)
(* gap that a short read leaves before the next chunk.                     *)
(***************************************************************************)
EXTENDS Integers

CONSTANTS
  CHUNK,       \* PROCBUFLEN, CMDBUFLEN and the literal 8192
  MARK,        \* strlen(endstring)
  STEP,        \* mallocstep of seqread: more than the ftrace buffers hold
  MaxSource    \* bound: bytes the file or pipe delivers

ASSUME SizesAssumption == /\ CHUNK \in Nat /\ MARK \in Nat /\ STEP \in Nat
                          /\ MARK > 0
                          /\ MARK + 1 < CHUNK
                          /\ MARK + 1 < STEP
ASSUME SourceAssumption == MaxSource \in Nat

Procs == {"readfile", "runcmd", "acmdresult", "seqread"}

VARIABLES
  proc,     \* the procedure called last, or "none"
  pc,       \* how far it is: "read", "more" (readfile's loop), "append",
            \* "sent";  "dead": it has crashed;  "spin": it loops for ever
  source,   \* bytes the file or the command delivers
  taken,    \* bytes read so far
  cap,      \* size of the reply buffer
  kept,     \* bytes before the first NUL of the reply buffer
  whole     \* history: no read has been shorter than it could have been

vars == <<proc, pc, source, taken, cap, kept, whole>>

\* Each variable keeps to its values, and no more is kept than was read.
TypeOK == /\ proc \in Procs \cup {"none"}
          /\ pc \in {"idle", "read", "more", "append", "sent", "dead", "spin"}
          /\ source \in Nat /\ taken \in Nat /\ cap \in Nat /\ kept \in Nat
          /\ whole \in BOOLEAN
          /\ kept <= taken /\ taken <= source

Init == /\ proc = "none"
        /\ pc = "idle"
        /\ source = 0 /\ taken = 0 /\ cap = 0 /\ kept = 0
        /\ whole = TRUE

\* p is called, on a source of some size; the daemon serves one call at a time.
\* What cannot be opened is answered with the marker alone, like an empty source.
Call(p) == /\ pc \in {"idle", "sent"}
           /\ proc' = p
           /\ pc' = "read"
           /\ source' \in 0..MaxSource
           /\ taken' = 0 /\ kept' = 0
           /\ cap' = IF p = "seqread" THEN STEP ELSE CHUNK
           /\ whole' = TRUE

-----------------------------------------------------------------------------
(* Reading                                                                 *)

Left == source - taken
Least(a, b) == IF a < b THEN a ELSE b

\* What read(2) may deliver when asked for n bytes: at the end nothing, else
\* some;  fread delivers less than asked only at the end.
Delivered(n) == IF Left = 0 THEN {0} ELSE 1..Least(n, Left)

\* len bytes land at offset off: the string grows if they touch it.
Take(len, off) == /\ taken' = taken + len
                  /\ kept' = IF kept = off THEN kept + len ELSE kept

\* Mutant: one byte too many is taken to leave room for the marker.
LargeLate(len) == len > CHUNK - MARK

\* readfile: a small file is answered from the buffer it was read into.
Large(len) == len >= CHUNK - MARK - 1

\* A larger one is moved to a buffer of twice the size.
ReadfileFirst ==
  /\ proc = "readfile" /\ pc = "read"
  /\ \E len \in Delivered(CHUNK) :
       /\ Take(len, 0)
       /\ whole' = (len = Least(CHUNK, source))
       /\ cap' = IF Large(len) THEN 2 * CHUNK ELSE CHUNK
       /\ pc' = IF len = CHUNK THEN "more" ELSE "append"
       /\ UNCHANGED <<proc, source>>

\* Mutant: one chunk is taken for everything.
FullNever(len) == FALSE

\* A chunk that leaves no room for the marker: the buffer grows by another.
Full(len) == ~(len <= CHUNK - MARK - 1)

Chunk(len) == /\ Take(len, cap - CHUNK)
              /\ cap' = IF Full(len) THEN cap + CHUNK ELSE cap
              /\ pc' = IF Full(len) THEN pc ELSE "append"
              /\ UNCHANGED <<proc, source>>

ReadfileMore ==
  /\ pc = "more"
  /\ \E len \in Delivered(CHUNK) : /\ Chunk(len)
                                   /\ whole' = (whole /\ len = Least(CHUNK, Left))

\* acmdresult, perfscript
ResultRead == /\ proc = "acmdresult" /\ pc = "read"
              /\ Chunk(Least(CHUNK, Left))
              /\ UNCHANGED whole

\* runcmd: one fread of what leaves room for the marker.
RuncmdRead == /\ proc = "runcmd" /\ pc = "read"
              /\ Take(Least(CHUNK - MARK - 1, Left), 0)
              /\ pc' = "append"
              /\ UNCHANGED <<proc, source, cap, whole>>

\* seqread reads until nothing is delivered, so short reads do no harm: pos is
\* where the next byte goes in the last STEP bytes of the buffer.
Pos == kept - (cap - STEP)

SeqreadRead ==
  /\ proc = "seqread" /\ pc = "read"
  /\ \E len \in Delivered(STEP - Pos) :
       /\ len > 0
       /\ Take(len, kept)
       /\ cap' = IF Pos + len = STEP THEN cap + STEP ELSE cap
       /\ UNCHANGED <<proc, pc, source, whole>>

\* Mutant: a read that delivers nothing is tried again.
SeqreadEndRetries == /\ proc = "seqread" /\ pc = "read"
                     /\ Left = 0
                     /\ UNCHANGED vars

SeqreadEnd == /\ proc = "seqread" /\ pc = "read"
              /\ Left = 0
              /\ cap' = IF Pos > STEP - MARK - 1 THEN cap + STEP ELSE cap
              /\ pc' = "append"
              /\ UNCHANGED <<proc, source, taken, kept, whole>>

\* read returns -1 (a /proc file of a dead process), or popen NULL.  readfile
\* compares its int with a size_t, so that -1 counts as large and memcpy is given
\* -1 bytes; later in its loop it goes on until no memory is left.  runcmd misses
\* a return and gives fread a null stream.  seqread tries again for ever.
ReadError == /\ pc' = IF proc = "seqread" THEN "spin" ELSE "dead"
             /\ \/ pc = "read" /\ proc \in {"readfile", "runcmd", "seqread"}
                \/ pc = "more"
             /\ UNCHANGED <<proc, source, taken, cap, kept, whole>>

\* strcat(buffer, endstring), and the reply goes out.
Append == /\ pc = "append"
          /\ pc' = "sent"
          /\ UNCHANGED <<proc, source, taken, cap, kept, whole>>

Step == \/ ReadfileFirst \/ ReadfileMore \/ ResultRead \/ RuncmdRead
        \/ SeqreadRead \/ SeqreadEnd \/ Append

Next == Step \/ ReadError \/ \E p \in Procs : Call(p)

\* A procedure runs on: there is nothing else in the thread.
SafeSpec == Init /\ [][Next]_vars
Spec == SafeSpec /\ WF_vars(Step)

-----------------------------------------------------------------------------
(* Properties                                                              *)

\* strcat always finds room for the marker and its NUL.
MarkerFits == pc = "append" => kept + MARK + 1 <= cap

\* seqread never asks for nothing, which it would take for the end of the
\* file, and never writes outside its buffer.
SeqreadInBounds == proc = "seqread" /\ pc = "read" => Pos \in 0..(STEP - 1)

\* No procedure reads or appends beyond its buffer.
InBounds == MarkerFits /\ SeqreadInBounds

\* acmdresult and seqread deliver everything; runcmd what fits one buffer.
NothingCut ==
  pc = "sent" => /\ proc \in {"acmdresult", "seqread"} => kept = source
                 /\ proc = "runcmd" => kept = Least(source, CHUNK - MARK - 1)

\* readfile delivers everything if no read but the last comes up short.
ReadfileWhole == pc = "sent" /\ proc = "readfile" /\ whole => kept = source

\* What is sent is all there was to send, for every procedure.
RepliesWhole == NothingCut /\ ReadfileWhole

\* Every call is answered unless a read fails, short reads or not.
EveryCallSent == pc \in {"read", "more", "append"} ~> pc \in {"sent", "dead", "spin"}

\* What was delivered, once nothing more will be read.
Delivery == /\ proc \in {"acmdresult", "seqread"} => kept = source
            /\ proc = "runcmd" => kept = Least(source, CHUNK - MARK - 1)
            /\ proc = "readfile" /\ whole => kept = source

\* The head of a loop that reads chunk by chunk: the string ends where the
\* next chunk goes, unless nothing is left.
ChunkHead == kept <= cap - CHUNK /\ (kept = cap - CHUNK \/ Left = 0) /\ kept = taken

\* The strengthening of the safety properties that is inductive: where each
\* procedure stands in its loop.
IInv == /\ TypeOK
        /\ MarkerFits /\ SeqreadInBounds /\ NothingCut /\ ReadfileWhole
        /\ pc # "idle" => proc \in Procs
        /\ pc = "read" /\ proc \in {"readfile", "runcmd"} => taken = 0 /\ cap = CHUNK
        /\ pc = "read" /\ proc = "acmdresult" => ChunkHead
        /\ pc = "read" /\ proc = "seqread" => kept = taken
        /\ pc = "more" => /\ proc = "readfile"
                          /\ kept <= cap - CHUNK
                          /\ whole => ChunkHead
        /\ pc \in {"append", "sent"} => Delivery
=============================================================================
