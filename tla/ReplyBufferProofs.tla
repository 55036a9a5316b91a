------------------------- MODULE ReplyBufferProofs --------------------------
(* Theorems about the reply buffers, for every chunk and marker length.    *)
EXTENDS ReplyBuffer, TLAPS

(* A chunk short enough leaves room for the marker and its NUL.            *)
LEMMA RoomLeft ==
  ASSUME NEW size \in Nat, NEW used \in Nat, NEW len \in Nat,
         used <= size - CHUNK + len, len <= CHUNK - MARK - 1
  PROVE  used + MARK + 1 <= size
BY SizesAssumption

(* A call starts the loop of its procedure with an empty buffer.           *)
LEMMA CallPreserves == ASSUME IInv, NEW p \in Procs, Call(p) PROVE IInv'
BY SizesAssumption, SourceAssumption
   DEF IInv, TypeOK, MarkerFits, SeqreadInBounds, NothingCut, ReadfileWhole, Delivery,
       ChunkHead, Left, Least, Pos, Procs, Call

(* A failing read changes nothing but the program counter.                 *)
LEMMA ReadErrorPreserves == IInv /\ ReadError => IInv'
<1> SUFFICES ASSUME IInv, ReadError PROVE IInv'
  OBVIOUS
<1>1. /\ pc' \in {"dead", "spin"}
      /\ proc' = proc /\ source' = source /\ taken' = taken
      /\ cap' = cap /\ kept' = kept /\ whole' = whole
  BY DEF ReadError
<1>2. TypeOK' /\ proc' \in Procs
  BY <1>1 DEF IInv, TypeOK, ReadError
<1> QED
  BY <1>1, <1>2 DEF IInv, MarkerFits, SeqreadInBounds, NothingCut, ReadfileWhole

(* The first read, into a buffer that may then be replaced by a larger one. *)
LEMMA ReadfileFirstPreserves == IInv /\ ReadfileFirst => IInv'
<1> SUFFICES ASSUME IInv, ReadfileFirst PROVE IInv'
  OBVIOUS
<1>1. ASSUME NEW len \in Delivered(CHUNK),
             Take(len, 0), whole' = (len = Least(CHUNK, source)),
             cap' = IF Large(len) THEN 2 * CHUNK ELSE CHUNK,
             pc' = IF len = CHUNK THEN "more" ELSE "append",
             UNCHANGED <<proc, source>>
      PROVE  IInv'
  <2>1. proc = "readfile" /\ taken = 0 /\ kept = 0 /\ source \in Nat
    BY DEF ReadfileFirst, IInv, TypeOK
  <2>2. len \in Nat /\ len <= CHUNK /\ len <= source
    BY <2>1, SizesAssumption DEF Delivered, Left, Least
  <2>3. taken' = len /\ kept' = len
    BY <1>1, <2>1, <2>2 DEF Take
  <2>4. whole' => len = CHUNK \/ len = source
    BY <1>1 DEF Least
  <2> QED
    BY <1>1, <2>1, <2>2, <2>3, <2>4, SizesAssumption
       DEF IInv, TypeOK, MarkerFits, SeqreadInBounds, NothingCut, ReadfileWhole, Delivery,
           ChunkHead, Left, Pos, Procs, Large
<1> QED
  BY <1>1 DEF ReadfileFirst

(* The loop shared by readfile, acmdresult and perfscript.                 *)
LEMMA ReadfileMorePreserves == IInv /\ ReadfileMore => IInv'
<1> SUFFICES ASSUME IInv, ReadfileMore PROVE IInv'
  OBVIOUS
<1>1. ASSUME NEW len \in Delivered(CHUNK), Chunk(len),
             whole' = (whole /\ len = Least(CHUNK, Left))
      PROVE  IInv'
  <2>1. /\ proc = "readfile" /\ pc = "more" /\ kept <= cap - CHUNK
        /\ source \in Nat /\ taken \in Nat /\ kept \in Nat /\ cap \in Nat
        /\ kept <= taken /\ taken <= source
        /\ whole => ChunkHead
    <3>1. pc = "more"
      BY SizesAssumption DEF ReadfileMore
    <3> QED
      BY <3>1 DEF IInv, TypeOK
  <2>2. len \in Nat /\ len <= CHUNK /\ len <= source - taken
    BY <2>1, SizesAssumption DEF Delivered, Left, Least
  <2>3. /\ taken' = taken + len /\ kept' \in Nat
        /\ kept' <= taken' /\ kept' <= cap - CHUNK + len
    BY <1>1, <2>1, <2>2, SizesAssumption DEF Chunk, Take
  <2>4. ASSUME whole'
        PROVE  /\ kept' = taken'
               /\ ((len = CHUNK /\ kept' = cap) \/ taken' = source)
    <3>1. whole /\ len = Least(CHUNK, Left)
      BY <1>1, <2>4
    <3>2. kept = taken /\ (kept = cap - CHUNK \/ Left = 0)
      BY <2>1, <3>1 DEF ChunkHead
    <3>3. len = CHUNK \/ len = source - taken
      BY <3>1 DEF Least, Left
    <3>4. CASE kept = cap - CHUNK
      <4>1. kept' = kept + len
        BY <1>1, <3>4 DEF Chunk, Take
      <4>2. kept' = taken'
        BY <4>1, <3>2, <2>1, <2>2, <2>3
      <4>3. len = CHUNK => kept' = cap
        BY <4>1, <3>4, <2>1, SizesAssumption
      <4>4. len = source - taken => taken' = source
        BY <2>1, <2>2, <2>3
      <4> QED
        BY <4>2, <4>3, <4>4, <3>3
    <3>5. CASE kept # cap - CHUNK
      <4>1. kept' = kept /\ source - taken = 0
        BY <1>1, <3>2, <3>5 DEF Chunk, Take, Left
      <4> QED
        BY <4>1, <3>2, <2>1, <2>2, <2>3
    <3> QED
      BY <3>4, <3>5
  <2>5. /\ proc' = proc /\ source' = source /\ whole' \in BOOLEAN
        /\ Full(len) => pc' = "more" /\ cap' = cap + CHUNK
        /\ ~Full(len) => pc' = "append" /\ cap' = cap
    BY <1>1, <2>1 DEF Chunk, IInv, TypeOK
  <2>6. CASE Full(len)
    <3>1. whole' => ChunkHead'
      BY <2>1, <2>2, <2>3, <2>4, <2>5, <2>6, SizesAssumption DEF ChunkHead, Left
    <3>2. pc' = "more" /\ cap' \in Nat /\ kept' <= cap' - CHUNK
      BY <2>1, <2>2, <2>3, <2>5, <2>6, SizesAssumption
    <3>3. TypeOK'
      BY <2>1, <2>2, <2>3, <2>5, <3>2 DEF TypeOK, Procs
    <3> QED
      BY <2>1, <2>5, <3>1, <3>2, <3>3
         DEF IInv, MarkerFits, SeqreadInBounds, NothingCut, ReadfileWhole, Procs
  <2>7. CASE ~Full(len)
    <3>1. whole' => kept' = source'
      <4>1. len # CHUNK
        BY <2>2, <2>7, SizesAssumption DEF Full
      <4> QED
        BY <4>1, <2>4, <2>5
    <3>2. pc' = "append" /\ cap' \in Nat
      BY <2>1, <2>5, <2>7
    <3>3. TypeOK'
      BY <2>1, <2>2, <2>3, <2>5, <3>2 DEF TypeOK, Procs
    <3>4. kept' + MARK + 1 <= cap'
      <4>1. len <= CHUNK - MARK - 1
        BY <2>7 DEF Full
      <4>2. cap' = cap
        BY <2>5, <2>7
      <4> QED
        BY <4>1, <4>2, <2>1, <2>2, <2>3, RoomLeft
    <3> QED
      BY <2>1, <2>5, <3>1, <3>2, <3>3, <3>4
         DEF IInv, MarkerFits, SeqreadInBounds, NothingCut, ReadfileWhole, Delivery, Procs
  <2> QED
    BY <2>6, <2>7
<1> QED
  BY <1>1 DEF ReadfileMore

(* The same loop with fread, which comes up short only at the end.         *)
LEMMA ResultReadPreserves == IInv /\ ResultRead => IInv'
<1> SUFFICES ASSUME IInv, ResultRead PROVE IInv'
  OBVIOUS
<1> DEFINE len == Least(CHUNK, Left)
<1>1. /\ proc = "acmdresult" /\ pc = "read" /\ Chunk(len) /\ whole' = whole
      /\ source \in Nat /\ taken \in Nat /\ kept \in Nat /\ cap \in Nat
      /\ taken <= source /\ ChunkHead /\ whole \in BOOLEAN
  BY DEF ResultRead, IInv, TypeOK
<1>2. len \in Nat /\ len <= CHUNK /\ (len = CHUNK \/ len = source - taken)
  BY <1>1, SizesAssumption DEF Left, Least
<1> HIDE DEF len
<1>3. /\ taken' = taken + len /\ kept' = taken' /\ taken' <= source
      /\ kept' <= cap - CHUNK + len
      /\ (len = CHUNK /\ kept' = cap) \/ taken' = source
  <2>1. len <= source - taken
    BY <1>1, SizesAssumption DEF Left, Least, len
  <2> QED
    BY <1>1, <1>2, <2>1, SizesAssumption DEF Chunk, Take, ChunkHead, Left
<1> QED
  BY <1>1, <1>2, <1>3, SizesAssumption
     DEF Chunk, Full, IInv, TypeOK, MarkerFits, SeqreadInBounds, NothingCut,
         ReadfileWhole, Delivery, ChunkHead, Left, Procs

(* The only read of runcmd.                                                *)
LEMMA RuncmdReadPreserves == IInv /\ RuncmdRead => IInv'
BY SizesAssumption
   DEF RuncmdRead, Take, IInv, TypeOK, MarkerFits, SeqreadInBounds, NothingCut,
       ReadfileWhole, Delivery, ChunkHead, Left, Least, Procs

(* A read of seqread, which leaves the string without a gap.               *)
LEMMA SeqreadReadPreserves == IInv /\ SeqreadRead => IInv'
<1> SUFFICES ASSUME IInv, SeqreadRead PROVE IInv'
  OBVIOUS
<1>1. ASSUME NEW len \in Delivered(STEP - Pos), len > 0, Take(len, kept),
             cap' = IF Pos + len = STEP THEN cap + STEP ELSE cap,
             UNCHANGED <<proc, pc, source, whole>>
      PROVE  IInv'
  <2>1. /\ proc = "seqread" /\ pc = "read"
        /\ source \in Nat /\ taken \in Nat /\ kept \in Nat /\ cap \in Nat
        /\ taken <= source /\ kept = taken /\ Pos \in 0..(STEP - 1)
    BY DEF SeqreadRead, IInv, TypeOK, SeqreadInBounds
  <2>2. len \in Nat /\ len <= STEP - Pos /\ len <= source - taken
    BY <1>1, <2>1, SizesAssumption DEF Delivered, Left, Least
  <2>3. kept' = kept + len /\ taken' = taken + len
    BY <1>1 DEF Take
  <2> QED
    BY <1>1, <2>1, <2>2, <2>3, SizesAssumption
       DEF IInv, TypeOK, MarkerFits, SeqreadInBounds, NothingCut, ReadfileWhole,
           Delivery, ChunkHead, Left, Pos, Procs
<1> QED
  BY <1>1 DEF SeqreadRead

(* The read of seqread that delivers nothing.                              *)
LEMMA SeqreadEndPreserves == IInv /\ SeqreadEnd => IInv'
BY SizesAssumption
   DEF SeqreadEnd, IInv, TypeOK, MarkerFits, SeqreadInBounds, NothingCut,
       ReadfileWhole, Delivery, ChunkHead, Left, Pos, Procs

-----------------------------------------------------------------------------
(* IInv holds in every state.                                              *)
THEOREM Invariance == SafeSpec => []IInv
<1>1. Init => IInv
  BY DEF Init, IInv, TypeOK, MarkerFits, SeqreadInBounds, NothingCut, ReadfileWhole,
         Delivery, ChunkHead, Procs
<1>2. IInv /\ [Next]_vars => IInv'
  <2> SUFFICES ASSUME IInv, [Next]_vars PROVE IInv'
    OBVIOUS
  <2>1. CASE Append
    BY <2>1 DEF Append, IInv, TypeOK, MarkerFits, SeqreadInBounds, NothingCut,
                ReadfileWhole, Delivery, ChunkHead, Left, Least, Pos, Procs
  <2>2. CASE UNCHANGED vars
    BY <2>2 DEF vars, IInv, TypeOK, MarkerFits, SeqreadInBounds, NothingCut,
                ReadfileWhole, Delivery, ChunkHead, Left, Least, Pos, Procs
  <2> QED
    BY <2>1, <2>2, CallPreserves, ReadfileFirstPreserves, ReadfileMorePreserves,
       ReadErrorPreserves, ResultReadPreserves, RuncmdReadPreserves, SeqreadReadPreserves,
       SeqreadEndPreserves DEF Next, Step
<1> QED
  BY <1>1, <1>2, PTL DEF SafeSpec

(* The marker always fits behind what strcat finds in the buffer, and the  *)
(* seqread loop never runs out of room in the middle of the file.          *)
THEOREM BuffersSuffice == SafeSpec => [](TypeOK /\ InBounds)
<1>1. IInv => TypeOK /\ InBounds
  BY DEF IInv, InBounds
<1> QED
  BY <1>1, Invariance, PTL

(* Nothing of a command's output, of a trace, or of a file is cut off, the *)
(* file being of any size, if its reads are full.                          *)
THEOREM RepliesComplete == SafeSpec => []RepliesWhole
<1>1. IInv => RepliesWhole
  BY DEF IInv, RepliesWhole
<1> QED
  BY <1>1, Invariance, PTL
=============================================================================
