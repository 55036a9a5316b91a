----------------------------- MODULE SampleRing -----------------------------
(***************************************************************************)
(* One RecordDate (app/device.py): the ring of samples that the sampler    *)
(* thread adds to while a page walks over it.  There is no lock: add pops  *)
(* and appends in two steps, and getline iterates over the list itself,    *)
(* that is, by index, whatever happens to the list meanwhile; getlast looks *)
(* up the last sample twice.  Samples are numbered in the order they are   *)
(* taken.  Its names are not Sampler's, so that SamplerProofs can extend   *)
(* both.                                                                   *)
(***************************************************************************)
EXTENDS Integers, Sequences

CONSTANTS
  RingLen,   \* RecordDate.len
  MaxAdds    \* bound: samples taken

ASSUME LenAssumption == RingLen \in Nat /\ RingLen > 1
ASSUME AddsAssumption == MaxAdds \in Nat

VARIABLES
  data, cnt,   \* the fields of the ring
  adding,      \* the sampler is between pop and append
  next,        \* number of the next sample
  page,        \* what the page does: "idle", "line", "last"
  d,           \* getline: entries to fill in, and whether they have been
  pos,         \* getline: how far the iteration is
  line,        \* the samples in ret
  filled,      \* the entries of ret that were filled in
  lastTime, lastVal, \* getlast: the sample whose time, and whose value, it took
  cnt0, newest \* history: cnt, and the newest sample, when getline began

ringVars == <<data, cnt, adding, next>>
lastVars == <<lastTime, lastVal>>
lineVars == <<d, pos, line, filled, cnt0, newest>>
pageVars == <<page, lineVars, lastVars>>
recordVars == <<ringVars, pageVars>>

\* Each variable keeps to its values; data lags behind cnt only within add.
RingTypeOK == /\ data \in Seq(Nat) /\ cnt \in 0..RingLen
              /\ adding \in BOOLEAN /\ next \in Nat \ {0}
              /\ page \in {"idle", "line", "last"}
              /\ lastTime \in Nat /\ lastVal \in Nat
              /\ d \in 0..RingLen /\ pos \in 0..RingLen
              /\ line \in Seq(Nat) /\ filled \in 0..RingLen
              /\ cnt0 \in 0..RingLen /\ newest \in Nat
              /\ Len(data) = IF adding THEN cnt - 1 ELSE cnt

RingInit == /\ data = <<>> /\ cnt = 0 /\ adding = FALSE /\ next = 1
            /\ page = "idle"
            /\ lastTime = 0 /\ lastVal = 0
            /\ d = 0 /\ pos = 0 /\ line = <<>> /\ filled = 0
            /\ cnt0 = 0 /\ newest = 0

-----------------------------------------------------------------------------
(* RecordDate.add                                                          *)

\* Mutant: the ring is emptied when it is full.
MakeRoomClears == /\ ~adding /\ next <= MaxAdds
                  /\ adding' = TRUE
                  /\ IF cnt >= RingLen
                     THEN data' = <<>> /\ cnt' = 1
                     ELSE cnt' = cnt + 1 /\ UNCHANGED data
                  /\ UNCHANGED <<next, pageVars>>

\* Mutant: pop() for pop(0), which takes the last sample.
MakeRoomPopsLast == /\ ~adding /\ next <= MaxAdds
                    /\ adding' = TRUE
                    /\ IF cnt >= RingLen
                       THEN data' = SubSeq(data, 1, Len(data) - 1) /\ UNCHANGED cnt
                       ELSE cnt' = cnt + 1 /\ UNCHANGED data
                    /\ UNCHANGED <<next, pageVars>>

MakeRoom == /\ ~adding /\ next <= MaxAdds
            /\ adding' = TRUE
            /\ IF cnt >= RingLen
               THEN data' = Tail(data) /\ UNCHANGED cnt
               ELSE cnt' = cnt + 1 /\ UNCHANGED data
            /\ UNCHANGED <<next, pageVars>>

Put == /\ adding
       /\ adding' = FALSE
       /\ data' = Append(data, next)
       /\ next' = next + 1
       /\ UNCHANGED <<cnt, pageVars>>

-----------------------------------------------------------------------------
(* RecordDate.getlast: [self.data[-1].time, self.data[-1].getdata()]       *)

\* data[-1]; 0 stands for the IndexError of an empty list.
NewestSample == IF data = <<>> THEN 0 ELSE data[Len(data)]

\* The first lookup; where it raises nothing has changed.
LastTime == /\ page = "idle" /\ NewestSample # 0
            /\ page' = "last"
            /\ lastTime' = NewestSample
            /\ UNCHANGED <<lastVal, lineVars, ringVars>>

\* The second lookup, in the list as it is by then.
LastValue == /\ page = "last"
             /\ page' = "idle"
             /\ lastVal' = NewestSample
             /\ UNCHANGED <<lastTime, lineVars, ringVars>>

-----------------------------------------------------------------------------
(* RecordDate.getline                                                      *)

\* ret = [], d = len - cnt
LineBegins == /\ page = "idle"
              /\ page' = "line"
              /\ d' = RingLen - cnt
              /\ pos' = 0 /\ line' = <<>> /\ filled' = 0
              /\ cnt0' = cnt /\ newest' = NewestSample
              /\ UNCHANGED <<ringVars, lastVars>>

\* Mutant: the iteration starts over when the list has changed.
LineStepsAgain == /\ page = "line" /\ pos < Len(data)
                  /\ line' = Append(line, data[pos + 1])
                  /\ pos' = IF adding THEN 0 ELSE pos + 1
                  /\ filled' = filled + d /\ d' = 0
                  /\ UNCHANGED <<page, cnt0, newest, ringVars, lastVars>>

\* The loop body: the missing entries are filled in before the first sample.
LineSteps == /\ page = "line" /\ pos < Len(data)
             /\ line' = Append(line, data[pos + 1])
             /\ pos' = pos + 1
             /\ filled' = filled + d /\ d' = 0
             /\ UNCHANGED <<page, cnt0, newest, ringVars, lastVars>>

LineEnds == /\ page = "line" /\ pos >= Len(data)
            /\ page' = "idle"
            /\ UNCHANGED <<lineVars, ringVars, lastVars>>

RingNext == \/ MakeRoom \/ Put
            \/ LineBegins \/ LineSteps \/ LineEnds
            \/ LastTime \/ LastValue

RingSafeSpec == RingInit /\ [][RingNext]_recordVars

-----------------------------------------------------------------------------
(* Properties                                                              *)

\* The curve goes forward in time: a sample appears once, after all older ones,
\* although the list shifts under the iteration.
LineAscends == \A j, k \in 1..Len(line) : j < k => line[j] < line[k]

\* A finished curve.
Drawn == page # "line" /\ line # <<>>

\* A concurrent add costs a curve at most one of its entries, and never
\* yields more samples than the ring holds.
LineNearlyFull == Drawn => filled + Len(line) >= RingLen - 1 /\ Len(line) <= RingLen

\* A curve reaches the newest sample there was when it was begun, or the one
\* before.
LineFresh == Drawn => line[Len(line)] >= newest - 1

\* What a page draws is the ring as it is: nearly full, and not out of date.
LineCurrent == LineNearlyFull /\ LineFresh

\* Once there has been a sample there always is one: getlast and data[-1] in
\* scan_process do not raise (the ring has room for two).
LastExists == next > 1 => data # <<>>

\* getlast does not pair a time with an older sample, nor find the list empty
\* at its second look, although add pops before it appends and the newest sample
\* can be any number of samples further by then.
LastPaired == page # "last" => lastVal >= lastTime

\* The ring holds the latest samples without a gap.
Contiguous == \A j \in 1..Len(data) : data[j] = next - Len(data) + j - 1

\* What getline has collected so far: nothing newer than what the iteration has
\* passed, nothing much older than what was newest; and what it has filled in.
Underway ==
  page = "line" =>
    /\ cnt0 <= cnt /\ newest < next
    /\ line = <<>> => filled = 0 /\ d = RingLen - cnt0
    /\ line # <<>> => /\ filled = RingLen - cnt0 /\ d = 0
                      /\ line[pos] <= next - Len(data) + pos - 1
                      /\ line[pos] >= newest + pos - cnt

\* Between the two looks: the time is that of a sample that was taken.
LastUnderway == page = "last" => lastTime \in 1..(next - 1)

\* The strengthening of the safety properties that is inductive.
RingIInv == /\ RingTypeOK /\ Contiguous /\ Len(line) = pos /\ Underway
            /\ LineAscends /\ LineNearlyFull /\ LineFresh /\ LastExists
            /\ LastUnderway /\ LastPaired
=============================================================================
