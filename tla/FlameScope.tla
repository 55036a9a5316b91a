----------------------------- MODULE FlameScope -----------------------------
(***************************************************************************)
(* The heat map and the flame graph of perf.stack (app/flamescope/util).   *)
(* Both read the file, keep what they found, and use it again as long as   *)
(* the file's time of modification is the same.  The perf pages write the  *)
(* file anew and remove it; one worker serves all requests, so a request   *)
(* is one step.  The unit of time is a tenth of a second.                  *)
(***************************************************************************)
EXTENDS Integers, Sequences, FiniteSets

CONSTANTS
  Files,       \* contents: sequences of samples
  Again,       \* bound: those among them that may be written over another
  Ranges,      \* the parts of the time that a user may select: <<from, to>>
  MaxWrites    \* bound: how often the file is written

Samples == [at : Nat, idle : BOOLEAN, indexed : BOOLEAN]

ASSUME FilesAssumption == Files \subseteq Seq(Samples) /\ Again \subseteq Files
ASSUME RangesAssumption == Ranges \subseteq Nat \X Nat
ASSUME WritesAssumption == MaxWrites \in Nat

VARIABLES
  exists, file, mtime,              \* perf.stack
  heatmap_cache, heatmap_mtimes,    \* heatmap.py: 0 when there is nothing
  stack_times, stack_index, stack_mtimes,   \* stack.py
  reply        \* the last answer

perfStack == <<exists, file, mtime>>
heatmap == <<heatmap_cache, heatmap_mtimes>>
stack == <<stack_times, stack_index, stack_mtimes>>
vars == <<perfStack, heatmap, stack, reply>>

SECOND == 10
OVERSCAN == 1
Never == -1    \* a time that no sample has set
Whole == <<Never, Never>>

Floor(t) == SECOND * (t \div SECOND)
Ceil(t) == SECOND * ((t + SECOND - 1) \div SECOND)
Least(S) == CHOOSE t \in S : \A u \in S : t <= u
Greatest(S) == CHOOSE t \in S : \A u \in S : u <= t
Times(samples, S) == {samples[i].at : i \in S}

Answer(kind, range, got) == [kind |-> kind, range |-> range, got |-> got]
NoAnswer == Answer("none", Whole, {})

Init == /\ exists = FALSE /\ file = <<>> /\ mtime = 0
        /\ heatmap_cache = [start |-> Never, end |-> Never, offsets |-> {}]
        /\ heatmap_mtimes = 0
        /\ stack_times = [start |-> Never, end |-> Never] /\ stack_index = <<>>
        /\ stack_mtimes = 0
        /\ reply = NoAnswer

-----------------------------------------------------------------------------
(* The perf pages                                                          *)

Write == /\ mtime < MaxWrites
         /\ file' \in IF mtime = 0 THEN Files ELSE Again
         /\ exists' = TRUE /\ mtime' = mtime + 1
         /\ reply' = NoAnswer
         /\ UNCHANGED <<heatmap, stack>>

Remove == /\ exists /\ exists' = FALSE
          /\ reply' = NoAnswer
          /\ UNCHANGED <<file, mtime, heatmap, stack>>

-----------------------------------------------------------------------------
(* The heat map                                                            *)

\* read_offsets: the end is the time of the last sample.
Offsets(samples) ==
  [start   |-> IF samples = <<>> THEN Never ELSE Least(Times(samples, DOMAIN samples)),
   end     |-> IF samples = <<>> THEN Never ELSE samples[Len(samples)].at,
   offsets |-> {i \in DOMAIN samples : ~samples[i].idle}]

\* What is kept is used if it is of this file.
Kept(known) == known = mtime

\* generate_heatmap: the column of a sample.
Column(o, i) == (file[i].at - Floor(o.start)) \div SECOND

\* Mutant: the last second has a column only when it is over.
ColumnsFull(o) == (Floor(o.end) - Floor(o.start)) \div SECOND

\* One column for each second.
Columns(o) == (Ceil(o.end) - Floor(o.start)) \div SECOND
NoHeatmap(o) == o.start = Never \/ \E i \in o.offsets : Column(o, i) >= Columns(o)

GetHeatmap ==
  IF ~exists
  THEN reply' = Answer("missing", Whole, {}) /\ UNCHANGED <<perfStack, heatmap, stack>>
  ELSE LET o == IF Kept(heatmap_mtimes) THEN heatmap_cache ELSE Offsets(file)
       IN  /\ heatmap_cache' = o /\ heatmap_mtimes' = mtime
           /\ reply' = Answer(IF NoHeatmap(o) THEN "raised" ELSE "heatmap", Whole, o.offsets)
           /\ UNCHANGED <<perfStack, stack>>

-----------------------------------------------------------------------------
(* The flame graph                                                         *)

\* calculate_stack_range: a sample that sets the start does not set the end.
SetEnd(samples) == {i \in DOMAIN samples : \E j \in 1..i - 1 : samples[j].at <= samples[i].at}
NoRange(samples) == SetEnd(samples) = {}
RangeOf(samples) == [start |-> Floor(Least(Times(samples, DOMAIN samples))),
                     end   |-> Ceil(Greatest(Times(samples, SetEnd(samples))))]

\* The times of the samples whose line number is a multiple of a hundred.
IndexOf(samples) == [i \in {k \in DOMAIN samples : samples[k].indexed} |-> samples[i].at]

\* The entries that are too far to begin at.
Later(start, index) == {k \in DOMAIN index : index[k] > start}
BeforeAll(S, index) == {k \in DOMAIN index : \A l \in S : k < l}

\* Mutant: the entry that is too far is used.
BeginLate(start, index) ==
  LET later == Later(start, index) IN IF later = {} THEN 1 ELSE Least(later)

\* Scanning begins at the last entry before the first that is too far.
Begin(start, index) ==
  LET later == Later(start, index)
      before == BeforeAll(later, index)
  IN  IF later = {} \/ before = {} THEN 1 ELSE Greatest(before)

\* It ends before a sample that is beyond the range and the overscan.
Beyond(begin, end) == {i \in DOMAIN file : i >= begin /\ file[i].at > end + OVERSCAN}
Scanned(begin, end) ==
  {i \in DOMAIN file : i >= begin /\ \A j \in Beyond(begin, end) : i < j}

\* Idle samples are left out, but not the last one of the file.
Shown(i) == ~file[i].idle \/ i = Len(file)

Within(i, start, end) == file[i].at >= start /\ file[i].at <= end

\* The range selected within that of the file; the start is what is not a range.
Start(times, range) == times.start + (IF range = Whole THEN 0 ELSE range[1])
End(times, range) == IF range = Whole THEN times.end ELSE times.start + range[2]
Refused(times, range) == \/ End(times, range) > times.end
                         \/ Start(times, range) > End(times, range)

Graph(times, index, range) ==
  LET start == Start(times, range)
      end == End(times, range)
  IN  IF Refused(times, range) THEN Answer("refused", range, {})
      ELSE Answer("stack", range,
                  {i \in Scanned(Begin(start, index), end) : Within(i, start, end) /\ Shown(i)})

\* Mutant: the time of modification is noted although there are no times.
RaisesNoted(range) == /\ stack_mtimes' = mtime /\ UNCHANGED stack_times
                      /\ reply' = Answer("raised", range, {})

\* floor and ceil raise without a start or an end.
Raises(range) == /\ UNCHANGED <<stack_times, stack_mtimes>>
                 /\ reply' = Answer("raised", range, {})

\* generate_stack.  The index is replaced before the times are known.
GetStack(range) ==
  IF ~exists
  THEN reply' = Answer("missing", range, {}) /\ UNCHANGED <<perfStack, heatmap, stack>>
  ELSE /\ IF Kept(stack_mtimes)
          THEN UNCHANGED stack /\ reply' = Graph(stack_times, stack_index, range)
          ELSE /\ stack_index' = IndexOf(file)
               /\ IF NoRange(file)
                  THEN Raises(range)
                  ELSE /\ stack_times' = RangeOf(file) /\ stack_mtimes' = mtime
                       /\ reply' = Graph(RangeOf(file), IndexOf(file), range)
       /\ UNCHANGED <<perfStack, heatmap>>

Next == Write \/ Remove \/ GetHeatmap \/ \E range \in Ranges \cup {Whole} : GetStack(range)

Spec == Init /\ [][Next]_vars

-----------------------------------------------------------------------------
(* Properties                                                              *)

\* What is kept and would be used is of the file there is, the index as well as
\* the times, and no times are kept of a file without a range: also after a
\* request that failed when it had replaced the index, and after the file was
\* removed and written again.
CachesCurrent ==
  exists => /\ heatmap_mtimes = mtime => heatmap_cache = Offsets(file)
            /\ stack_mtimes = mtime => /\ ~NoRange(file)
                                       /\ stack_times = RangeOf(file)
                                       /\ stack_index = IndexOf(file)

\* No sample is followed by one that is earlier by more than this.
DisorderedBy(by) == \A i, j \in DOMAIN file : i < j => file[i].at - file[j].at <= by

\* The flame graph of a range has every sample in it, although scanning begins at
\* an entry of the index and ends early; with samples out of order by no more
\* than the overscan, those too that come later than that after its start.
GraphComplete ==
  reply.kind = "stack" =>
    \A i \in DOMAIN file, by \in 0..OVERSCAN :
      /\ DisorderedBy(by)
      /\ Within(i, Start(RangeOf(file), reply.range) + by + 1, End(RangeOf(file), reply.range))
      /\ ~file[i].idle
      => i \in reply.got

\* Of a file whose samples are in order, of which the last is not at a full second
\* and not the only one, there is a heat map, and a flame graph of each of its
\* columns and of the whole.
NeverFails ==
  /\ exists /\ Len(file) > 1 /\ DisorderedBy(0)
  /\ file[Len(file)].at % SECOND # 0
  => /\ reply.kind # "raised"
     /\ reply.kind = "refused" =>
          \/ reply.range[1] > reply.range[2]
          \/ reply.range[2] > SECOND * Columns(Offsets(file))
=============================================================================
