-------------------------- MODULE FlameScopeProofs --------------------------
(***************************************************************************)
(* For every set of files: what FlameScope keeps is of the file there is,  *)
(* and a flame graph has every sample of its range.                        *)
(***************************************************************************)
EXTENDS FlameScope, WellFoundedInduction, TLAPS

-----------------------------------------------------------------------------
(* Least and greatest numbers                                              *)

\* A set of numbers that is not empty has a least one.
LEMMA LeastIsLeast ==
  ASSUME NEW S \in SUBSET Nat, S # {}
  PROVE  Least(S) \in S /\ \A u \in S : Least(S) <= u
<1>1. \E x \in S : \A y \in S : ~(<<y, x>> \in OpToRel(<, Nat))
  BY NatLessThanWellFounded, WFMin
<1>2. PICK x \in S : \A y \in S : ~(<<y, x>> \in OpToRel(<, Nat))
  BY <1>1
<1>3. \A y \in S : ~(y < x)
  BY <1>2 DEF OpToRel
<1>4. \A y \in S : x <= y
  BY <1>3
<1> QED
  BY <1>4 DEF Least

\* One that has a bound has a greatest one.
LEMMA GreatestIsGreatest ==
  ASSUME NEW S \in SUBSET Nat, S # {}, NEW b \in Nat, \A u \in S : u <= b
  PROVE  Greatest(S) \in S /\ \A u \in S : u <= Greatest(S)
<1> DEFINE B == {c \in Nat : \A u \in S : u <= c}
           m == Least(B)
<1>1. m \in B /\ \A c \in B : m <= c
  BY LeastIsLeast
<1>2. m \in Nat /\ \A u \in S : u <= m
  BY <1>1
<1> HIDE DEF m
<1>3. m \in S
  <2> SUFFICES ASSUME m \notin S PROVE FALSE
    OBVIOUS
  <2>1. \A u \in S : u < m
    BY <1>2
  <2> PICK v \in S : v < m
    BY <2>1
  <2>2. m - 1 \in Nat
    BY <1>2
  <2>3. \A u \in S : u <= m - 1
    BY <2>1, <1>2
  <2>4. m - 1 \in B
    BY <2>2, <2>3
  <2> QED
    BY <2>4, <1>1, <1>2
<1> QED
  BY <1>2, <1>3 DEF Greatest

\* A sample has a time.
LEMMA TimeType ==
  ASSUME NEW samples \in Seq(Samples)
  PROVE  DOMAIN samples = 1..Len(samples) /\ \A i \in DOMAIN samples : samples[i].at \in Nat
<1>1. \A i \in DOMAIN samples : samples[i] \in Samples
  OBVIOUS
<1>2. \A x \in Samples : x.at \in Nat
  BY DEF Samples
<1> QED
  BY <1>1, <1>2

\* Finitely many numbers have a bound: there is no least length at which they
\* have none.
LEMMA NumbersBounded ==
  ASSUME NEW n \in Nat, NEW f \in [1..n -> Nat]
  PROVE  \E b \in Nat : \A i \in 1..n : f[i] <= b
<1> DEFINE Bounded(k) == \E b \in Nat : \A i \in 1..k : f[i] <= b
           T == {k \in 0..n : ~Bounded(k)}
<1>1. SUFFICES ASSUME T # {} PROVE FALSE
  <2>1. T = {} => n \notin T
    OBVIOUS
  <2>2. n \in 0..n
    OBVIOUS
  <2>3. n \notin T => Bounded(n)
    BY <2>2
  <2> HIDE DEF T
  <2> QED
    BY <2>1, <2>3
<1>2. T \in SUBSET Nat
  OBVIOUS
<1>3. PICK k \in T : \A l \in T : k <= l
  BY <1>1, <1>2, LeastIsLeast
<1>4. Bounded(0)
  <2>1. \A i \in 1..0 : f[i] <= 0
    OBVIOUS
  <2> QED
    BY <2>1
<1>5. k - 1 \in 0..n /\ k \in 1..n
  BY <1>4
<1>6. k - 1 \notin T
  <2> HIDE DEF T
  <2> QED
    BY <1>3, <1>2, <1>5
<1>7. PICK b \in Nat : \A i \in 1..k - 1 : f[i] <= b
  BY <1>5, <1>6
<1>8. b + f[k] \in Nat /\ \A i \in 1..k : f[i] <= b + f[k]
  BY <1>5, <1>7
<1>9. Bounded(k)
  BY <1>8
<1> QED
  BY <1>9

\* The times of a file have a bound.
LEMMA TimesBounded ==
  ASSUME NEW samples \in Seq(Samples)
  PROVE  \E b \in Nat : \A i \in DOMAIN samples : samples[i].at <= b
<1> DEFINE f == [i \in 1..Len(samples) |-> samples[i].at]
<1>1. f \in [1..Len(samples) -> Nat] /\ Len(samples) \in Nat
  BY TimeType
<1>2. PICK b \in Nat : \A i \in 1..Len(samples) : f[i] <= b
  BY <1>1, NumbersBounded
<1> QED
  BY <1>2, TimeType

-----------------------------------------------------------------------------
(* The range of a file                                                     *)

\* A file with a range has numbers for its start and its end.
LEMMA RangeType ==
  ASSUME NEW samples \in Seq(Samples), ~NoRange(samples)
  PROVE  RangeOf(samples).start \in Nat /\ RangeOf(samples).end \in Nat
<1> DEFINE S == Times(samples, SetEnd(samples))
           D == Times(samples, DOMAIN samples)
<1>1. SetEnd(samples) \subseteq DOMAIN samples /\ SetEnd(samples) # {}
  BY DEF NoRange, SetEnd
<1>2. S \in SUBSET Nat /\ D \in SUBSET Nat /\ S # {} /\ D # {}
  BY <1>1, TimeType DEF Times
<1>3. PICK b \in Nat : \A i \in DOMAIN samples : samples[i].at <= b
  BY TimesBounded
<1>4. \A u \in S : u <= b
  BY <1>1, <1>3 DEF Times
<1>5. Greatest(S) \in Nat /\ Least(D) \in Nat
  BY <1>2, <1>4, GreatestIsGreatest, LeastIsLeast
<1> HIDE DEF S, D
<1>6. Floor(Least(D)) \in Nat /\ Ceil(Greatest(S)) \in Nat
  BY <1>5 DEF Floor, Ceil, SECOND
<1> QED
  BY <1>6 DEF RangeOf, S, D

\* Scanning begins at the beginning, or at a sample that is not too far.
LEMMA BeginIsEarly ==
  ASSUME NEW samples \in Seq(Samples), NEW start \in Int,
         Begin(start, IndexOf(samples)) # 1
  PROVE  /\ Begin(start, IndexOf(samples)) \in DOMAIN samples
         /\ samples[Begin(start, IndexOf(samples))].at <= start
<1> DEFINE index == IndexOf(samples)
           later == Later(start, index)
           before == BeforeAll(later, index)
<1>1. /\ DOMAIN index \subseteq 1..Len(samples)
      /\ \A k \in DOMAIN index : index[k] = samples[k].at /\ samples[k].at \in Nat
  BY TimeType DEF IndexOf
<1>2. later # {} /\ before # {} /\ Begin(start, index) = Greatest(before)
  BY DEF Begin
<1>3. before \in SUBSET Nat /\ \A u \in before : u <= Len(samples)
  BY <1>1 DEF BeforeAll
<1>4. Greatest(before) \in before
  BY <1>2, <1>3, GreatestIsGreatest
<1>5. \A k \in before : k \in DOMAIN index /\ k \notin later
  BY <1>1 DEF BeforeAll, Later
<1>6. \A k \in before : index[k] <= start
  BY <1>5, <1>1 DEF Later
<1> HIDE DEF before, index
<1> QED
  BY <1>2, <1>4, <1>5, <1>6, <1>1 DEF index

\* A graph has the samples of its range: those before the beginning of the scan
\* are too early for it, and those after its end are too late.
LEMMA GraphHasSamples ==
  ASSUME file \in Seq(Samples), ~NoRange(file), NEW range \in Ranges \cup {Whole},
         Graph(RangeOf(file), IndexOf(file), range).kind = "stack",
         NEW i \in DOMAIN file, NEW by \in 0..OVERSCAN, DisorderedBy(by),
         Within(i, Start(RangeOf(file), range) + by + 1, End(RangeOf(file), range)),
         ~file[i].idle
  PROVE  i \in Graph(RangeOf(file), IndexOf(file), range).got
<1> DEFINE start == Start(RangeOf(file), range)
           end == End(RangeOf(file), range)
           begin == Begin(start, IndexOf(file))
           at == [k \in DOMAIN file |-> file[k].at]
<1>1. start \in Int /\ end \in Int
  <2>1. RangeOf(file).start \in Nat /\ RangeOf(file).end \in Nat
    BY RangeType
  <2>2. CASE range = Whole
    BY <2>1, <2>2 DEF Start, End
  <2>3. CASE range # Whole
    <3>1. range[1] \in Nat /\ range[2] \in Nat
      BY <2>3, RangesAssumption
    <3> QED
      BY <2>1, <2>3, <3>1 DEF Start, End
  <2> QED
    BY <2>2, <2>3
<1>2. \A k \in DOMAIN file : k \in Nat /\ k >= 1 /\ file[k].at = at[k] /\ at[k] \in Nat
  BY TimeType
<1>3. by \in Nat /\ by <= OVERSCAN /\ OVERSCAN = 1
  BY DEF OVERSCAN
<1>4. at[i] >= start + by + 1 /\ at[i] <= end
  BY <1>2 DEF Within
<1>5. \A k, l \in DOMAIN file : k < l => at[k] - at[l] <= by
  BY <1>2 DEF DisorderedBy
<1> HIDE DEF at, start, end
<1>6. i >= begin
  <2>1. CASE begin = 1
    BY <2>1, <1>2
  <2>2. CASE begin # 1
    <3>1. begin \in DOMAIN file /\ at[begin] <= start
      BY <2>2, <1>1, <1>2, BeginIsEarly
    <3> HIDE DEF begin
    <3>2. ~(i < begin)
      BY <3>1, <1>5, <1>4, <1>3, <1>2, <1>1
    <3> QED
      BY <3>1, <3>2, <1>2
  <2> QED
    BY <2>1, <2>2
<1>7. \A j \in Beyond(begin, end) : i < j
  <2> SUFFICES ASSUME NEW j \in Beyond(begin, end) PROVE i < j
    OBVIOUS
  <2>1. j \in DOMAIN file /\ at[j] > end + 1
    BY <1>2, <1>3 DEF Beyond
  <2>2. j # i /\ ~(j < i)
    BY <2>1, <1>5, <1>4, <1>3, <1>2, <1>1
  <2> QED
    BY <2>1, <2>2, <1>2
<1>8. Within(i, start, end)
  BY <1>1, <1>2, <1>3, <1>4 DEF Within
<1>9. i \in Scanned(begin, end) /\ Shown(i)
  BY <1>6, <1>7 DEF Scanned, Shown
<1>10. ~Refused(RangeOf(file), range)
  BY DEF Graph, Answer
<1> QED
  BY <1>8, <1>9, <1>10 DEF Graph, Answer, start, end

-----------------------------------------------------------------------------
(* The invariant                                                           *)

Typed == /\ file \in Seq(Samples)
         /\ mtime \in Nat
         /\ heatmap_mtimes \in Nat /\ heatmap_mtimes <= mtime
         /\ stack_mtimes \in Nat /\ stack_mtimes <= mtime

IInv == Typed /\ CachesCurrent /\ GraphComplete

\* There is no file and no answer in the beginning.
LEMMA InitIInv == Init => IInv
  BY DEF Init, IInv, Typed, CachesCurrent, GraphComplete, NoAnswer, Answer

\* A file that is written is newer than all that is kept.
LEMMA WriteIInv == IInv /\ Write => IInv'
<1> SUFFICES ASSUME IInv, Write PROVE IInv'
  OBVIOUS
<1>1. file' \in Seq(Samples)
  BY FilesAssumption DEF Write
<1>2. Typed'
  BY <1>1 DEF Write, IInv, Typed, heatmap, stack
<1>3. CachesCurrent'
  BY DEF Write, IInv, Typed, CachesCurrent, heatmap, stack
<1>4. GraphComplete'
  BY DEF Write, GraphComplete, NoAnswer, Answer
<1> QED
  BY <1>2, <1>3, <1>4 DEF IInv

\* Without a file there is nothing to be current.
LEMMA RemoveIInv == IInv /\ Remove => IInv'
  BY DEF Remove, IInv, Typed, CachesCurrent, GraphComplete, NoAnswer, Answer,
         heatmap, stack

\* The heat map keeps what it reads, with the time of modification.
LEMMA GetHeatmapIInv == IInv /\ GetHeatmap => IInv'
<1> SUFFICES ASSUME IInv, GetHeatmap PROVE IInv'
  OBVIOUS
<1>1. reply'.kind # "stack"
  BY DEF GetHeatmap, Answer
<1>2. GraphComplete'
  BY <1>1 DEF GraphComplete
<1>3. CASE ~exists
  BY <1>2, <1>3 DEF GetHeatmap, IInv, Typed, CachesCurrent, perfStack, heatmap, stack
<1>4. CASE exists
  <2>1. heatmap_mtimes' = mtime /\ UNCHANGED <<perfStack, stack>>
    BY <1>4 DEF GetHeatmap
  <2>2. heatmap_cache' = Offsets(file)
    BY <1>4 DEF GetHeatmap, Kept, IInv, CachesCurrent
  <2>3. CachesCurrent'
    BY <2>1, <2>2 DEF IInv, CachesCurrent, perfStack, stack
  <2> QED
    BY <1>2, <2>1, <2>3 DEF IInv, Typed, perfStack, stack
<1> QED
  BY <1>3, <1>4

\* An answer that is a graph of the file as it is has the samples of its range.
LEMMA GraphAnswered ==
  ASSUME IInv, UNCHANGED file, ~NoRange(file), NEW range \in Ranges \cup {Whole},
         reply' = Graph(RangeOf(file), IndexOf(file), range)
  PROVE  GraphComplete'
<1>1. reply'.kind = "stack" => reply'.range = range
  BY DEF Graph, Answer
<1>2. file \in Seq(Samples)
  BY DEF IInv, Typed
<1>3. ASSUME reply'.kind = "stack", NEW i \in DOMAIN file, NEW by \in 0..OVERSCAN,
             DisorderedBy(by),
             Within(i, Start(RangeOf(file), range) + by + 1, End(RangeOf(file), range)),
             ~file[i].idle
      PROVE  i \in reply'.got
  BY <1>2, <1>3, GraphHasSamples
<1> QED
  BY <1>1, <1>3 DEF GraphComplete, DisorderedBy, Within

\* The flame graph: the times and the index are kept, or both are of the file that
\* is read, or the times are missing and the time of modification is not noted.
LEMMA GetStackIInv ==
  ASSUME NEW range \in Ranges \cup {Whole}
  PROVE  IInv /\ GetStack(range) => IInv'
<1> SUFFICES ASSUME IInv, GetStack(range) PROVE IInv'
  OBVIOUS
<1>1. CASE ~exists
  <2>1. GraphComplete'
    BY <1>1 DEF GetStack, GraphComplete, Answer
  <2> QED
    BY <2>1, <1>1 DEF GetStack, IInv, Typed, CachesCurrent, perfStack, heatmap, stack
<1>2. CASE exists /\ Kept(stack_mtimes)
  <2>1. /\ UNCHANGED <<perfStack, heatmap, stack>>
        /\ reply' = Graph(stack_times, stack_index, range)
    BY <1>2 DEF GetStack
  <2>2. stack_times = RangeOf(file) /\ stack_index = IndexOf(file) /\ ~NoRange(file)
    BY <1>2 DEF Kept, IInv, CachesCurrent
  <2>3. GraphComplete'
    BY <2>1, <2>2, GraphAnswered DEF perfStack
  <2> QED
    BY <2>1, <2>3 DEF IInv, Typed, CachesCurrent, perfStack, heatmap, stack
<1>3. CASE exists /\ ~Kept(stack_mtimes) /\ NoRange(file)
  <2>1. /\ UNCHANGED <<perfStack, heatmap, stack_times, stack_mtimes>>
        /\ reply' = Answer("raised", range, {})
    BY <1>3 DEF GetStack, Raises
  <2>2. GraphComplete'
    BY <2>1 DEF GraphComplete, Answer
  <2> QED
    BY <2>1, <2>2, <1>3 DEF IInv, Typed, CachesCurrent, Kept, perfStack, heatmap
<1>4. CASE exists /\ ~Kept(stack_mtimes) /\ ~NoRange(file)
  <2>1. /\ UNCHANGED <<perfStack, heatmap>>
        /\ stack_times' = RangeOf(file) /\ stack_index' = IndexOf(file)
        /\ stack_mtimes' = mtime
        /\ reply' = Graph(RangeOf(file), IndexOf(file), range)
    BY <1>4 DEF GetStack
  <2>2. GraphComplete'
    BY <2>1, <1>4, GraphAnswered DEF perfStack
  <2> QED
    BY <2>1, <2>2, <1>4 DEF IInv, Typed, CachesCurrent, perfStack, heatmap
<1> QED
  BY <1>1, <1>2, <1>3, <1>4

\* The inductive invariant of perf.stack and what is kept of it.
THEOREM Invariance == Spec => []IInv
<1>1. IInv /\ [Next]_vars => IInv'
  <2> SUFFICES ASSUME IInv, [Next]_vars PROVE IInv'
    OBVIOUS
  <2>1. CASE UNCHANGED vars
    BY <2>1 DEF vars, perfStack, heatmap, stack, IInv, Typed, CachesCurrent,
                GraphComplete, DisorderedBy, Within
  <2> QED
    BY <2>1, WriteIInv, RemoveIInv, GetHeatmapIInv, GetStackIInv DEF Next
<1> QED
  BY <1>1, InitIInv, PTL DEF Spec

\* What heatmap.py and stack.py keep is never used for another file.
THEOREM KeptIsCurrent == Spec => []CachesCurrent
<1>1. IInv => CachesCurrent
  BY DEF IInv
<1> QED
  BY <1>1, Invariance, PTL

\* A flame graph has every sample of its range, for all files, all places of the
\* entries of the index and all ranges.
THEOREM GraphsComplete == Spec => []GraphComplete
<1>1. IInv => GraphComplete
  BY DEF IInv
<1> QED
  BY <1>1, Invariance, PTL
-----------------------------------------------------------------------------
(* Files in order                                                          *)

\* The full seconds before and after a time, in tenths.
LEMMA Quotient ==
  ASSUME NEW t \in Nat
  PROVE  /\ t \div 10 \in Nat
         /\ 10 * (t \div 10) <= t /\ t < 10 * (t \div 10) + 10
         /\ t % 10 # 0 => 10 * (t \div 10) < t
OBVIOUS

\* Which full second comes next, and what is before a full second.
LEMMA NextSecond ==
  ASSUME NEW z \in Nat, NEW q \in Nat, 10 * q < z, z < 10 * q + 10
  PROVE  (z + 9) \div 10 = q + 1
OBVIOUS

LEMMA EarlierSecond ==
  ASSUME NEW n \in Nat, NEW y \in Nat, y < 10 * n
  PROVE  y \div 10 < n
OBVIOUS

\* The columns of the heat map: a time that is no later than one which is not at
\* a full second is in a column there is, and the columns are the range.
LEMMA ColumnsSuffice ==
  ASSUME NEW a \in Nat, NEW x \in Nat, NEW z \in Nat, a <= x, x <= z, z % SECOND # 0
  PROVE  /\ (x - Floor(a)) \div SECOND < (Ceil(z) - Floor(a)) \div SECOND
         /\ SECOND * ((Ceil(z) - Floor(a)) \div SECOND) = Ceil(z) - Floor(a)
         /\ Floor(a) \in Nat /\ Ceil(z) \in Nat /\ Floor(a) <= Ceil(z)
<1> DEFINE p == a \div 10
           q == z \div 10
<1>1. p \in Nat /\ 10 * p <= a /\ a < 10 * p + 10
  BY Quotient
<1>2. q \in Nat /\ 10 * q < z /\ z < 10 * q + 10
  BY Quotient DEF SECOND
<1>3. Floor(a) = 10 * p
  BY DEF Floor, SECOND
<1> HIDE DEF q, p
<1>4. (z + 9) \div 10 = q + 1
  BY <1>2, NextSecond
<1>5. Floor(a) = 10 * p /\ Ceil(z) = 10 * (q + 1)
  <2>1. z + 10 - 1 = z + 9
    OBVIOUS
  <2> QED
    BY <2>1, <1>3, <1>4 DEF Ceil, SECOND
<1>6. x - 10 * p \in Nat /\ q + 1 - p \in Nat /\ x - 10 * p < 10 * (q + 1 - p)
  BY <1>1, <1>2
<1>7. 10 * (q + 1) - 10 * p = 10 * (q + 1 - p) /\ 10 * p <= 10 * (q + 1)
  BY <1>1, <1>2, <1>6
<1>8. (10 * (q + 1 - p)) \div 10 = q + 1 - p
  BY <1>6
<1>9. (x - 10 * p) \div 10 < q + 1 - p
  BY <1>6, EarlierSecond
<1>10. Floor(a) \in Nat /\ Ceil(z) \in Nat
  BY <1>1, <1>2, <1>3, <1>5
<1> QED
  BY <1>3, <1>5, <1>7, <1>8, <1>9, <1>10 DEF SECOND

\* The first time of a file in order is the least, the last one the greatest.
LEMMA InOrder ==
  ASSUME NEW s \in Seq(Samples), Len(s) > 1,
         \A i, j \in DOMAIN s : i < j => s[i].at - s[j].at <= 0
  PROVE  /\ Least(Times(s, DOMAIN s)) = s[1].at
         /\ SetEnd(s) # {} /\ Greatest(Times(s, SetEnd(s))) = s[Len(s)].at
         /\ s[1].at \in Nat /\ s[Len(s)].at \in Nat
         /\ \A i \in DOMAIN s : /\ s[i].at \in Nat
                                /\ s[1].at <= s[i].at /\ s[i].at <= s[Len(s)].at
<1> DEFINE at == [i \in DOMAIN s |-> s[i].at]
           n == Len(s)
           D == Times(s, DOMAIN s)
           E == Times(s, SetEnd(s))
<1>1. /\ n \in Nat /\ n > 1 /\ DOMAIN s = 1..n
      /\ \A i \in 1..n : s[i].at = at[i] /\ at[i] \in Nat
  BY TimeType
<1>2. \A i, j \in 1..n : i < j => at[i] - at[j] <= 0
  BY <1>1
<1>3. D = {at[i] : i \in 1..n} /\ E = {at[i] : i \in SetEnd(s)}
  <2>1. SetEnd(s) \subseteq DOMAIN s
    BY DEF SetEnd
  <2>2. D = {s[i].at : i \in 1..n} /\ E = {s[i].at : i \in SetEnd(s)}
    BY <1>1 DEF Times
  <2> HIDE DEF at, D, E
  <2>3. \A i \in 1..n : s[i].at = at[i]
    BY <1>1
  <2> QED
    BY <2>1, <2>2, <2>3, <1>1
<1>4. /\ SetEnd(s) \subseteq 1..n
      /\ \A i, j \in 1..n : j < i /\ at[j] <= at[i] => i \in SetEnd(s)
  BY <1>1 DEF SetEnd
<1> HIDE DEF at, n, D, E
<1>5. 1 \in 1..n /\ n \in 1..n
  BY <1>1
<1>6. \A i \in 1..n : at[1] <= at[i] /\ at[i] <= at[n]
  <2> SUFFICES ASSUME NEW i \in 1..n PROVE at[1] <= at[i] /\ at[i] <= at[n]
    OBVIOUS
  <2>1. i \in Nat /\ 1 <= i /\ i <= n /\ at[i] \in Nat /\ at[1] \in Nat /\ at[n] \in Nat
    BY <1>1, <1>5
  <2>2. at[1] <= at[i]
    BY <2>1, <1>1, <1>2, <1>5
  <2>3. at[i] <= at[n]
    BY <2>1, <1>1, <1>2, <1>5
  <2> QED
    BY <2>2, <2>3
<1>7. n \in SetEnd(s)
  <2>1. at[1] <= at[n] /\ 1 < n
    BY <1>1, <1>5, <1>6
  <2> QED
    BY <2>1, <1>4, <1>5
<1>8. D \in SUBSET Nat /\ E \in SUBSET Nat
  BY <1>1, <1>3, <1>4
<1>9. at[1] \in D /\ \A u \in D : at[1] <= u
  BY <1>3, <1>5, <1>6
<1>10. at[n] \in E /\ \A u \in E : u <= at[n]
  BY <1>3, <1>4, <1>6, <1>7
<1>11. Least(D) = at[1]
  <2>1. Least(D) \in D /\ Least(D) <= at[1]
    BY <1>8, <1>9, LeastIsLeast
  <2>2. at[1] \in Nat /\ Least(D) \in Nat /\ at[1] <= Least(D)
    BY <2>1, <1>8, <1>9
  <2> QED
    BY <2>1, <2>2
<1>12. Greatest(E) = at[n]
  <2>1. at[n] \in Nat
    BY <1>1, <1>5
  <2>2. Greatest(E) \in E /\ at[n] <= Greatest(E)
    BY <2>1, <1>8, <1>10, GreatestIsGreatest
  <2>3. Greatest(E) \in Nat /\ Greatest(E) <= at[n]
    BY <2>2, <1>8, <1>10
  <2> QED
    BY <2>1, <2>2, <2>3
<1>13. /\ Least(D) = s[1].at /\ Greatest(E) = s[n].at /\ s[1].at \in Nat /\ s[n].at \in Nat
       /\ \A i \in DOMAIN s : s[i].at \in Nat /\ s[1].at <= s[i].at /\ s[i].at <= s[n].at
  BY <1>1, <1>5, <1>6, <1>11, <1>12
<1> QED
  BY <1>7, <1>13 DEF D, E, n

\* A file of which there ought to be a heat map and flame graphs.
Good == Len(file) > 1 /\ DisorderedBy(0) /\ file[Len(file)].at % SECOND # 0

\* What is made of such a file.
LEMMA GoodFile ==
  ASSUME file \in Seq(Samples), Good
  PROVE  /\ ~NoHeatmap(Offsets(file)) /\ ~NoRange(file)
         /\ RangeOf(file).start \in Nat /\ RangeOf(file).end \in Nat
         /\ RangeOf(file).start <= RangeOf(file).end
         /\ SECOND * Columns(Offsets(file)) = RangeOf(file).end - RangeOf(file).start
<1> DEFINE a == file[1].at
           z == file[Len(file)].at
           o == Offsets(file)
<1>1. \A i, j \in DOMAIN file : i < j => file[i].at - file[j].at <= 0
  BY DEF Good, DisorderedBy
<1>2. /\ Least(Times(file, DOMAIN file)) = a
      /\ SetEnd(file) # {} /\ Greatest(Times(file, SetEnd(file))) = z
      /\ a \in Nat /\ z \in Nat
      /\ \A i \in DOMAIN file : file[i].at \in Nat /\ a <= file[i].at /\ file[i].at <= z
  BY <1>1, InOrder DEF Good
<1>3. o.start = a /\ o.end = z /\ o.offsets \subseteq DOMAIN file
  <2>1. file # <<>>
    BY DEF Good
  <2> QED
    BY <2>1, <1>2 DEF Offsets
<1>4. RangeOf(file).start = Floor(a) /\ RangeOf(file).end = Ceil(z)
  BY <1>2 DEF RangeOf
<1>5. z % SECOND # 0 /\ 1 \in DOMAIN file
  BY DEF Good
<1> HIDE DEF a, z, o
<1>6. \A i \in DOMAIN file : Column(o, i) < Columns(o)
  BY <1>2, <1>3, <1>5, ColumnsSuffice DEF Column, Columns
<1>7. /\ SECOND * Columns(o) = Ceil(z) - Floor(a)
      /\ Floor(a) \in Nat /\ Ceil(z) \in Nat /\ Floor(a) <= Ceil(z)
  <2>1. a \in Nat /\ z \in Nat /\ a <= file[1].at /\ file[1].at <= z /\ file[1].at \in Nat
    BY <1>2, <1>5
  <2>2. /\ SECOND * ((Ceil(z) - Floor(a)) \div SECOND) = Ceil(z) - Floor(a)
        /\ Floor(a) \in Nat /\ Ceil(z) \in Nat /\ Floor(a) <= Ceil(z)
    BY <1>5, <2>1, ColumnsSuffice
  <2>3. Columns(o) = (Ceil(z) - Floor(a)) \div SECOND
    BY <1>3, Zenon DEF Columns
  <2> QED
    BY <2>2, <2>3, Zenon
<1>8. \A i \in DOMAIN file : Column(o, i) \in Int
  BY <1>2, <1>3, <1>7 DEF Column, SECOND
<1>9. Columns(o) \in Int
  BY <1>3, <1>7 DEF Columns, SECOND
<1>10. ~NoHeatmap(o)
  <2>1. o.start # Never
    BY <1>2, <1>3 DEF Never
  <2>2. \A i \in o.offsets : ~(Column(o, i) >= Columns(o))
    BY <1>3, <1>6, <1>8, <1>9
  <2> QED
    BY <2>1, <2>2 DEF NoHeatmap
<1> QED
  BY <1>2, <1>4, <1>7, <1>10 DEF o, NoRange

\* A graph is refused of a range only that is none, or goes beyond the columns.
LEMMA GoodGraph ==
  ASSUME file \in Seq(Samples), Good, NEW range \in Ranges \cup {Whole}
  PROVE  LET graph == Graph(RangeOf(file), IndexOf(file), range) IN
         /\ graph.kind # "raised" /\ graph.range = range
         /\ graph.kind = "refused" => \/ range[1] > range[2]
                                      \/ range[2] > SECOND * Columns(Offsets(file))
<1> DEFINE times == RangeOf(file)
<1>1. /\ times.start \in Nat /\ times.end \in Nat /\ times.start <= times.end
      /\ SECOND * Columns(Offsets(file)) = times.end - times.start
  BY GoodFile
<1> HIDE DEF times
<1>2. Refused(times, range) => \/ range[1] > range[2]
                               \/ range[2] > SECOND * Columns(Offsets(file))
  <2>1. CASE range = Whole
    BY <1>1, <2>1 DEF Refused, Start, End
  <2>2. CASE range # Whole
    <3>1. range[1] \in Nat /\ range[2] \in Nat
      BY <2>2, RangesAssumption
    <3>2. Start(times, range) = times.start + range[1] /\ End(times, range) = times.start + range[2]
      BY <2>2 DEF Start, End
    <3> QED
      BY <1>1, <3>1, <3>2 DEF Refused
  <2> QED
    BY <2>1, <2>2
<1> QED
  BY <1>2 DEF Graph, Answer, times

\* No request fails of such a file.
LEMMA NeverFailsStep ==
  ASSUME IInv, NeverFails, [Next]_vars
  PROVE  NeverFails'
<1>1. CASE Write \/ Remove
  BY <1>1 DEF Write, Remove, NeverFails, NoAnswer, Answer
<1>2. CASE UNCHANGED vars
  BY <1>2 DEF vars, perfStack, NeverFails, DisorderedBy, Columns, Offsets
<1>3. ASSUME UNCHANGED perfStack,
             Good => /\ reply'.kind # "raised"
                     /\ reply'.kind = "refused" =>
                          \/ reply'.range[1] > reply'.range[2]
                          \/ reply'.range[2] > SECOND * Columns(Offsets(file))
      PROVE  NeverFails'
  BY <1>3 DEF perfStack, NeverFails, Good, DisorderedBy, Columns, Offsets
<1>4. file \in Seq(Samples)
  BY DEF IInv, Typed
<1>5. CASE GetHeatmap
  <2>1. UNCHANGED perfStack /\ reply'.kind # "refused"
    BY <1>5 DEF GetHeatmap, Answer
  <2>2. Good => reply'.kind # "raised"
    <3>1. CASE ~exists
      BY <3>1, <1>5 DEF GetHeatmap, Answer
    <3>2. CASE exists
      <4>1. reply'.kind = (IF NoHeatmap(Offsets(file)) THEN "raised" ELSE "heatmap")
        BY <3>2, <1>5 DEF GetHeatmap, Answer, Kept, IInv, CachesCurrent
      <4> QED
        BY <4>1, <1>4, GoodFile
    <3> QED
      BY <3>1, <3>2
  <2> QED
    BY <2>1, <2>2, <1>3
<1>6. ASSUME NEW range \in Ranges \cup {Whole}, GetStack(range)
      PROVE  NeverFails'
  <2>1. UNCHANGED perfStack
    BY <1>6 DEF GetStack
  <2>2. CASE ~exists
    BY <2>1, <2>2, <1>3, <1>6 DEF GetStack, Answer
  <2>3. CASE exists /\ Good
    <3>1. ~NoRange(file)
      BY <2>3, <1>4, GoodFile
    <3>2. reply' = Graph(RangeOf(file), IndexOf(file), range)
      BY <2>3, <3>1, <1>6 DEF GetStack, Kept, IInv, CachesCurrent
    <3> QED
      BY <2>1, <2>3, <3>2, <1>3, <1>4, GoodGraph
  <2> QED
    BY <2>1, <2>2, <2>3, <1>3
<1> QED
  BY <1>1, <1>2, <1>5, <1>6 DEF Next

\* There is a heat map of every file in order whose last sample is not at a full
\* second, and a flame graph of each part of it.
THEOREM OrderedNeverFails == Spec => []NeverFails
<1>1. Init => NeverFails
  BY DEF Init, NeverFails
<1>2. IInv /\ NeverFails /\ [Next]_vars => NeverFails'
  BY NeverFailsStep
<1> QED
  BY <1>1, <1>2, Invariance, PTL DEF Spec
=============================================================================
