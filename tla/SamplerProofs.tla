--------------------------- MODULE SamplerProofs ----------------------------
(* Theorems about the sampling of a device, for all processes, sections and *)
(* lengths of the rings; and about one of its rings under a page.           *)
EXTENDS Sampler, SampleRing, FiniteSetTheorems, SequenceTheorems, TLAPS

(* ls /proc lists pids.                                                     *)
LEMMA ListedPids == Listed \in Seq(Pids)
<1> DEFINE S == {p \in Pids : Present(p)}
<1>1. IsFiniteSet(S)
  BY PidsAssumption, FS_Subset
<1>2. Cardinality(S) \in Nat /\ ExistsBijection(1..Cardinality(S), S)
  BY <1>1, FS_CardinalityType
<1>3. PICK f \in [1..Cardinality(S) -> S] : IsInjective(f)
  BY <1>2 DEF ExistsBijection, Bijection, Injection
<1>4. SetToSeq(S) \in [1..Cardinality(S) -> S]
  BY <1>3 DEF SetToSeq
<1>5. SetToSeq(S) \in Seq(S)
  BY <1>2, <1>4
<1> QED
  BY <1>5 DEF Listed

(* A thread that scans works on a section.                                  *)
LEMMA SectionName ==
  ASSUME at \in [Threads -> 1..(Len(Sections) + 1)], NEW t \in Threads, Scanning(t)
  PROVE  Section(t) \in Names /\ at[t] + 1 \in 1..(Len(Sections) + 1)
BY SectionsAssumption DEF Scanning, Section

(* A sample begins with nothing known of any process.                       *)
LEMMA BlankSample ==
  ASSUME NEW time \in 1..Period
  PROVE  /\ Blank(time) \in Samples /\ Blank(time).time = time
         /\ Blank(time).total /\ \A p \in Pids : Blank(time).has[p] = "none"
<1>1. [p \in Pids |-> "none"] \in [Pids -> {"none", "stat", "sizes"}]
  OBVIOUS
<1> QED
  BY <1>1, BoundsAssumption DEF Blank, Samples

(* RecordDate.add keeps the newest LEN samples, and in order each with the   *)
(* one before it, if the new one goes with the newest.                       *)
Chained(r) == \A i \in 2..Len(r) : r[i].base = r[i - 1].time

LEMMA AddedChained ==
  ASSUME NEW r \in Seq(Samples), NEW sample \in Samples, Len(r) <= LEN
  PROVE  /\ Added(r, sample) \in Seq(Samples) /\ Added(r, sample) # <<>>
         /\ Len(Added(r, sample)) <= LEN
         /\ Last(Added(r, sample)) = sample
         /\ Chained(r) /\ (r # <<>> => sample.base = Last(r).time) => Chained(Added(r, sample))
<1> USE BoundsAssumption
<1> DEFINE kept == IF Len(r) >= LEN THEN Tail(r) ELSE r
<1>1. /\ kept \in Seq(Samples) /\ Len(kept) < LEN
      /\ kept # <<>> => r # <<>> /\ kept[Len(kept)] = r[Len(r)]
      /\ Chained(r) => Chained(kept)
  <2>1. CASE Len(r) >= LEN
    <3>1. r # <<>> /\ Len(r) \in Nat \ {0}
      BY <2>1
    <3>2. kept = Tail(r)
      BY <2>1
    <3>3. /\ kept \in Seq(Samples) /\ Len(kept) = Len(r) - 1
          /\ \A i \in 1..Len(kept) : kept[i] = r[i + 1]
      BY <3>1, <3>2
    <3>4. kept # <<>> => kept[Len(kept)] = r[Len(r)]
      BY <3>1, <3>3
    <3>5. Chained(r) => Chained(kept)
      BY <3>1, <3>3 DEF Chained
    <3> QED
      BY <2>1, <3>1, <3>3, <3>4, <3>5
  <2>2. CASE Len(r) < LEN
    BY <2>2 DEF Chained
  <2> QED
    BY <2>1, <2>2
<1>2. Added(r, sample) = Append(kept, sample)
  BY DEF Added
<1> HIDE DEF kept
<1>3. /\ Added(r, sample) \in Seq(Samples) /\ Len(Added(r, sample)) = Len(kept) + 1
      /\ \A i \in 1..Len(kept) : Added(r, sample)[i] = kept[i]
      /\ Added(r, sample)[Len(kept) + 1] = sample
  BY <1>1, <1>2
<1>4. ASSUME Chained(r), r # <<>> => sample.base = Last(r).time, NEW i \in 2..Len(Added(r, sample))
      PROVE  Added(r, sample)[i].base = Added(r, sample)[i - 1].time
  <2>1. CASE i <= Len(kept)
    <3>1. i \in 2..Len(kept) /\ i - 1 \in 1..Len(kept)
      BY <1>1, <1>4, <2>1
    <3>2. kept[i].base = kept[i - 1].time
      BY <1>1, <1>4, <3>1 DEF Chained
    <3> QED
      BY <1>3, <3>1, <3>2
  <2>2. CASE i = Len(kept) + 1
    <3>1. i - 1 = Len(kept) /\ Len(kept) \in 1..Len(kept) /\ kept # <<>>
      BY <1>1, <1>4, <2>2
    <3> QED
      BY <1>1, <1>3, <1>4, <2>2, <3>1 DEF Last
  <2> QED
    BY <1>1, <1>3, <2>1, <2>2
<1> QED
  BY <1>1, <1>3, <1>4 DEF Last, Chained

-----------------------------------------------------------------------------
(* What a step does to the local variables of the threads                    *)

\* The variables of a scan keep to their values.
ScanTyped == /\ stage \in [Threads -> {"idle", "first", "start"}]
             /\ at \in [Threads -> 1..(Len(Sections) + 1)]
             /\ phase \in [Threads -> {"ask", "stat", "status", "diff", "add"}]
             /\ todo \in [Threads -> Seq(Pids)]
             /\ new \in [Threads -> Samples]

\* No other thread is touched.
Alone(t) == \A u \in Threads \ {t} :
              /\ stage'[u] = stage[u] /\ at'[u] = at[u] /\ phase'[u] = phase[u]
              /\ todo'[u] = todo[u] /\ new'[u] = new[u]

\* The thread begins something: its sample has nothing yet.
Anew(t) == /\ phase'[t] = "ask" /\ todo'[t] = <<>>
           /\ new'[t].total /\ \A p \in Pids : new'[t].has[p] = "none"

LEMMA SectionsLength == Len(Sections) \in Nat
BY SectionsAssumption

LEMMA EnterEffect ==
  ASSUME ScanTyped, now \in 1..Period, NEW t \in Threads, NEW how \in {"first", "start"},
         Enter(t, how)
  PROVE  ScanTyped' /\ Alone(t) /\ Anew(t) /\ stage' = [stage EXCEPT ![t] = how] /\ now' \in 1..Period
<1> USE BoundsAssumption, SectionsLength DEF ScanTyped, Enter
<1>1. now' \in 1..Period
  OBVIOUS
<1>2. Blank(now') \in Samples /\ Blank(now').total /\ \A p \in Pids : Blank(now').has[p] = "none"
  BY <1>1, BlankSample
<1>3. new' = [new EXCEPT ![t] = Blank(now')] /\ new'[t] = Blank(now') /\ new' \in [Threads -> Samples]
  BY <1>2
<1>4. ScanTyped'
  BY <1>3
<1>5. Alone(t)
  BY <1>3 DEF Alone
<1> QED
  BY <1>1, <1>2, <1>3, <1>4, <1>5 DEF Anew

LEMMA NextSectionEffect ==
  ASSUME ScanTyped, NEW t \in Threads, Scanning(t), NextSection(t)
  PROVE  ScanTyped' /\ Alone(t) /\ Anew(t) /\ stage' = stage
<1> USE DEF ScanTyped, NextSection
<1>1. /\ Blank(new[t].time) \in Samples /\ Blank(new[t].time).total
      /\ \A p \in Pids : Blank(new[t].time).has[p] = "none"
  BY BlankSample DEF Samples
<1>2. /\ new' = [new EXCEPT ![t] = Blank(new[t].time)] /\ new'[t] = Blank(new[t].time)
      /\ new' \in [Threads -> Samples]
  BY <1>1
<1>3. at[t] + 1 \in 1..(Len(Sections) + 1)
  BY SectionName
<1>4. ScanTyped'
  BY <1>2, <1>3
<1>5. Alone(t)
  BY <1>2 DEF Alone
<1> QED
  BY <1>1, <1>2, <1>4, <1>5 DEF Anew

LEMMA LeaveEffect ==
  ASSUME ScanTyped, NEW t \in Threads, Leave(t)
  PROVE  ScanTyped' /\ Alone(t) /\ Anew(t) /\ stage' = [stage EXCEPT ![t] = "idle"]
<1> USE BoundsAssumption, SectionsLength DEF ScanTyped, Leave
<1>1. Blank(1) \in Samples /\ Blank(1).total /\ \A p \in Pids : Blank(1).has[p] = "none"
  BY BlankSample
<1>2. new' = [new EXCEPT ![t] = Blank(1)] /\ new'[t] = Blank(1) /\ new' \in [Threads -> Samples]
  BY <1>1
<1>3. ScanTyped'
  BY <1>2
<1>4. Alone(t)
  BY <1>2 DEF Alone
<1> QED
  BY <1>1, <1>2, <1>3, <1>4 DEF Anew

\* What IInv says of samples.
OfSamples == /\ Compared /\ DiffedInOrder /\ InHand
             /\ NewSettled /\ LastSettled /\ SizesKept

(* A thread that begins something has nothing in hand.                        *)
LEMMA AnewThread ==
  ASSUME TypeOK, OfSamples, NEW t \in Threads, Alone(t), Anew(t), UNCHANGED device,
         quiet' => quiet
  PROVE  InHand' /\ NewSettled'
<1> USE DEF OfSamples
<1>1. InHand'
  BY DEF InHand, Alone, Anew
<1>2. NewSettled'
  <2> SUFFICES ASSUME quiet, NEW u \in Threads
               PROVE  /\ new'[u].total
                      /\ \A p \in Pids :
                           Settled(new[u], p)' \/ (phase'[u] = "status" /\ p = Head(todo'[u]))
    BY DEF NewSettled
  <2>1. CASE u = t
    BY <2>1 DEF Anew, Settled
  <2>2. CASE u # t
    BY <2>2 DEF Alone, Settled, NewSettled
  <2> QED
    BY <2>1, <2>2
<1> QED
  BY <1>1, <1>2

(* A thread that begins something spoils nothing that is said of samples.     *)
LEMMA AnewSamples ==
  ASSUME TypeOK, OfSamples, NEW t \in Threads, Alone(t), Anew(t), UNCHANGED <<ring, device>>,
         quiet' => quiet
  PROVE  OfSamples'
<1> USE DEF OfSamples
<1>1. \A u \in Threads : u # t => /\ Scanning(u)' = Scanning(u) /\ Section(u)' = Section(u)
  BY DEF Alone, Scanning, Section
<1>2. Compared'
  BY <1>1 DEF Compared, Alone, Anew
<1>3. DiffedInOrder'
  BY DEF DiffedInOrder
<1>4. InHand' /\ NewSettled'
  BY AnewThread
<1>5. LastSettled'
  BY DEF LastSettled, Newest, Settled
<1>6. SizesKept'
  <2> SUFFICES ASSUME quiet, ring["processes"] # <<>>, NEW u \in Threads, NEW p \in Pids,
                      stage'[u] # "idle", new'[u].has[p] = "sizes"
               PROVE  Newest.has[p] # "stat"
    BY DEF SizesKept, Newest
  <2>1. CASE u = t
    BY <2>1 DEF Anew
  <2>2. CASE u # t
    BY <2>2 DEF Alone, SizesKept
  <2> QED
    BY <2>1, <2>2
<1> QED
  BY <1>2, <1>3, <1>4, <1>5, <1>6

-----------------------------------------------------------------------------
(* The steps of a scan                                                       *)

\* The variables that a call leaves alone, or sets without looking at samples.
RestTyped == /\ known \in BOOLEAN /\ connect \in BOOLEAN /\ timer \in BOOLEAN
             /\ raised \in BOOLEAN /\ quiet \in BOOLEAN
             /\ link \in {"up", "down", "reset"}
             /\ device \in [Pids -> {"absent", "kernel", "user", "zombie", "gone"}]
             /\ now \in 1..Period

RingTyped == /\ ring \in [Names -> Seq(Samples)]
             /\ \A s \in Names : Len(ring[s]) <= LEN

LEMMA TypeParts == TypeOK <=> RestTyped /\ ScanTyped /\ RingTyped
BY DEF TypeOK, RestTyped, ScanTyped, RingTyped

LEMMA IInvParts ==
  IInv <=> RestTyped /\ ScanTyped /\ RingTyped /\ OneChain /\ OfSamples /\ Held /\ NeverRaises
BY TypeParts DEF IInv, OfSamples

LEMMA IInvNext ==
  RestTyped' /\ ScanTyped' /\ RingTyped' /\ OneChain' /\ OfSamples' /\ Held' /\ NeverRaises'
    => IInv'
BY DEF IInv, OfSamples, TypeOK, RestTyped, ScanTyped, RingTyped

(* A call of a scan moves neither the chain nor the device, and while nothing *)
(* is lost it is answered.                                                   *)
LEMMA CallEffect ==
  ASSUME IInv, NEW t \in Threads, stage[t] # "idle", Called, Still
  PROVE  /\ RestTyped' /\ Held' /\ NeverRaises'
         /\ quiet => Answered
         /\ stage' = stage => OneChain'
<1> USE IInvParts
<1>1. known /\ connect' \in BOOLEAN
  BY DEF OneChain, Called, RestTyped
<1>2. quiet => Answered
  BY <1>1 DEF Held, Answered
<1>3. Held'
  BY <1>1, <1>2 DEF Held, Answered, Called, Still
<1>4. RestTyped'
  BY <1>1 DEF RestTyped, Still
<1> QED
  BY <1>2, <1>3, <1>4 DEF NeverRaises, OneChain, Still

(* update(): with an answer the sample is compared next, else left out.       *)
LEMMA UpdateIInv == ASSUME IInv, NEW t \in Threads, Update(t) PROVE IInv'
<1> USE IInvParts, IInvNext
<1>1. /\ Scanning(t) /\ stage[t] # "idle" /\ Called /\ Still /\ ring' = ring /\ UNCHANGED <<device, quiet>>
  BY DEF Update, Scanning, Still
<1>2. RestTyped' /\ Held' /\ NeverRaises' /\ (stage' = stage => OneChain')
  BY <1>1, CallEffect
<1>3. RingTyped'
  BY <1>1 DEF RingTyped
<1>4. CASE Answered
  <2>1. /\ phase' = [phase EXCEPT ![t] = "diff"] /\ UNCHANGED <<stage, at, todo, new>>
    BY <1>4 DEF Update, Go
  <2>2. ScanTyped'
    BY <2>1 DEF ScanTyped
  <2>3. OfSamples'
    <3> USE <1>1, <2>1 DEF OfSamples, ScanTyped
    <3>0. phase[t] = "ask"
      BY DEF Update
    <3>1. Compared'
      BY DEF Compared, Scanning, Section
    <3>2. DiffedInOrder' /\ LastSettled' /\ SizesKept'
      BY DEF DiffedInOrder, LastSettled, SizesKept, Newest, Settled
    <3>3. InHand'
      BY DEF InHand
    <3>4. NewSettled'
      BY <3>0 DEF NewSettled, Settled
    <3> QED
      BY <3>1, <3>2, <3>3, <3>4
  <2> QED
    BY <1>2, <1>3, <2>1, <2>2, <2>3
<1>5. CASE ~Answered
  <2>1. ScanTyped' /\ Alone(t) /\ Anew(t) /\ stage' = stage
    BY <1>1, <1>5, NextSectionEffect DEF Update
  <2>2. OfSamples'
    BY <1>1, <2>1, AnewSamples, TypeParts
  <2> QED
    BY <1>2, <1>3, <2>1, <2>2
<1> QED
  BY <1>4, <1>5

(* Processes.scan: the list of pids.                                          *)
LEMMA ListIInv == ASSUME IInv, NEW t \in Threads, List(t) PROVE IInv'
<1> USE IInvParts, IInvNext
<1>1. /\ Scanning(t) /\ stage[t] # "idle" /\ Called /\ Still /\ ring' = ring /\ UNCHANGED <<device, quiet>>
      /\ phase[t] = "ask"
  BY DEF List, Scanning, Still
<1>2. RestTyped' /\ Held' /\ NeverRaises' /\ (stage' = stage => OneChain')
  BY <1>1, CallEffect
<1>3. RingTyped'
  BY <1>1 DEF RingTyped
<1>4. CASE Answered
  <2>1. /\ phase' = [phase EXCEPT ![t] = "stat"] /\ UNCHANGED <<stage, at, new>>
        /\ todo' = [todo EXCEPT ![t] = Listed]
    BY <1>4 DEF List, Go
  <2>2. ScanTyped'
    BY <2>1, ListedPids DEF ScanTyped
  <2>3. OfSamples'
    <3> USE <1>1, <2>1 DEF OfSamples, ScanTyped
    <3>1. Compared'
      BY DEF Compared, Scanning, Section
    <3>2. DiffedInOrder' /\ LastSettled' /\ SizesKept'
      BY DEF DiffedInOrder, LastSettled, SizesKept, Newest, Settled
    <3>3. InHand'
      BY DEF InHand
    <3>4. NewSettled'
      BY DEF NewSettled, Settled
    <3> QED
      BY <3>1, <3>2, <3>3, <3>4
  <2> QED
    BY <1>2, <1>3, <2>1, <2>2, <2>3
<1>5. CASE ~Answered
  <2>1. ScanTyped' /\ Alone(t) /\ Anew(t) /\ stage' = stage
    BY <1>1, <1>5, NextSectionEffect DEF List
  <2>2. OfSamples'
    BY <1>1, <2>1, AnewSamples, TypeParts
  <2> QED
    BY <1>2, <1>3, <2>1, <2>2
<1> QED
  BY <1>4, <1>5

(* What becomes known of a process changes nothing else of a sample.          *)
Learnt(t, p, v) == new' = [new EXCEPT ![t].has[p] = v]

LEMMA KnownSample ==
  ASSUME ScanTyped, NEW t \in Threads, NEW p \in Pids, NEW v \in {"stat", "sizes"},
         Learnt(t, p, v)
  PROVE  /\ new' \in [Threads -> Samples]
         /\ \A u \in Threads \ {t} : new'[u] = new[u]
         /\ new'[t].total = new[t].total /\ new'[t].base = new[t].base
         /\ new'[t].has = [new[t].has EXCEPT ![p] = v]
         /\ new'[t].has[p] = v
         /\ \A q \in Pids \ {p} : new'[t].has[q] = new[t].has[q]
<1>1. new[t] \in Samples /\ new \in [Threads -> Samples]
  BY DEF ScanTyped
<1>2. new[t].has \in [Pids -> {"none", "stat", "sizes"}]
  BY <1>1 DEF Samples
<1>3. [new[t].has EXCEPT ![p] = v] \in [Pids -> {"none", "stat", "sizes"}]
  BY <1>2
<1> DEFINE s == [new[t] EXCEPT !.has[p] = v]
<1>4. /\ s \in Samples /\ s.total = new[t].total /\ s.base = new[t].base
      /\ s.has = [new[t].has EXCEPT ![p] = v]
  BY <1>1, <1>3 DEF Samples
<1>5. new' = [new EXCEPT ![t] = s]
  BY DEF Learnt
<1> HIDE DEF s
<1>6. new'[t] = s /\ new' \in [Threads -> Samples] /\ \A u \in Threads \ {t} : new'[u] = new[u]
  BY <1>1, <1>4, <1>5
<1> QED
  BY <1>2, <1>4, <1>6

LEMMA HeadTail ==
  ASSUME ScanTyped, NEW t \in Threads, todo[t] # <<>>
  PROVE  /\ Head(todo[t]) \in Pids /\ Tail(todo[t]) \in Seq(Pids)
         /\ [todo EXCEPT ![t] = Tail(@)] \in [Threads -> Seq(Pids)]
BY DEF ScanTyped

(* Process.getstat: a process that is there, and whose status is asked next.  *)
LEMMA GetStatIInv == ASSUME IInv, NEW t \in Threads, GetStat(t) PROVE IInv'
<1> USE IInvParts, IInvNext
<1> DEFINE p == Head(todo[t])
<1>1. /\ Scanning(t) /\ stage[t] # "idle" /\ Called /\ Still /\ ring' = ring /\ UNCHANGED <<device, quiet>>
      /\ phase[t] = "stat" /\ todo[t] # <<>>
  BY DEF GetStat, Scanning, Still
<1>2. RestTyped' /\ Held' /\ NeverRaises' /\ (stage' = stage => OneChain')
  BY <1>1, CallEffect
<1>3. RingTyped'
  BY <1>1 DEF RingTyped
<1>4. p \in Pids
  BY <1>1, HeadTail
<1>5. CASE Answered /\ Present(p)
  <2>1. /\ phase' = [phase EXCEPT ![t] = "status"] /\ UNCHANGED <<stage, at, todo>>
        /\ Learnt(t, p, "stat")
    BY <1>5 DEF GetStat, Go, Learnt
  <2>2. /\ new' \in [Threads -> Samples]
        /\ \A u \in Threads \ {t} : new'[u] = new[u]
        /\ new'[t].total = new[t].total
        /\ new'[t].has[p] = "stat"
        /\ \A q \in Pids \ {p} : new'[t].has[q] = new[t].has[q]
    BY <1>4, <2>1, KnownSample
  <2>3. ScanTyped'
    BY <2>1, <2>2 DEF ScanTyped
  <2> HIDE DEF p
  <2>4. OfSamples'
    <3>1. Compared'
      <4>1. UNCHANGED <<stage, at, ring>>
        BY <1>1, <2>1
      <4>2. \A u \in Threads : phase'[u] = "add" => phase[u] = "add" /\ new'[u] = new[u]
        <5>1. /\ phase'[t] = "status"
              /\ \A u \in Threads : u # t => phase'[u] = phase[u]
          BY <2>1 DEF ScanTyped
        <5> QED
          BY <5>1, <2>2
      <4>3. Compared
        BY DEF OfSamples
      <4> QED
        BY <4>1, <4>2, <4>3 DEF Compared, Scanning, Section
    <3>3. SizesKept'
      <4>1. UNCHANGED <<stage, ring, quiet>>
        BY <1>1, <2>1
      <4>2. \A u \in Threads, q \in Pids : new'[u].has[q] = "sizes" => new[u].has[q] = "sizes"
        <5> SUFFICES ASSUME NEW u \in Threads, NEW q \in Pids, new'[u].has[q] = "sizes"
                     PROVE  new[u].has[q] = "sizes"
          OBVIOUS
        <5>1. CASE u # t
          BY <5>1, <2>2
        <5>2. CASE u = t
          BY <5>2, <2>2
        <5> QED
          BY <5>1, <5>2
      <4>3. SizesKept
        BY DEF OfSamples
      <4> QED
        BY <4>1, <4>2, <4>3 DEF SizesKept, Newest
    <3> USE <1>1, <2>1, <2>2 DEF OfSamples, ScanTyped
    <3>2. DiffedInOrder' /\ LastSettled'
      BY DEF DiffedInOrder, LastSettled, Newest, Settled
    <3>4. InHand'
      BY <1>5 DEF InHand, Present, p
    <3>5. NewSettled'
      <4> SUFFICES ASSUME quiet, NEW u \in Threads
                   PROVE  /\ new'[u].total
                          /\ \A q \in Pids :
                               Settled(new[u], q)' \/ (phase'[u] = "status" /\ q = Head(todo'[u]))
        BY DEF NewSettled
      <4>1. CASE u = t
        BY <4>1 DEF NewSettled, Settled, p
      <4>2. CASE u # t
        BY <4>2 DEF NewSettled, Settled
      <4> QED
        BY <4>1, <4>2
    <3> QED
      BY <3>1, <3>2, <3>3, <3>4, <3>5
  <2> QED
    BY <1>2, <1>3, <2>1, <2>3, <2>4
<1>6. CASE ~(Answered /\ Present(p))
  <2>1. UNCHANGED <<stage, at, phase, new>> /\ todo' = [todo EXCEPT ![t] = Tail(@)]
    BY <1>6 DEF GetStat
  <2>2. ScanTyped'
    BY <1>1, <2>1, HeadTail DEF ScanTyped
  <2>3. OfSamples'
    <3> USE <1>1, <2>1 DEF OfSamples, ScanTyped
    <3>1. Compared'
      BY DEF Compared, Scanning, Section
    <3>2. DiffedInOrder' /\ LastSettled' /\ SizesKept'
      BY DEF DiffedInOrder, LastSettled, SizesKept, Newest, Settled
    <3>3. InHand'
      BY DEF InHand
    <3>4. NewSettled'
      BY DEF NewSettled, Settled
    <3> QED
      BY <3>1, <3>2, <3>3, <3>4
  <2> QED
    BY <1>2, <1>3, <2>1, <2>2, <2>3
<1> QED
  BY <1>5, <1>6

(* Process.getstatus: with an answer, a process without sizes is settled; and *)
(* one with sizes is not one that was settled when the newest sample was made. *)
LEMMA GetStatusIInv == ASSUME IInv, NEW t \in Threads, GetStatus(t) PROVE IInv'
<1> USE IInvParts, IInvNext
<1> DEFINE p == Head(todo[t])
<1>1. /\ Scanning(t) /\ stage[t] # "idle" /\ Called /\ Still /\ ring' = ring /\ UNCHANGED <<device, quiet>>
      /\ phase[t] = "status" /\ phase' = [phase EXCEPT ![t] = "stat"] /\ UNCHANGED <<stage, at>>
      /\ todo' = [todo EXCEPT ![t] = Tail(@)]
  BY DEF GetStatus, Go, Scanning, Still
<1>2. RestTyped' /\ Held' /\ NeverRaises' /\ OneChain' /\ (quiet => Answered)
  BY <1>1, CallEffect
<1>3. RingTyped'
  BY <1>1 DEF RingTyped
<1>4. todo[t] # <<>> /\ device[p] # "absent"
  BY <1>1 DEF OfSamples, InHand
<1>5. p \in Pids /\ todo' \in [Threads -> Seq(Pids)]
  BY <1>1, <1>4, HeadTail
<1>6. /\ new' \in [Threads -> Samples]
      /\ \A u \in Threads \ {t} : new'[u] = new[u]
      /\ new'[t].total = new[t].total
      /\ \A q \in Pids \ {p} : new'[t].has[q] = new[t].has[q]
      /\ \/ Answered /\ device[p] = "user" /\ new'[t].has[p] = "sizes"
         \/ ~(Answered /\ device[p] = "user") /\ new'[t].has[p] = new[t].has[p]
  <2>1. CASE Answered /\ device[p] = "user"
    <3>1. Learnt(t, p, "sizes")
      BY <2>1 DEF GetStatus, Learnt
    <3> HIDE DEF p
    <3>2. p \in Pids
      BY <1>5
    <3>3. /\ new' \in [Threads -> Samples]
          /\ \A u \in Threads \ {t} : new'[u] = new[u]
          /\ new'[t].total = new[t].total
          /\ new'[t].has[p] = "sizes"
          /\ \A q \in Pids \ {p} : new'[t].has[q] = new[t].has[q]
      BY <3>1, <3>2, KnownSample
    <3> QED
      BY <2>1, <3>3
  <2>2. CASE ~(Answered /\ device[p] = "user")
    <3>1. new' = new
      BY <2>2 DEF GetStatus
    <3> QED
      BY <2>2, <3>1 DEF ScanTyped
  <2> QED
    BY <2>1, <2>2
<1>7. ScanTyped'
  BY <1>1, <1>5, <1>6 DEF ScanTyped
<1>8. OfSamples'
  <2>1. Compared'
    <3>1. UNCHANGED <<stage, at, ring>>
      BY <1>1
    <3>2. \A u \in Threads : phase'[u] = "add" => phase[u] = "add" /\ new'[u] = new[u]
      <4>1. /\ phase'[t] = "stat"
            /\ \A u \in Threads : u # t => phase'[u] = phase[u]
        BY <1>1 DEF ScanTyped
      <4> QED
        BY <4>1, <1>6
    <3>3. Compared
      BY DEF OfSamples
    <3> QED
      BY <3>1, <3>2, <3>3 DEF Compared, Scanning, Section
  <2> USE <1>1, <1>6 DEF OfSamples, ScanTyped
  <2>2. DiffedInOrder' /\ LastSettled'
    BY DEF DiffedInOrder, LastSettled, Newest, Settled
  <2>3. InHand'
    BY DEF InHand
  <2> HIDE DEF p
  <2>4. SizesKept'
    <3> SUFFICES ASSUME quiet, ring["processes"] # <<>>, NEW u \in Threads, NEW q \in Pids,
                        stage[u] # "idle", new'[u].has[q] = "sizes"
                 PROVE  Newest.has[q] # "stat"
      BY DEF SizesKept, Newest
    <3>1. CASE u = t /\ q = p /\ device[p] = "user"
      BY <3>1 DEF LastSettled, Settled
    <3>2. CASE ~(u = t /\ q = p /\ device[p] = "user")
      <4>1. new[u].has[q] = "sizes"
        BY <3>2
      <4> QED
        BY <4>1 DEF SizesKept
    <3> QED
      BY <3>1, <3>2
  <2>5. NewSettled'
    <3> SUFFICES ASSUME quiet, NEW u \in Threads
                 PROVE  new'[u].total /\ \A q \in Pids :
                          Settled(new[u], q)' \/ (phase'[u] = "status" /\ q = Head(todo'[u]))
      BY DEF NewSettled
    <3>1. CASE u # t
      BY <3>1 DEF NewSettled, Settled
    <3>2. CASE u = t
      <4>1. new'[t].total
        BY DEF NewSettled
      <4>2. ASSUME NEW q \in Pids PROVE Settled(new[t], q)'
        <5>1. CASE q # p
          <6>1. Settled(new[t], q)
            BY <5>1 DEF NewSettled, p
          <6>2. new'[t].has[q] = new[t].has[q]
            BY <5>1
          <6> QED
            BY <6>1, <6>2 DEF Settled
        <5>2. CASE q = p
          <6>1. \/ new'[t].has[p] = "sizes"
                \/ device[p] \in {"kernel", "zombie", "gone"}
            BY <1>2, <1>4, <1>5 DEF RestTyped
          <6> QED
            BY <5>2, <6>1 DEF Settled
        <5> QED
          BY <5>1, <5>2
      <4> QED
        BY <3>2, <4>1, <4>2
    <3> QED
      BY <3>1, <3>2
  <2> QED
    BY <2>1, <2>2, <2>3, <2>4, <2>5
<1> QED
  BY <1>2, <1>3, <1>7, <1>8

(* One component of the sample in work is set.                                *)
LEMMA SetTotal ==
  ASSUME ScanTyped, NEW t \in Threads, NEW v \in BOOLEAN, new' = [new EXCEPT ![t].total = v]
  PROVE  /\ new' \in [Threads -> Samples] /\ \A u \in Threads \ {t} : new'[u] = new[u]
         /\ new'[t].total = v /\ new'[t].has = new[t].has /\ new'[t].base = new[t].base
<1>1. new[t] \in Samples /\ new \in [Threads -> Samples]
  BY DEF ScanTyped
<1> DEFINE s == [new[t] EXCEPT !.total = v]
<1>2. s \in Samples
  BY <1>1 DEF Samples
<1>3. s.total = v /\ s.has = new[t].has /\ s.base = new[t].base
  BY <1>1 DEF Samples
<1>4. new' = [new EXCEPT ![t] = s]
  OBVIOUS
<1> HIDE DEF s
<1>5. new'[t] = s /\ new' \in [Threads -> Samples] /\ \A u \in Threads \ {t} : new'[u] = new[u]
  BY <1>1, <1>2, <1>4
<1> QED
  BY <1>3, <1>5

LEMMA SetBase ==
  ASSUME ScanTyped, NEW t \in Threads, NEW v \in 0..Period, new' = [new EXCEPT ![t].base = v]
  PROVE  /\ new' \in [Threads -> Samples] /\ \A u \in Threads \ {t} : new'[u] = new[u]
         /\ new'[t].base = v /\ new'[t].has = new[t].has /\ new'[t].total = new[t].total
<1>1. new[t] \in Samples /\ new \in [Threads -> Samples]
  BY DEF ScanTyped
<1> DEFINE s == [new[t] EXCEPT !.base = v]
<1>2. s \in Samples
  BY <1>1 DEF Samples
<1>3. s.base = v /\ s.has = new[t].has /\ s.total = new[t].total
  BY <1>1 DEF Samples
<1>4. new' = [new EXCEPT ![t] = s]
  OBVIOUS
<1> HIDE DEF s
<1>5. new'[t] = s /\ new' \in [Threads -> Samples] /\ \A u \in Threads \ {t} : new'[u] = new[u]
  BY <1>1, <1>2, <1>4
<1> QED
  BY <1>3, <1>5

(* The Stat at the end: with an answer the sample has it.                     *)
LEMMA GetTotalIInv == ASSUME IInv, NEW t \in Threads, GetTotal(t) PROVE IInv'
<1> USE IInvParts, IInvNext
<1>1. /\ Scanning(t) /\ stage[t] # "idle" /\ Called /\ Still /\ UNCHANGED <<ring, todo, stage, at>>
      /\ UNCHANGED <<device, quiet>>
      /\ phase[t] = "stat" /\ phase' = [phase EXCEPT ![t] = "diff"]
      /\ new' = [new EXCEPT ![t].total = Answered]
  BY DEF GetTotal, Go, Scanning, Still
<1>2. RestTyped' /\ Held' /\ NeverRaises' /\ OneChain' /\ (quiet => Answered)
  BY <1>1, CallEffect
<1>3. RingTyped'
  BY <1>1 DEF RingTyped
<1>4. Answered \in BOOLEAN
  BY DEF Answered, RestTyped
<1>5. /\ new' \in [Threads -> Samples] /\ \A u \in Threads \ {t} : new'[u] = new[u]
      /\ new'[t].total = Answered /\ new'[t].has = new[t].has
  BY <1>1, <1>4, SetTotal
<1>6. ScanTyped'
  BY <1>1, <1>5 DEF ScanTyped
<1>7. OfSamples'
  <2> USE <1>1, <1>5 DEF OfSamples, ScanTyped
  <2>1. Compared'
    BY DEF Compared, Scanning, Section
  <2>2. DiffedInOrder' /\ LastSettled'
    BY DEF DiffedInOrder, LastSettled, Newest, Settled
  <2>3. InHand'
    BY DEF InHand
  <2>4. \A u \in Threads : new'[u].has = new[u].has
    OBVIOUS
  <2>5. SizesKept'
    BY <2>4 DEF SizesKept, Newest
  <2>6. NewSettled'
    <3> SUFFICES ASSUME quiet, NEW u \in Threads
                 PROVE  new'[u].total /\ \A q \in Pids :
                          Settled(new[u], q)' \/ (phase'[u] = "status" /\ q = Head(todo'[u]))
      BY DEF NewSettled
    <3>1. new'[u].total
      BY <1>2 DEF NewSettled
    <3>2. \A q \in Pids : Settled(new[u], q) \/ (phase'[u] = "status" /\ q = Head(todo'[u]))
      BY DEF NewSettled
    <3> QED
      BY <2>4, <3>1, <3>2 DEF Settled
  <2> QED
    BY <2>1, <2>2, <2>3, <2>5, <2>6
<1> QED
  BY <1>2, <1>3, <1>6, <1>7

(* While nothing is lost, diff() has what it looks up.                        *)
LEMMA QuietDiff ==
  ASSUME IInv, quiet, NEW t \in Threads, stage[t] # "idle", ring["processes"] # <<>>
  PROVE  ~MayRaise(Last(ring["processes"]), new[t])
<1> USE IInvParts DEF OfSamples
<1>1. Newest.total /\ new[t].total
  BY DEF LastSettled, NewSettled
<1>2. Newest \in Samples
  <2>1. ring["processes"] \in Seq(Samples)
    BY DEF RingTyped, Names
  <2> QED
    BY <2>1 DEF Newest, Last
<1>3. ASSUME NEW p \in Pids, InBoth(p, Newest, new[t]), new[t].has[p] = "sizes"
      PROVE  Newest.has[p] = "sizes"
  BY <1>2, <1>3 DEF SizesKept, InBoth, Samples
<1> QED
  BY <1>1, <1>3 DEF MayRaise, MustRaise, Newest

(* diff(): the sample is compared with the newest one, or the thread ends.    *)
LEMMA DiffIInv == ASSUME IInv, NEW t \in Threads, Diff(t) PROVE IInv'
<1> USE IInvParts, IInvNext
<1> DEFINE r == ring[Section(t)]
           compared == r # <<>> /\ Section(t) \notin Plain
<1>1. /\ Scanning(t) /\ stage[t] # "idle" /\ phase[t] = "diff"
      /\ UNCHANGED <<known, connect, link, device, timer, now, ring, quiet>>
  BY DEF Diff, Scanning
<1>2. Section(t) \in Names
  BY <1>1, SectionName DEF ScanTyped
<1>3. RingTyped' /\ Held'
  BY <1>1 DEF RingTyped, Held
<1>4. CASE new' = [new EXCEPT ![t].base = IF compared THEN Last(r).time ELSE 0] /\ Go(t, "add")
           /\ UNCHANGED <<todo, raised>>
  <2>1. phase' = [phase EXCEPT ![t] = "add"] /\ UNCHANGED <<stage, at, todo, raised>>
    BY <1>4 DEF Go
  <2>2. r # <<>> => Last(r).time \in 1..Period
    <3>1. r \in Seq(Samples)
      BY <1>2 DEF RingTyped
    <3>2. r # <<>> => Last(r) \in Samples
      BY <3>1 DEF Last
    <3> QED
      BY <3>2 DEF Samples
  <2>3. (IF compared THEN Last(r).time ELSE 0) \in 0..Period
    BY <2>2, BoundsAssumption
  <2> HIDE DEF r
  <2>4. /\ new' \in [Threads -> Samples] /\ \A u \in Threads \ {t} : new'[u] = new[u]
        /\ new'[t].base = (IF compared THEN Last(r).time ELSE 0)
        /\ new'[t].has = new[t].has /\ new'[t].total = new[t].total
    BY <1>4, <2>3, SetBase
  <2> USE DEF r
  <2>5. ScanTyped'
    BY <2>1, <2>4 DEF ScanTyped
  <2>6. RestTyped' /\ OneChain' /\ NeverRaises'
    BY <1>1, <2>1 DEF RestTyped, OneChain, NeverRaises
  <2>7. OfSamples'
    <3> USE <1>1, <2>1, <2>4 DEF OfSamples, ScanTyped
    <3>1. Compared'
      <4> SUFFICES ASSUME NEW u \in Threads, Scanning(u)', phase'[u] = "add",
                          Section(u)' \notin Plain, ring'[Section(u)'] # <<>>
                   PROVE  new'[u].base = Last(ring'[Section(u)']).time
        BY DEF Compared
      <4>1. Section(u)' = Section(u) /\ Scanning(u)
        BY DEF Section, Scanning
      <4>2. CASE u = t
        BY <4>1, <4>2
      <4>3. CASE u # t
        BY <4>1, <4>3 DEF Compared
      <4> QED
        BY <4>2, <4>3
    <3>2. DiffedInOrder' /\ LastSettled'
      BY DEF DiffedInOrder, LastSettled, Newest, Settled
    <3>3. InHand'
      BY DEF InHand
    <3>4. \A u \in Threads : new'[u].has = new[u].has /\ new'[u].total = new[u].total
      OBVIOUS
    <3>5. SizesKept'
      BY <3>4 DEF SizesKept, Newest
    <3>6. NewSettled'
      BY <3>4 DEF NewSettled, Settled
    <3> QED
      BY <3>1, <3>2, <3>3, <3>5, <3>6
  <2> QED
    BY <1>3, <2>5, <2>6, <2>7
<1>5. CASE /\ compared /\ Section(t) = "processes" /\ MayRaise(Last(r), new[t])
           /\ raised' = TRUE /\ Leave(t)
  <2>1. ~quiet
    BY <1>1, <1>5, QuietDiff
  <2>2. ScanTyped' /\ Alone(t) /\ Anew(t) /\ stage' = [stage EXCEPT ![t] = "idle"]
    BY <1>5, LeaveEffect
  <2>3. OfSamples'
    BY <1>1, <2>2, AnewSamples, TypeParts
  <2>4. RestTyped' /\ NeverRaises'
    BY <1>1, <1>5, <2>1 DEF RestTyped, NeverRaises
  <2>5. OneChain'
    BY <1>1, <2>2 DEF OneChain, ScanTyped, Threads
  <2> QED
    BY <1>3, <2>2, <2>3, <2>4, <2>5
<1> QED
  BY <1>4, <1>5 DEF Diff, Raise

(* RecordDate.add: the newest sample is settled, and goes with the one before. *)
LEMMA AddIInv == ASSUME IInv, NEW t \in Threads, Add(t) PROVE IInv'
<1> USE IInvParts, IInvNext
<1> DEFINE s == Section(t)
<1>1. /\ Scanning(t) /\ stage[t] # "idle" /\ phase[t] = "add" /\ NextSection(t)
      /\ UNCHANGED <<known, connect, link, device, timer, now, raised, quiet>>
      /\ ring' = [ring EXCEPT ![s] = Added(@, new[t])]
  BY DEF Add, Still, Scanning
<1>2. s \in Names /\ "processes" \in Names
  BY <1>1, SectionName DEF ScanTyped, Names
<1>3. ScanTyped' /\ Alone(t) /\ Anew(t) /\ stage' = stage
  BY <1>1, NextSectionEffect
<1>4. RestTyped' /\ OneChain' /\ Held' /\ NeverRaises'
  BY <1>1, <1>3 DEF RestTyped, OneChain, Held, NeverRaises
<1>5. new[t] \in Samples /\ ring[s] \in Seq(Samples) /\ Len(ring[s]) <= LEN
  BY <1>2 DEF ScanTyped, RingTyped
<1> HIDE DEF s
<1>6. /\ ring'[s] = Added(ring[s], new[t])
      /\ \A n \in Names : n # s => ring'[n] = ring[n]
      /\ ring'[s] \in Seq(Samples) /\ ring'[s] # <<>>
      /\ Len(ring'[s]) <= LEN /\ Last(ring'[s]) = new[t]
      /\ Chained(ring[s]) /\ (ring[s] # <<>> => new[t].base = Last(ring[s]).time) => Chained(ring'[s])
  BY <1>1, <1>2, <1>5, AddedChained DEF RingTyped
<1>7. RingTyped'
  BY <1>1, <1>2, <1>6 DEF RingTyped
<1>8. \A u \in Threads : u # t => stage[u] = "idle"
  BY <1>1 DEF OneChain, Threads
<1>9. OfSamples'
  <2>1. Compared'
    BY <1>3, <1>8 DEF Compared, Scanning, Anew
  <2>2. DiffedInOrder'
    <3> SUFFICES ASSUME NEW n \in Names \ Plain PROVE Chained(ring'[n])
      BY DEF DiffedInOrder, Chained
    <3>1. Chained(ring[n])
      BY DEF OfSamples, DiffedInOrder, Chained
    <3>2. CASE n = s
      <4>1. ring[s] # <<>> => new[t].base = Last(ring[s]).time
        BY <1>1, <3>2 DEF OfSamples, Compared, s
      <4> QED
        BY <1>6, <3>1, <3>2, <4>1
    <3>3. CASE n # s
      BY <1>6, <3>1, <3>3
    <3> QED
      BY <3>2, <3>3
  <2>3. InHand' /\ NewSettled'
    BY <1>1, <1>3, AnewThread, TypeParts
  <2>4. LastSettled'
    <3>1. CASE s = "processes"
      <4>1. quiet => new[t].total /\ \A p \in Pids : Settled(new[t], p)
        BY <1>1 DEF OfSamples, NewSettled
      <4>2. Newest' = new[t]
        BY <1>6, <3>1 DEF Newest
      <4>3. \A p \in Pids : Settled(new[t], p) => Settled(Newest, p)'
        BY <1>1, <4>2 DEF Settled
      <4> QED
        BY <1>1, <4>1, <4>2, <4>3 DEF LastSettled
    <3>2. CASE s # "processes"
      <4>1. ring'["processes"] = ring["processes"]
        BY <1>2, <1>6, <3>2
      <4> QED
        BY <1>1, <4>1 DEF OfSamples, LastSettled, Newest, Settled
    <3> QED
      BY <3>1, <3>2
  <2>5. SizesKept'
    BY <1>3, <1>8 DEF SizesKept, Anew
  <2> QED
    BY <2>1, <2>2, <2>3, <2>4, <2>5 DEF OfSamples
<1> QED
  BY <1>3, <1>4, <1>7, <1>9

-----------------------------------------------------------------------------
(* The chain of timers, the device and the network                           *)

(* After its own scan profile scans again; after that scan the timer is armed. *)
LEMMA ScanEndsIInv == ASSUME IInv, NEW t \in Threads, ScanEnds(t) PROVE IInv'
<1> USE IInvParts, IInvNext
<1>1. /\ stage[t] # "idle" /\ UNCHANGED <<known, connect, link, device, ring, raised, quiet>>
  BY DEF ScanEnds, AtEnd
<1>2. RingTyped' /\ Held' /\ NeverRaises'
  BY <1>1 DEF RingTyped, Held, NeverRaises
<1>3. known
  BY <1>1 DEF OneChain
<1>4. CASE stage[t] = "first"
  <2>1. UNCHANGED timer /\ Enter(t, "start")
    BY <1>4 DEF ScanEnds
  <2>2. ScanTyped' /\ Alone(t) /\ Anew(t) /\ stage' = [stage EXCEPT ![t] = "start"] /\ now' \in 1..Period
    BY <2>1, EnterEffect DEF RestTyped
  <2>3. OfSamples'
    BY <1>1, <2>2, AnewSamples, TypeParts
  <2>4. RestTyped' /\ OneChain'
    BY <1>1, <1>3, <1>4, <2>1, <2>2 DEF RestTyped, OneChain, ScanTyped, Threads
  <2> QED
    BY <1>2, <2>2, <2>3, <2>4
<1>5. CASE stage[t] # "first"
  <2>1. timer' = TRUE /\ Leave(t) /\ now' = now
    BY <1>5 DEF ScanEnds
  <2>2. ScanTyped' /\ Alone(t) /\ Anew(t) /\ stage' = [stage EXCEPT ![t] = "idle"]
    BY <2>1, LeaveEffect
  <2>3. OfSamples'
    BY <1>1, <2>2, AnewSamples, TypeParts
  <2>4. RestTyped'
    BY <1>1, <2>1 DEF RestTyped
  <2>5. OneChain'
    BY <1>1, <1>3, <2>1, <2>2 DEF OneChain, ScanTyped, Threads
  <2> QED
    BY <1>2, <2>2, <2>3, <2>4, <2>5
<1> QED
  BY <1>4, <1>5

(* The timer fires, and is not armed any more.                                *)
LEMMA FireIInv == IInv /\ Fire => IInv'
<1> SUFFICES ASSUME IInv, Fire PROVE IInv'
  OBVIOUS
<1> USE IInvParts, IInvNext
<1>1. /\ timer /\ timer' = FALSE /\ Enter("timer", "start")
      /\ UNCHANGED <<known, connect, link, device, ring, raised, quiet>>
  BY DEF Fire
<1>2. "timer" \in Threads
  BY DEF Threads
<1>3. /\ ScanTyped' /\ Alone("timer") /\ Anew("timer")
      /\ stage' = [stage EXCEPT !["timer"] = "start"] /\ now' \in 1..Period
  BY <1>1, <1>2, EnterEffect DEF RestTyped
<1>4. OfSamples'
  BY <1>1, <1>2, <1>3, AnewSamples, TypeParts
<1>5. RestTyped' /\ RingTyped' /\ Held' /\ NeverRaises'
  BY <1>1, <1>3 DEF RestTyped, RingTyped, Held, NeverRaises
<1>6. OneChain'
  BY <1>1, <1>3 DEF OneChain, ScanTyped, Threads
<1> QED
  BY <1>3, <1>4, <1>5, <1>6

(* The first scan of a new device: there is no timer yet.                     *)
LEMMA ConnectsIInv == IInv /\ Connects => IInv'
<1> SUFFICES ASSUME IInv, Connects PROVE IInv'
  OBVIOUS
<1> USE IInvParts, IInvNext
<1>1. /\ ~known /\ known' = TRUE /\ connect' = TRUE /\ link' = "up" /\ Enter("worker", "first")
      /\ UNCHANGED <<device, timer, ring, raised, quiet>>
  BY DEF Connects
<1>2. "worker" \in Threads
  BY DEF Threads
<1>3. /\ ScanTyped' /\ Alone("worker") /\ Anew("worker")
      /\ stage' = [stage EXCEPT !["worker"] = "first"] /\ now' \in 1..Period
  BY <1>1, <1>2, EnterEffect DEF RestTyped
<1>4. OfSamples'
  BY <1>1, <1>2, <1>3, AnewSamples, TypeParts
<1>5. RestTyped' /\ RingTyped' /\ Held' /\ NeverRaises'
  BY <1>1, <1>3 DEF RestTyped, RingTyped, Held, NeverRaises
<1>6. OneChain'
  BY <1>1, <1>3 DEF OneChain, ScanTyped, Threads
<1> QED
  BY <1>3, <1>4, <1>5, <1>6

LEMMA ReconnectsIInv == IInv /\ (Reconnects \/ LinkFails) => IInv'
<1> SUFFICES ASSUME IInv, Reconnects \/ LinkFails PROVE IInv'
  OBVIOUS
<1> USE IInvParts, IInvNext
<1>1. /\ UNCHANGED <<known, device, timer, now, scan, ring, raised>>
      /\ \/ connect' = TRUE /\ link' = "up" /\ UNCHANGED quiet
         \/ UNCHANGED connect /\ link' \in {"down", "reset"} /\ quiet' = FALSE
  BY DEF Reconnects, LinkFails
<1> USE DEF scan
<1>2. ScanTyped' /\ RingTyped'
  BY <1>1 DEF ScanTyped, RingTyped
<1>3. OneChain' /\ NeverRaises' /\ Held'
  BY <1>1 DEF OneChain, NeverRaises, Held
<1>4. RestTyped'
  <2>1. connect' \in BOOLEAN /\ quiet' \in BOOLEAN /\ link' \in {"up", "down", "reset"}
    BY <1>1 DEF RestTyped
  <2> QED
    BY <1>1, <2>1 DEF RestTyped
<1>5. OfSamples'
  BY <1>1 DEF OfSamples, Compared, Scanning, Section, DiffedInOrder, InHand, NewSettled, LastSettled,
     SizesKept, Newest, Settled
<1> QED
  BY <1>2, <1>3, <1>4, <1>5

(* A process that is settled stays so, unless pids change their kind.          *)
LEMMA DeviceIInv ==
  ASSUME IInv, NEW p \in Pids,
         Born(p) \/ Exits(p) \/ Vanishes(p) \/ Execs(p) \/ UsedAgain(p)
  PROVE  IInv'
<1> USE IInvParts, IInvNext
<1> DEFINE Lasting == {"kernel", "zombie", "gone"}
<1>1. /\ UNCHANGED <<known, connect, link, timer, now, scan, ring, raised>>
      /\ quiet' \in BOOLEAN /\ (quiet' => quiet)
      /\ \E state \in {"kernel", "user", "zombie", "gone"} :
           /\ device' = [device EXCEPT ![p] = state]
           /\ quiet' /\ device[p] \in Lasting => state \in Lasting
  <2>1. quiet \in BOOLEAN
    BY DEF RestTyped
  <2>2. CASE Born(p) \/ Exits(p)
    BY <2>1, <2>2 DEF Born, Exits, Becomes
  <2>3. CASE Vanishes(p)
    BY <2>1, <2>3 DEF Vanishes, Becomes
  <2>4. CASE Execs(p) \/ UsedAgain(p)
    BY <2>4 DEF Execs, UsedAgain, Becomes
  <2> QED
    BY <2>2, <2>3, <2>4
<1>2. /\ device' \in [Pids -> {"absent", "kernel", "user", "zombie", "gone"}]
      /\ \A q \in Pids : device[q] # "absent" => device'[q] # "absent"
      /\ quiet' => \A q \in Pids : device[q] \in Lasting => device'[q] \in Lasting
  BY <1>1 DEF RestTyped
<1> USE DEF scan
<1>3. ScanTyped' /\ RingTyped' /\ RestTyped'
  BY <1>1, <1>2 DEF ScanTyped, RingTyped, RestTyped
<1>4. OneChain' /\ NeverRaises' /\ Held'
  BY <1>1 DEF OneChain, NeverRaises, Held
<1>5. OfSamples'
  <2> USE DEF OfSamples
  <2>1. Compared' /\ DiffedInOrder' /\ SizesKept'
    BY <1>1 DEF Compared, Scanning, Section, DiffedInOrder, SizesKept, Newest
  <2>2. InHand'
    <3> SUFFICES ASSUME NEW t \in Threads, phase[t] = "status"
                 PROVE  todo[t] # <<>> /\ device'[Head(todo[t])] # "absent"
      BY <1>1 DEF InHand
    <3>1. todo[t] # <<>> /\ device[Head(todo[t])] # "absent"
      BY DEF InHand
    <3> QED
      BY <1>2, <3>1, HeadTail
  <2>3. NewSettled'
    BY <1>1, <1>2 DEF NewSettled, Settled
  <2>4. LastSettled'
    BY <1>1, <1>2 DEF LastSettled, Newest, Settled
  <2> QED
    BY <2>1, <2>2, <2>3, <2>4
<1> QED
  BY <1>3, <1>4, <1>5

-----------------------------------------------------------------------------
LEMMA InitIInv == Init => IInv
<1> SUFFICES ASSUME Init PROVE IInv
  OBVIOUS
<1> USE BoundsAssumption, SectionsLength DEF Init
<1>1. Blank(1) \in Samples /\ Blank(1).total /\ \A p \in Pids : Blank(1).has[p] = "none"
  BY BlankSample
<1>2. ScanTyped /\ RingTyped
  BY <1>1 DEF ScanTyped, RingTyped
<1>3. RestTyped
  <2>1. known \in BOOLEAN /\ connect \in BOOLEAN /\ timer \in BOOLEAN /\ raised \in BOOLEAN
        /\ quiet \in BOOLEAN
    OBVIOUS
  <2>2. now \in 1..Period /\ link \in {"up", "down", "reset"}
    OBVIOUS
  <2> QED
    BY <2>1, <2>2 DEF RestTyped
<1>4. OneChain /\ Held /\ NeverRaises
  BY DEF OneChain, Held, NeverRaises, Threads
<1>5. \A s \in Names : ring[s] = <<>>
  OBVIOUS
<1>6. OfSamples
  <2>1. Compared /\ InHand
    BY DEF Compared, Scanning, InHand
  <2>2. DiffedInOrder
    BY <1>5 DEF DiffedInOrder
  <2>3. LastSettled /\ SizesKept
    BY <1>5 DEF LastSettled, SizesKept, Names
  <2>4. NewSettled
    BY <1>1 DEF NewSettled, Settled
  <2> QED
    BY <2>1, <2>2, <2>3, <2>4 DEF OfSamples
<1> QED
  BY <1>2, <1>3, <1>4, <1>6, IInvParts

(* Every step preserves the invariant.                                        *)
THEOREM Invariance == SafeSpec => []IInv
<1>1. IInv /\ UNCHANGED vars => IInv'
  <2> SUFFICES ASSUME IInv, UNCHANGED vars PROVE IInv'
    OBVIOUS
  <2> USE IInvParts, IInvNext DEF vars, scan
  <2>1. ScanTyped' /\ RingTyped' /\ RestTyped' /\ OneChain' /\ NeverRaises' /\ Held'
    BY DEF ScanTyped, RingTyped, RestTyped, OneChain, NeverRaises, Held
  <2>2. OfSamples'
    BY DEF OfSamples, Compared, Scanning, Section, DiffedInOrder, InHand, NewSettled, LastSettled,
       SizesKept, Newest, Settled
  <2> QED
    BY <2>1, <2>2
<1>2. IInv /\ [Next]_vars => IInv'
  BY <1>1, UpdateIInv, ListIInv, GetStatIInv, GetStatusIInv, GetTotalIInv, DiffIInv, AddIInv,
     ScanEndsIInv, FireIInv, ConnectsIInv, ReconnectsIInv, DeviceIInv
  DEF Next, ScanStep
<1> QED
  BY <1>2, InitIInv, PTL DEF SafeSpec

(* The variables keep to their values; a ring never holds more than LEN.      *)
THEOREM TypeCorrect == SafeSpec => []TypeOK
<1>1. IInv => TypeOK
  BY DEF IInv
<1> QED
  BY <1>1, Invariance, PTL

(* Each difference is the one to the sample just before it in its ring.       *)
THEOREM DifferencesInOrder == SafeSpec => []DiffedInOrder
<1>1. IInv => DiffedInOrder
  BY DEF IInv
<1> QED
  BY <1>1, Invariance, PTL

(* While nothing is lost and no pid changes its kind no scan raises.          *)
THEOREM QuietScansEnd == SafeSpec => []NeverRaises
<1>1. IInv => NeverRaises
  BY DEF IInv
<1> QED
  BY <1>1, Invariance, PTL

(* The worker's first scan and the timer's never run at the same time, so     *)
(* that only one thread writes the rings: device_update_task has no lock.     *)
THEOREM OneScanAtATime ==
  SafeSpec => [](\A t, u \in Threads : stage[t] # "idle" /\ stage[u] # "idle" => t = u)
<1>1. IInv => \A t, u \in Threads : stage[t] # "idle" /\ stage[u] # "idle" => t = u
  BY DEF IInv, OneChain, Threads
<1> QED
  BY <1>1, Invariance, PTL

-----------------------------------------------------------------------------
(* One of the rings, under a page that walks over it while samples are      *)
(* added: for every length that leaves room for two, and any number of      *)
(* samples.                                                                 *)

(* Popping the oldest sample, or counting the one to come.                 *)
LEMMA RingMakeRoomPreserves ==
  RingIInv /\ MakeRoom => RingIInv'
<1> SUFFICES ASSUME RingIInv, MakeRoom PROVE RingIInv'
  OBVIOUS
<1> USE LenAssumption
<1>1. /\ data \in Seq(Nat) /\ cnt \in 0..RingLen /\ next \in Nat \ {0} /\ Len(data) = cnt
      /\ pos \in 0..RingLen /\ d \in 0..RingLen /\ filled \in 0..RingLen /\ line \in Seq(Nat)
      /\ cnt0 \in 0..RingLen /\ newest \in Nat /\ Len(line) = pos
  BY DEF RingIInv, RingTypeOK, MakeRoom
<1>2. UNCHANGED <<next, pageVars>> /\ adding' = TRUE
  BY DEF MakeRoom
<1>3. CASE cnt >= RingLen
  <2>1. data' = Tail(data) /\ cnt' = cnt /\ cnt = RingLen
    BY <1>1, <1>3 DEF MakeRoom
  <2>2. /\ data' \in Seq(Nat) /\ Len(data') = Len(data) - 1
        /\ \A j \in 1..Len(data') : data'[j] = data[j + 1]
    BY <1>1, <2>1, HeadTailProperties
  <2>3. Contiguous'
    <3> SUFFICES ASSUME NEW j \in 1..Len(data')
                 PROVE  data'[j] = next' - Len(data') + j - 1
      BY DEF Contiguous
    <3>1. j + 1 \in 1..Len(data) /\ data'[j] = data[j + 1]
      BY <1>1, <2>2
    <3>2. data[j + 1] = next - Len(data) + (j + 1) - 1
      BY <3>1 DEF RingIInv, Contiguous
    <3> QED
      BY <1>1, <1>2, <2>2, <3>1, <3>2
  <2>4. LastExists' /\ data' # <<>>
    BY <1>1, <2>1, <2>2 DEF LastExists
  <2>5. RingTypeOK'
    BY <1>1, <1>2, <2>1, <2>2 DEF RingIInv, RingTypeOK, pageVars, lineVars, lastVars
  <2>6. Underway'
    BY <1>1, <1>2, <2>1, <2>2 DEF RingIInv, Underway, pageVars, lineVars, lastVars, RingTypeOK
  <2> QED
    BY <1>1, <1>2, <2>3, <2>4, <2>5, <2>6
       DEF RingIInv, pageVars, lineVars, lastVars, LineAscends, LineNearlyFull, LineFresh, Drawn,
           LastUnderway, LastPaired
<1>4. CASE ~(cnt >= RingLen)
  <2>1. data' = data /\ cnt' = cnt + 1
    BY <1>4 DEF MakeRoom
  <2>2. RingTypeOK'
    BY <1>1, <1>2, <1>4, <2>1 DEF RingIInv, RingTypeOK, pageVars, lineVars, lastVars
  <2>3. Underway'
    BY <1>1, <1>2, <2>1 DEF RingIInv, Underway, pageVars, lineVars, lastVars, RingTypeOK
  <2> QED
    BY <1>1, <1>2, <2>1, <2>2, <2>3
       DEF RingIInv, pageVars, lineVars, lastVars, Contiguous, LastExists, LineAscends, LineNearlyFull,
           LineFresh, Drawn, LastUnderway, LastPaired
<1> QED
  BY <1>3, <1>4

(* Appending the new sample.                                               *)
LEMMA RingPutPreserves ==
  RingIInv /\ Put => RingIInv'
<1> SUFFICES ASSUME RingIInv, Put PROVE RingIInv'
  OBVIOUS
<1> USE LenAssumption
<1>1. /\ data \in Seq(Nat) /\ cnt \in 0..RingLen /\ next \in Nat \ {0}
      /\ Len(data) = cnt - 1
      /\ pos \in 0..RingLen /\ d \in 0..RingLen /\ filled \in 0..RingLen /\ line \in Seq(Nat)
      /\ cnt0 \in 0..RingLen /\ newest \in Nat /\ Len(line) = pos
  BY DEF RingIInv, RingTypeOK, Put
<1>2. UNCHANGED <<cnt, pageVars>> /\ adding' = FALSE /\ next' = next + 1
      /\ data' = Append(data, next)
  BY DEF Put
<1>3. /\ data' \in Seq(Nat) /\ Len(data') = Len(data) + 1
      /\ \A j \in 1..Len(data) : data'[j] = data[j]
      /\ data'[Len(data) + 1] = next
  BY <1>1, <1>2, AppendProperties
<1>4. Contiguous'
  <2> SUFFICES ASSUME NEW j \in 1..Len(data')
               PROVE  data'[j] = next' - Len(data') + j - 1
    BY DEF Contiguous
  <2>1. CASE j = Len(data) + 1
    BY <1>1, <1>2, <1>3, <2>1
  <2>2. CASE j # Len(data) + 1
    <3>1. j \in 1..Len(data) /\ data'[j] = data[j]
      BY <1>1, <1>3, <2>2
    <3>2. data[j] = next - Len(data) + j - 1
      BY <3>1 DEF RingIInv, Contiguous
    <3> QED
      BY <1>1, <1>2, <1>3, <3>1, <3>2
  <2> QED
    BY <2>1, <2>2
<1>5. LastExists'
  BY <1>1, <1>3, EmptySeq DEF LastExists
<1>6. RingTypeOK'
  <2>1. Len(data') = cnt' /\ next' \in Nat \ {0} /\ cnt' \in 0..RingLen /\ adding' = FALSE
    BY <1>1, <1>2, <1>3
  <2>2. UNCHANGED <<page, d, pos, line, filled, cnt0, newest, lastTime, lastVal>>
    BY <1>2 DEF pageVars, lineVars, lastVars
  <2>3. page \in {"idle", "line", "last"} /\ lastTime \in Nat /\ lastVal \in Nat
    BY DEF RingIInv, RingTypeOK
  <2> QED
    BY <1>1, <1>3, <2>1, <2>2, <2>3 DEF RingTypeOK
<1>7. Underway'
  BY <1>1, <1>2, <1>3 DEF RingIInv, Underway, pageVars, lineVars, lastVars, RingTypeOK
<1>8. LastUnderway' /\ LastPaired'
  BY <1>1, <1>2 DEF RingIInv, LastUnderway, LastPaired, pageVars, lastVars
<1> QED
  BY <1>1, <1>2, <1>4, <1>5, <1>6, <1>7, <1>8
     DEF RingIInv, pageVars, lineVars, lastVars, LineAscends, LineNearlyFull, LineFresh, Drawn

(* A page begins to walk.                                                  *)
LEMMA RingLineBeginsPreserves ==
  RingIInv /\ LineBegins => RingIInv'
<1> SUFFICES ASSUME RingIInv, LineBegins PROVE RingIInv'
  OBVIOUS
<1> USE LenAssumption
<1>1. data \in Seq(Nat) /\ cnt \in 0..RingLen /\ next \in Nat \ {0} /\ Len(data) \in Nat
  BY DEF RingIInv, RingTypeOK
<1>2. NewestSample \in Nat /\ NewestSample < next
  BY <1>1, EmptySeq DEF RingIInv, Contiguous, NewestSample
<1>3. /\ page = "idle" /\ page' = "line" /\ d' = RingLen - cnt /\ pos' = 0 /\ line' = <<>> /\ filled' = 0
      /\ cnt0' = cnt /\ newest' = NewestSample /\ UNCHANGED <<ringVars, lastVars>>
  BY DEF LineBegins
<1>4. RingTypeOK' /\ Underway'
  BY <1>1, <1>2, <1>3 DEF RingIInv, RingTypeOK, Underway, ringVars, lastVars
<1> QED
  BY <1>1, <1>3, <1>4
     DEF RingIInv, ringVars, lastVars, Contiguous, LastExists, LineAscends, LineNearlyFull,
         LineFresh, Drawn, LastUnderway, LastPaired

(* The next sample is newer than those already in the curve.               *)
LEMMA RingLineStepsPreserves ==
  RingIInv /\ LineSteps => RingIInv'
<1> SUFFICES ASSUME RingIInv, LineSteps PROVE RingIInv'
  OBVIOUS
<1> USE LenAssumption
<1>1. /\ data \in Seq(Nat) /\ cnt \in 0..RingLen /\ next \in Nat \ {0}
      /\ Len(data) \in Nat /\ Len(data) <= cnt
      /\ pos \in 0..RingLen /\ d \in 0..RingLen /\ filled \in 0..RingLen /\ line \in Seq(Nat)
      /\ cnt0 \in 0..RingLen /\ newest \in Nat /\ Len(line) = pos
      /\ page = "line" /\ pos < Len(data)
  BY DEF RingIInv, RingTypeOK, LineSteps
<1>2. /\ line' = Append(line, data[pos + 1]) /\ pos' = pos + 1
      /\ filled' = filled + d /\ d' = 0
      /\ UNCHANGED <<page, cnt0, newest, ringVars, lastVars>>
  BY DEF LineSteps
<1>3. data[pos + 1] \in Nat /\ data[pos + 1] = next - Len(data) + pos
  BY <1>1 DEF RingIInv, Contiguous
<1>4. /\ line' \in Seq(Nat) /\ Len(line') = pos + 1
      /\ \A j \in 1..pos : line'[j] = line[j]
      /\ line'[pos + 1] = data[pos + 1]
  <2> DEFINE v == data[pos + 1]
  <2>1. v \in Nat /\ line' = Append(line, v)
    BY <1>2, <1>3
  <2> HIDE DEF v
  <2>2. line \in Seq(Nat) /\ Len(line) = pos
    BY <1>1
  <2>3. /\ Append(line, v) \in Seq(Nat) /\ Len(Append(line, v)) = Len(line) + 1
        /\ \A j \in 1..Len(line) : Append(line, v)[j] = line[j]
        /\ Append(line, v)[Len(line) + 1] = v
    BY <2>1, <2>2, AppendProperties
  <2> QED
    BY <2>1, <2>2, <2>3 DEF v
<1>5. filled' = RingLen - cnt0 /\ cnt0 <= cnt /\ newest < next
  <2>1. CASE line = <<>>
    BY <1>1, <1>2, <2>1 DEF RingIInv, Underway
  <2>2. CASE line # <<>>
    BY <1>1, <1>2, <2>2 DEF RingIInv, Underway
  <2> QED
    BY <2>1, <2>2
<1>6. RingTypeOK'
  BY <1>1, <1>2, <1>4, <1>5 DEF RingIInv, RingTypeOK, ringVars, lastVars
<1>7. Underway'
  <2>1. line'[pos + 1] = next - Len(data) + pos /\ Len(line') # 0 /\ d' = 0
    BY <1>1, <1>2, <1>3, <1>4
  <2>2. /\ pos' = pos + 1 /\ next' = next /\ data' = data /\ cnt' = cnt
        /\ cnt0' = cnt0 /\ newest' = newest
    BY <1>2 DEF ringVars
  <2>3. /\ line'[pos'] <= next' - Len(data') + pos' - 1
        /\ line'[pos'] >= newest' + pos' - cnt'
    BY <1>1, <1>5, <2>1, <2>2
  <2>4. line' # <<>>
    BY <2>1
  <2> QED
    BY <1>5, <2>1, <2>2, <2>3, <2>4 DEF Underway
<1>8. LineAscends'
  <2> SUFFICES ASSUME NEW j \in 1..Len(line'), NEW k \in 1..Len(line'), j < k
               PROVE  line'[j] < line'[k]
    BY DEF LineAscends
  <2>1. CASE k <= pos
    <3>1. j \in 1..pos /\ k \in 1..pos
      BY <1>1, <1>4, <2>1
    <3>2. line'[j] = line[j] /\ line'[k] = line[k]
      BY <1>4, <3>1
    <3> QED
      BY <1>1, <3>1, <3>2 DEF RingIInv, LineAscends
  <2>2. CASE k = pos + 1
    <3>1. j \in 1..pos /\ line # <<>> /\ line[j] \in Nat /\ line[pos] \in Nat
      <4>1. j \in 1..pos /\ pos \in Nat /\ pos \in 1..pos
        BY <1>1, <1>4, <2>2
      <4>2. line \in Seq(Nat) /\ Len(line) = pos
        BY <1>1
      <4>3. line # <<>>
        BY <4>1, <4>2
      <4>4. line[j] \in Nat
        BY <4>1, <4>2, ElementOfSeq
      <4>5. line[pos] \in Nat
        BY <4>1, <4>2, ElementOfSeq
      <4> QED
        BY <4>1, <4>3, <4>4, <4>5
    <3>2. line[j] <= line[pos]
      <4>1. j \in 1..Len(line) /\ pos \in 1..Len(line) /\ (j = pos \/ j < pos)
        BY <1>1, <3>1
      <4>2. j < pos => line[j] < line[pos]
        BY <4>1 DEF RingIInv, LineAscends
      <4> QED
        BY <3>1, <4>1, <4>2
    <3>3. line[pos] <= next - Len(data) + pos - 1
      BY <1>1, <3>1 DEF RingIInv, Underway
    <3>4. line'[j] = line[j] /\ line'[k] = next - Len(data) + pos
      BY <1>3, <1>4, <2>2, <3>1
    <3>5. line[j] < next - Len(data) + pos /\ pos \in Nat
      <4>1. next \in Int /\ Len(data) \in Nat /\ pos \in Nat
        BY <1>1
      <4> QED
        BY <3>1, <3>2, <3>3, <4>1
    <3> QED
      BY <3>4, <3>5
  <2> QED
    BY <1>1, <1>4, <2>1, <2>2
<1> QED
  BY <1>1, <1>2, <1>4, <1>6, <1>7, <1>8
     DEF RingIInv, ringVars, lastVars, Contiguous, LastExists, LineNearlyFull, LineFresh, Drawn,
         LastUnderway, LastPaired

(* Where the iteration ends, almost everything has been passed.            *)
LEMMA RingLineEndsPreserves ==
  RingIInv /\ LineEnds => RingIInv'
<1> SUFFICES ASSUME RingIInv, LineEnds PROVE RingIInv'
  OBVIOUS
<1> USE LenAssumption
<1>1. /\ data \in Seq(Nat) /\ cnt \in 0..RingLen
      /\ Len(data) \in Nat /\ Len(data) >= cnt - 1
      /\ pos \in 0..RingLen /\ filled \in 0..RingLen /\ line \in Seq(Nat)
      /\ cnt0 \in 0..RingLen /\ newest \in Nat /\ Len(line) = pos
      /\ page = "line" /\ pos >= Len(data)
  BY DEF RingIInv, RingTypeOK, LineEnds
<1>2. page' = "idle" /\ UNCHANGED <<lineVars, ringVars, lastVars>>
  BY DEF LineEnds
<1>3. line # <<>> => filled = RingLen - cnt0 /\ cnt0 <= cnt /\ line[pos] >= newest + pos - cnt
  BY <1>1 DEF RingIInv, Underway
<1>4. line # <<>> => line[pos] \in Nat
  BY <1>1
<1>5. LineNearlyFull' /\ LineFresh'
  BY <1>1, <1>2, <1>3, <1>4 DEF LineNearlyFull, LineFresh, Drawn, lineVars, ringVars
<1>6. LastUnderway' /\ LastPaired'
  BY <1>1, <1>2 DEF RingIInv, LastUnderway, LastPaired, lastVars
<1> QED
  BY <1>2, <1>5, <1>6
     DEF RingIInv, RingTypeOK, lineVars, ringVars, lastVars, Contiguous, Underway, LineAscends,
         LastExists

(* The newest sample there is, once there has been one.                    *)
LEMMA RingNewest ==
  RingIInv /\ next > 1 => NewestSample = next - 1 /\ data # <<>>
<1> SUFFICES ASSUME RingIInv, next > 1 PROVE NewestSample = next - 1 /\ data # <<>>
  OBVIOUS
<1>1. data \in Seq(Nat) /\ next \in Nat /\ data # <<>>
  BY DEF RingIInv, RingTypeOK, LastExists
<1>2. Len(data) \in 1..Len(data)
  BY <1>1, EmptySeq
<1>3. data[Len(data)] = next - Len(data) + Len(data) - 1
  BY <1>2 DEF RingIInv, Contiguous
<1> QED
  BY <1>1, <1>2, <1>3 DEF NewestSample

(* A page looks up the time of the last sample.                            *)
LEMMA RingLastTimePreserves ==
  RingIInv /\ LastTime => RingIInv'
<1> SUFFICES ASSUME RingIInv, LastTime PROVE RingIInv'
  OBVIOUS
<1>1. page = "idle" /\ page' = "last" /\ UNCHANGED <<lastVal, lineVars, ringVars>>
      /\ lastTime' = NewestSample /\ NewestSample # 0
  BY DEF LastTime
<1>2. next \in Nat \ {0} /\ data \in Seq(Nat)
  BY DEF RingIInv, RingTypeOK
<1>3. next > 1
  <2> SUFFICES ASSUME next = 1 PROVE FALSE
    BY <1>2
  <2>1. data # <<>>
    BY <1>1 DEF NewestSample
  <2>2. Len(data) \in 1..Len(data)
    BY <1>2, <2>1, EmptySeq
  <2>3. data[Len(data)] = next - Len(data) + Len(data) - 1
    BY <2>2 DEF RingIInv, Contiguous
  <2> QED
    BY <1>1, <2>1, <2>2, <2>3 DEF NewestSample
<1>4. lastTime' = next - 1
  BY <1>1, <1>3, RingNewest
<1>5. LastUnderway' /\ LastPaired'
  BY <1>1, <1>2, <1>3, <1>4 DEF LastUnderway, LastPaired, ringVars
<1>6. RingTypeOK'
  BY <1>1, <1>2, <1>4 DEF RingIInv, RingTypeOK, lineVars, ringVars
<1> QED
  BY <1>1, <1>5, <1>6
     DEF RingIInv, lineVars, ringVars, Contiguous, Underway, LineAscends, LineNearlyFull,
         LineFresh, Drawn, LastExists

(* It looks up its value: by then the last sample is that one or a newer.  *)
LEMMA RingLastValuePreserves ==
  RingIInv /\ LastValue => RingIInv'
<1> SUFFICES ASSUME RingIInv, LastValue PROVE RingIInv'
  OBVIOUS
<1>1. page = "last" /\ page' = "idle" /\ UNCHANGED <<lastTime, lineVars, ringVars>>
      /\ lastVal' = NewestSample
  BY DEF LastValue
<1>2. next \in Nat \ {0} /\ lastTime \in 1..(next - 1)
  BY <1>1 DEF RingIInv, RingTypeOK, LastUnderway
<1>3. lastVal' = next - 1
  BY <1>1, <1>2, RingNewest
<1>4. LastUnderway' /\ LastPaired'
  BY <1>1, <1>2, <1>3 DEF LastUnderway, LastPaired
<1>5. RingTypeOK'
  BY <1>1, <1>2, <1>3 DEF RingIInv, RingTypeOK, lineVars, ringVars
<1> QED
  BY <1>1, <1>4, <1>5
     DEF RingIInv, lineVars, ringVars, Contiguous, Underway, LineAscends, LineNearlyFull,
         LineFresh, Drawn, LastExists

(* Nothing moves.                                                          *)
LEMMA RingStutterPreserves == RingIInv /\ UNCHANGED recordVars => RingIInv'
<1> SUFFICES ASSUME RingIInv, UNCHANGED recordVars PROVE RingIInv'
  OBVIOUS
<1> USE DEF RingIInv, recordVars, ringVars, pageVars, lineVars, lastVars
<1>1. RingTypeOK'
  BY DEF RingTypeOK
<1>2. Contiguous' /\ LastExists'
  BY DEF Contiguous, LastExists
<1>3. Underway'
  BY DEF Underway
<1>4. LineAscends' /\ LineNearlyFull' /\ LineFresh'
  BY DEF LineAscends, LineNearlyFull, LineFresh, Drawn
<1>5. LastUnderway' /\ LastPaired'
  BY DEF LastUnderway, LastPaired
<1> QED
  BY <1>1, <1>2, <1>3, <1>4, <1>5

(* The inductive invariant of the ring holds in every reachable state, for *)
(* every length and any number of samples (RecordDate.add and getline).    *)
THEOREM RingInvariance ==
  RingSafeSpec => []RingIInv
<1>1. RingInit => RingIInv
  <2> SUFFICES ASSUME RingInit PROVE RingIInv
    OBVIOUS
  <2> USE LenAssumption
  <2>1. data = <<>> /\ line = <<>> /\ Len(data) = 0 /\ Len(line) = 0 /\ pos = 0
    BY DEF RingInit
  <2>2. RingTypeOK
    <3>1. data \in Seq(Nat) /\ line \in Seq(Nat) /\ next \in Nat \ {0}
      BY <2>1 DEF RingInit
    <3>2. 0 \in 0..RingLen /\ Len(data) = cnt /\ adding = FALSE
      BY <2>1 DEF RingInit
    <3> QED
      BY <3>1, <3>2 DEF RingInit, RingTypeOK
  <2>3. Underway /\ Contiguous /\ LastExists
    BY <2>1 DEF RingInit, Underway, Contiguous, LastExists
  <2>4. LineAscends /\ LineNearlyFull /\ LineFresh
    BY <2>1 DEF LineAscends, LineNearlyFull, LineFresh, Drawn
  <2>5. LastUnderway /\ LastPaired
    BY DEF RingInit, LastUnderway, LastPaired
  <2> QED
    BY <2>1, <2>2, <2>3, <2>4, <2>5 DEF RingIInv
<1>2. RingIInv /\ [RingNext]_(recordVars) => RingIInv'
  BY RingMakeRoomPreserves, RingPutPreserves, RingLineBeginsPreserves, RingLineStepsPreserves,
     RingLineEndsPreserves, RingLastTimePreserves, RingLastValuePreserves, RingStutterPreserves DEF RingNext
<1> QED
  BY <1>1, <1>2, PTL DEF RingSafeSpec

(* A curve goes forward in time (getline), whatever add does meanwhile.    *)
THEOREM CurvesAscend ==
  RingSafeSpec => []LineAscends
<1>1. RingIInv => LineAscends
  BY DEF RingIInv
<1> QED
  BY <1>1, RingInvariance, PTL

(* A curve lacks at most one entry, never exceeds the ring, and is at most *)
(* one sample behind (getline).                                            *)
THEOREM CurvesCurrent ==
  RingSafeSpec => []LineCurrent
<1>1. RingIInv => LineCurrent
  BY DEF RingIInv, LineCurrent
<1> QED
  BY <1>1, RingInvariance, PTL

(* getlast pairs a time with its own sample's value or a newer one's, and  *)
(* its second lookup finds a sample, however many are added in between.    *)
THEOREM LastSamplePaired ==
  RingSafeSpec => []LastPaired
<1>1. RingIInv => LastPaired
  BY DEF RingIInv
<1> QED
  BY <1>1, RingInvariance, PTL

(* A ring that has had a sample is never empty (add, getlast).             *)
THEOREM RingNeverEmptied ==
  RingSafeSpec => []LastExists
<1>1. RingIInv => LastExists
  BY DEF RingIInv
<1> QED
  BY <1>1, RingInvariance, PTL
=============================================================================
