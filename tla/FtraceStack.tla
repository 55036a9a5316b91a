----------------------------- MODULE FtraceStack -----------------------------
(***************************************************************************)
(* Call trees of the kernel's function_graph tracer as app/record/ftrace.py *)
(* keeps them (class Stack): the nodes in the order of their calls, each   *)
(* with its depth.  Repeated calls within a tree are folded, and trees are *)
(* merged.  Positions are counted from 0 as in the code: position i of a   *)
(* stack is its element i + 1.                                             *)
(***************************************************************************)
EXTENDS Integers, Sequences

NoTime == -1     \* a duration that is None

Node(name, depth, calltime, duration) ==
  [name |-> name, depth |-> depth, calltime |-> calltime, duration |-> duration,
   count |-> IF duration = NoTime THEN 0 ELSE 1,
   sumtime |-> IF duration = NoTime THEN 0 ELSE duration]

\* The sum of a sequence of numbers.
Total(w) ==
  LET upto[i \in 0..Len(w)] == IF i = 0 THEN 0 ELSE upto[i - 1] + w[i]
  IN  upto[Len(w)]

\* The time of the calls at the positions P.
Time(stack, P) == Total([i \in 1..Len(stack) |-> IF i \in P THEN stack[i].sumtime ELSE 0])

-----------------------------------------------------------------------------
(* foldstack                                                               *)

\* The calls from mb up to fb are called again, in the same order, at fb.
Repeats(stack, mb, fb) ==
  LET k == fb - mb
  IN  fb + k <= Len(stack) /\ \A i \in 1..k : stack[mb + i].name = stack[fb + i].name

\* Those at fb are added to those at mb and removed.
FoldedAt(stack, mb, fb) ==
  LET k == fb - mb
      Sum(i) == [stack[i] EXCEPT !.count = @ + stack[i + k].count,
                                 !.sumtime = @ + stack[i + k].sumtime]
  IN  [i \in 1..Len(stack) - k |-> CASE i <= mb -> stack[i]
                                     [] i > mb /\ i <= fb -> Sum(i)
                                     [] i > fb -> stack[i + k]]

\* The loop over matchbegin: s[mb] is what is there once mb has been tried.  A fold
\* moves foldbegin back, and the loop goes on.
FoldInto(stack, foldbegin) ==
  LET s[mb \in 1..foldbegin] ==
        IF mb = foldbegin THEN [stack |-> stack, fb |-> foldbegin]
        ELSE IF Repeats(s[mb + 1].stack, mb, s[mb + 1].fb)
        THEN [stack |-> FoldedAt(s[mb + 1].stack, mb, s[mb + 1].fb), fb |-> s[mb + 1].fb - 1]
        ELSE s[mb + 1]
  IN  s[1]

\* A round of the loop over foldbegin, for the calls of one depth.
FoldRound(s, depth) ==
  IF s.fb >= Len(s.stack) THEN s
  ELSE IF s.stack[s.fb + 1].depth # depth THEN [s EXCEPT !.fb = @ + 1]
  ELSE [FoldInto(s.stack, s.fb) EXCEPT !.fb = @ + 1]

\* Each round leaves fewer calls after foldbegin.
FoldDepth(stack, depth) ==
  LET s[n \in 0..Len(stack)] == IF n = 0 THEN [stack |-> stack, fb |-> 1]
                                ELSE FoldRound(s[n - 1], depth)
  IN  s[Len(stack)].stack

\* The deepest calls first.
Fold(stack) ==
  LET s[depth \in 1..21] == IF depth = 21 THEN stack ELSE FoldDepth(s[depth + 1], depth)
  IN  s[1]

-----------------------------------------------------------------------------
(* compare and merge                                                       *)

SameCall(a, b) == a.name = b.name /\ a.depth = b.depth

\* The sum of a time and None raises.
Broken == -1
Raises(stack) == \E i \in DOMAIN stack : stack[i].sumtime = Broken

\* A call that both trees have: the count and the time of one call are added.
Both(a, b) == [a EXCEPT !.count = @ + 1,
                        !.sumtime = IF b.duration = NoTime THEN Broken ELSE @ + b.duration]

\* Mutant: the shallower comes first.
NewFirstShallow(a, b, stack) ==
  \/ b.depth < a.depth
  \/ b.depth = a.depth /\ \E k \in DOMAIN stack : stack[k].name = a.name

\* Of two different calls the deeper comes first; of two at one depth the one of
\* the new tree, if that has the other's name somewhere.
NewFirst(a, b, stack) ==
  \/ b.depth > a.depth
  \/ b.depth = a.depth /\ \E k \in DOMAIN stack : stack[k].name = a.name

\* A round of the loop: the next call of the old tree, of the new one or of both goes
\* to the merged one.
MergeRound(old, new, s) ==
  LET oldLeft == s.i <= Len(old)
      newLeft == s.j <= Len(new)
  IN  IF oldLeft /\ newLeft /\ SameCall(old[s.i], new[s.j])
      THEN [i |-> s.i + 1, j |-> s.j + 1, top |-> Append(s.top, Both(old[s.i], new[s.j]))]
      ELSE IF newLeft /\ (oldLeft => NewFirst(old[s.i], new[s.j], new))
      THEN [i |-> s.i, j |-> s.j + 1, top |-> Append(s.top, new[s.j])]
      ELSE IF oldLeft
      THEN [i |-> s.i + 1, j |-> s.j, top |-> Append(s.top, old[s.i])]
      ELSE s

\* The first tree is taken as it is.
Merge(old, new) ==
  LET s[n \in 0..Len(old) + Len(new)] ==
        IF n = 0 THEN [i |-> 1, j |-> 1, top |-> <<>>] ELSE MergeRound(old, new, s[n - 1])
  IN  s[Len(old) + Len(new)].top

SameNames(a, b) == Len(a) = Len(b) /\ \A i \in DOMAIN a : a[i].name = b[i].name

\* A list of different trees: the new one is merged into the first that has its
\* names, or put at the end.
Listed(list, stack) ==
  IF \A i \in DOMAIN list : ~SameNames(list[i], stack)
  THEN Append(list, stack)
  ELSE LET i == CHOOSE k \in DOMAIN list :
                  SameNames(list[k], stack) /\ \A h \in 1..k - 1 : ~SameNames(list[h], stack)
       IN  [list EXCEPT ![i] = Merge(@, stack)]
=============================================================================
