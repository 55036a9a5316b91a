----------------------------- MODULE FtraceWalk -----------------------------
(***************************************************************************)
(* The analysis of a function_graph trace (app/record/ftrace.py, tostack). *)
(* Threads of the device call and return; the tracer writes a line for an  *)
(* entry and one for a return, or a single line for both.  The kernel's    *)
(* buffers, one for each processor, are written over, so that lines of a   *)
(* thread that changes its processor may be missing anywhere before a      *)
(* certain moment.  tostack reads the lines in the order of their times:   *)
(* each is handled here when it is written.                                *)
(***************************************************************************)
EXTENDS FtraceStack, SequencesExt

CONSTANTS
  Pids,        \* the threads that call the traced function
  Root,        \* the traced function
  Inner,       \* the functions it calls
  MaxDepth,    \* bound for each thread: the depth of its calls
  Effort,      \* bound: what the lines of a trace may cost together
  Cost,        \* what a line of each thread costs
  LossCost     \* what it costs more if it is missing

ASSUME NamesAssumption == Root \notin Inner
ASSUME BoundsAssumption == /\ MaxDepth \in [Pids -> Nat]
                           /\ Effort \in Nat /\ LossCost \in Nat
                           /\ Cost \in [Pids -> Nat \ {0}]

VARIABLES
  calls,       \* calls in progress: name, time, and whether the entry has a line
  now,         \* time: one tick for each line
  cost,        \* what the lines have cost
  walkstack,   \* the call tree in work for each thread (empty: not in process)
  stacklist, latencylist,   \* its different trees, and its calls: <<time, duration>>
  STACKLIST, LATENCYLIST,   \* the same for all threads
  STACKTOP,    \* all trees in one
  state,       \* "reading", "drawn", "raised"
  line,        \* history of each thread: no line "yet", "written", a line "missing"
               \* after one that was written
  measured,    \* history: its calls of Root of which both ends have a line
  levels,      \* history: the functions, each with the depths it was seen at
  spent,       \* history: the time of all calls of the trees that were complete
  folded       \* history: calls of one tree have been folded

trees == <<stacklist, latencylist, STACKLIST, LATENCYLIST, STACKTOP, state, spent, folded>>
vars == <<calls, now, cost, walkstack, trees, line, measured, levels>>

Names == Inner \cup {Root}

Init == /\ calls = [p \in Pids |-> <<>>] /\ now = 0 /\ cost = 0
        /\ walkstack = [p \in Pids |-> <<>>]
        /\ stacklist = [p \in Pids |-> <<>>] /\ latencylist = [p \in Pids |-> <<>>]
        /\ STACKLIST = <<>> /\ LATENCYLIST = <<>> /\ STACKTOP = <<>>
        /\ state = "reading"
        /\ line = [p \in Pids |-> "yet"] /\ measured = [p \in Pids |-> <<>>]
        /\ levels = {} /\ spent = [n \in Names |-> 0] /\ folded = FALSE

-----------------------------------------------------------------------------
(* The walk                                                                *)

\* The time of the calls of n in a stack.
TimeOf(stack, n) == Time(stack, {i \in DOMAIN stack : stack[i].name = n})

\* commit and addtotop: the tree of p is complete.  After an exception nothing
\* reads what was done.
Commit(p, tree) ==
  LET laststack == Fold(tree)
      lastlatency == <<laststack[1].calltime, laststack[1].duration>>
  IN  /\ walkstack' = [walkstack EXCEPT ![p] = <<>>]
      /\ latencylist' = [latencylist EXCEPT ![p] = Append(@, lastlatency)]
      /\ LATENCYLIST' = Append(LATENCYLIST, lastlatency)
      /\ stacklist' = [stacklist EXCEPT ![p] = Listed(@, laststack)]
      /\ STACKLIST' = Listed(STACKLIST, laststack)
      /\ STACKTOP' = Merge(STACKTOP, laststack)
      /\ state' = IF \/ Raises(STACKTOP')
                     \/ \E i \in DOMAIN STACKLIST' : Raises(STACKLIST'[i])
                     \/ \E i \in DOMAIN stacklist'[p] : Raises(stacklist'[p][i])
                  THEN "raised" ELSE state
      /\ spent' = [n \in Names |-> spent[n] + TimeOf(tree, n)]
      /\ folded' = (folded \/ laststack # tree)

\* Mutant: a tree in work is not given up for a new one.
AddKeeps(p, node) ==
  IF node.depth = 0 /\ node.duration # NoTime
  THEN Commit(p, Append(walkstack[p], node))
  ELSE walkstack' = [walkstack EXCEPT ![p] = Append(@, node)] /\ UNCHANGED trees

\* add.  A tree whose end was not seen is given up; a call whose tree has no
\* beginning is dropped.
Add(p, node) ==
  IF node.depth = 0
  THEN IF node.duration # NoTime
       THEN Commit(p, <<node>>)
       ELSE walkstack' = [walkstack EXCEPT ![p] = <<node>>] /\ UNCHANGED trees
  ELSE /\ walkstack' = [walkstack EXCEPT ![p] = IF @ = <<>> THEN @ ELSE Append(@, node)]
       /\ UNCHANGED trees

\* The last call of that depth that has no end yet.
Open(stack, depth) ==
  {i \in DOMAIN stack : stack[i].depth = depth /\ stack[i].duration = NoTime}

\* addend
AddEnd(p, depth, duration) ==
  LET open == Open(walkstack[p], depth)
      Ended(n) == [n EXCEPT !.duration = duration, !.sumtime = @ + duration, !.count = @ + 1]
      tree == IF open = {} THEN walkstack[p]
              ELSE [walkstack[p] EXCEPT ![Max(open)] = Ended(@)]
  IN  IF depth = 0 /\ tree # <<>> THEN Commit(p, tree)
      ELSE walkstack' = [walkstack EXCEPT ![p] = tree] /\ UNCHANGED trees

-----------------------------------------------------------------------------
(* The threads and the tracer                                              *)

Depth(p) == Len(calls[p])
Callable(p) == IF Depth(p) = 0 THEN {Root} ELSE IF Depth(p) > MaxDepth[p] THEN {} ELSE Inner

\* A line is written, and handled, or is missing.
Line(p, written, handled) ==
  /\ state = "reading"
  /\ now' = now + 1
  /\ cost' = cost + Cost[p] + (IF written THEN 0 ELSE LossCost) /\ cost' <= Effort
  /\ IF written THEN handled ELSE UNCHANGED <<walkstack, trees>>
  /\ line' = [line EXCEPT ![p] = CASE written /\ @ = "yet" -> "written"
                                   [] ~written /\ @ = "written" -> "missing"
                                   [] OTHER -> @]

Seen(written, n, depth) == levels' = IF written THEN levels \cup {<<n, depth>>} ELSE levels

\* func() {
Enter(p) == \E n \in Callable(p), written \in BOOLEAN :
  /\ Line(p, written, Add(p, Node(n, Depth(p), now + 1, NoTime)))
  /\ Seen(written, n, Depth(p))
  /\ calls' = [calls EXCEPT ![p] = Append(@, [name |-> n, at |-> now + 1, written |-> written])]
  /\ UNCHANGED measured

\* func();
Leaf(p) == \E n \in Callable(p), written \in BOOLEAN :
  /\ Line(p, written, Add(p, Node(n, Depth(p), now + 1, 1)))
  /\ Seen(written, n, Depth(p))
  /\ measured' = [measured EXCEPT ![p] = IF written /\ n = Root THEN Append(@, <<now + 1, 1>>) ELSE @]
  /\ UNCHANGED calls

\* }
Return(p) == \E written \in BOOLEAN :
  /\ calls[p] # <<>>
  /\ LET call == Last(calls[p])
         duration == now + 1 - call.at
     IN  /\ Line(p, written, AddEnd(p, Depth(p) - 1, duration))
         /\ calls' = [calls EXCEPT ![p] = Front(@)]
         /\ measured' = [measured EXCEPT ![p] =
                           IF written /\ call.written /\ call.name = Root
                           THEN Append(@, <<call.at, duration>>) ELSE @]
  /\ UNCHANGED levels

-----------------------------------------------------------------------------
(* The pictures                                                            *)

\* Mutant: only the call before is taken for its caller.
NoCallerBefore == \E i \in DOMAIN STACKTOP \ {1} :
  STACKTOP[i].depth > 0 /\ STACKTOP[i - 1].depth # STACKTOP[i].depth - 1

\* gengraphviz: a call at a depth above which it has seen none.
NoParent == \E i \in DOMAIN STACKTOP :
  STACKTOP[i].depth > 0 /\ \A j \in 1..i - 1 : STACKTOP[j].depth # STACKTOP[i].depth - 1

Columns == 50

\* list_to_heatmap: times are taken from the first call in the list, and the
\* width is the time of the last: a call that began earlier has a negative column,
\* which is counted from the other side until there are no more columns.
OffTheMap ==
  LET first == LATENCYLIST[1][1]
      width == Last(LATENCYLIST)[1] - first
      Side(t) == IF width < 0 THEN -(t - first) ELSE t - first
  IN  /\ \E i, j \in DOMAIN LATENCYLIST : LATENCYLIST[i][2] # LATENCYLIST[j][2]
      /\ width # 0
      /\ \E i \in DOMAIN LATENCYLIST :
           Side(LATENCYLIST[i][1]) * Columns <= -(Columns + 1) * Side(Last(LATENCYLIST)[1])

\* The trace ends; the end of tostack, and the answer of ftrace_stop.
Draw == /\ state = "reading"
        /\ state' = IF NoParent \/ (LATENCYLIST # <<>> /\ OffTheMap) THEN "raised" ELSE "drawn"
        /\ UNCHANGED <<calls, now, cost, walkstack, stacklist, latencylist, STACKLIST,
                       LATENCYLIST, STACKTOP, spent, folded, line, measured, levels>>

Next == (\E p \in Pids : Enter(p) \/ Leaf(p) \/ Return(p)) \/ Draw

Spec == Init /\ [][Next]_vars

-----------------------------------------------------------------------------
(* Properties                                                              *)

Gap == \E p \in Pids : line[p] = "missing"
Reused == \E a, b \in levels : a[1] = b[1] /\ a[2] # b[2]
Overlapping == \E i, j \in DOMAIN LATENCYLIST :
                 i < j /\ LATENCYLIST[i][1] > LATENCYLIST[j][1]

\* Every call of the traced function of which the trace has both ends is measured
\* with its own time and duration, whatever lines are missing before it, between
\* its ends, or of calls of other threads; and nothing else is measured if no
\* line of that thread is missing between two others.
CallsMeasured ==
  state # "raised" =>
    \A p \in Pids : /\ Range(measured[p]) \subseteq Range(latencylist[p])
                    /\ line[p] # "missing" => latencylist[p] = measured[p]

\* The calls below the call at i.
Children(stack, i) == {j \in i + 1..Len(stack) :
                         /\ stack[j].depth = stack[i].depth + 1
                         /\ \A k \in i + 1..j : stack[k].depth > stack[i].depth}

\* No call has less time than the calls below it.
Covers(stack) == \A i \in DOMAIN stack : Time(stack, Children(stack, i)) <= stack[i].sumtime

\* The merged tree that the flame graph shows: the traced function has the time of
\* all its calls and no function has more than its calls took; and if no tree has
\* repeated calls to fold, every function has the time of all its calls, and no
\* call has less time than the calls below it, unless lines are missing.
TimesKept ==
  state # "raised" =>
    /\ TimeOf(STACKTOP, Root) = Total([i \in DOMAIN LATENCYLIST |-> LATENCYLIST[i][2]])
    /\ \A n \in Names : TimeOf(STACKTOP, n) <= spent[n]
    /\ ~folded => /\ \A n \in Names : TimeOf(STACKTOP, n) = spent[n]
                  /\ Gap \/ Covers(STACKTOP)

\* The pages get their pictures, unless a function is called at several depths,
\* calls of several threads end in another order than they began, or lines of a
\* thread are missing between others.
NeverRaises == state = "raised" => Reused \/ Overlapping \/ Gap

-----------------------------------------------------------------------------
(* The strengthening of the properties that is inductive                   *)

Calls == [name : Names, at : Nat, written : BOOLEAN]
Nodes == [name : Names, depth : Nat, calltime : Nat, duration : Nat \cup {NoTime},
          count : Nat, sumtime : Nat]
Latencies == Seq(Nat \X Nat)

Typed == /\ calls \in [Pids -> Seq(Calls)] /\ now \in Nat
         /\ walkstack \in [Pids -> Seq(Nodes)]
         /\ stacklist \in [Pids -> Seq(Seq(Nodes))]
         /\ latencylist \in [Pids -> Latencies] /\ measured \in [Pids -> Latencies]
         /\ STACKLIST \in Seq(Seq(Nodes)) /\ LATENCYLIST \in Latencies
         /\ STACKTOP \in Seq(Nodes)
         /\ line \in [Pids -> {"yet", "written", "missing"}]
         /\ levels \in SUBSET (Names \X Nat)
         /\ spent \in [Names -> Nat] /\ folded \in BOOLEAN

\* The first call of a tree is the traced function, and the others are below it.
Rooted(stack) == \A i \in DOMAIN stack : /\ stack[i].name = Root <=> i = 1
                                         /\ stack[i].depth = 0 <=> i = 1

\* Each call has one above it.
HasParents(stack) == \A i \in DOMAIN stack :
  stack[i].depth > 0 => \E j \in 1..i - 1 : stack[j].depth = stack[i].depth - 1

\* Nothing has been folded or merged.
Unfolded(stack) == \A i \in DOMAIN stack :
  stack[i].sumtime = IF stack[i].duration = NoTime THEN 0 ELSE stack[i].duration

\* The threads call Root and, below it, functions of Inner.
CallsRooted == \A p \in Pids : \A i \in DOMAIN calls[p] : /\ calls[p][i].name = Root <=> i = 1
                                                          /\ calls[p][i].at <= now

\* The tree in work: its first call has no end yet, and is the call of Root in
\* progress if that has a line.
InWork(p) ==
  LET tree == walkstack[p]
  IN  /\ Rooted(tree) /\ Unfolded(tree)
      /\ \A i \in DOMAIN tree : <<tree[i].name, tree[i].depth>> \in levels
      /\ tree # <<>> => tree[1].duration = NoTime
      /\ calls[p] # <<>> /\ calls[p][1].written =>
           tree # <<>> /\ tree[1].calltime = calls[p][1].at

\* When the call in progress below the call at that depth began, or the time now.
Until(p, depth) == IF depth + 2 <= Len(calls[p]) THEN calls[p][depth + 2].at ELSE now

\* While no line is missing the tree in work has the calls in progress open, each
\* with what came after it below it, and their times cover those of the calls that
\* ended within them.
Followed(p) ==
  LET tree == walkstack[p]
  IN  /\ latencylist[p] = measured[p]
      /\ line[p] = "yet" => /\ tree = <<>>
                            /\ \A i \in DOMAIN calls[p] : ~calls[p][i].written
      /\ tree # <<>> =>
           /\ calls[p] # <<>> /\ \A i \in DOMAIN calls[p] : calls[p][i].written
           /\ HasParents(tree)
           /\ \A d \in 0..Len(calls[p]) - 1 : Open(tree, d) # {}
           /\ \A i \in DOMAIN tree :
                IF tree[i].duration # NoTime
                THEN Time(tree, Children(tree, i)) <= tree[i].sumtime
                ELSE /\ tree[i].depth < Len(calls[p])
                     /\ tree[i].calltime = calls[p][tree[i].depth + 1].at
                     /\ \A j \in i + 1..Len(tree) : tree[j].depth > tree[i].depth
                     /\ Time(tree, Children(tree, i)) <=
                          Until(p, tree[i].depth) - tree[i].calltime

\* The trees that were complete.
TopRooted == Rooted(STACKTOP)
TopHasParents == Gap \/ Reused \/ HasParents(STACKTOP)
AllMeasured == \A p \in Pids : Range(measured[p]) \subseteq Range(latencylist[p])

IInv == /\ NeverRaises
        /\ state # "raised" => /\ Typed /\ TimesKept
                               /\ CallsRooted /\ AllMeasured
                               /\ TopRooted /\ TopHasParents
                               /\ \A p \in Pids : /\ InWork(p)
                                                  /\ line[p] # "missing" => Followed(p)
=============================================================================
