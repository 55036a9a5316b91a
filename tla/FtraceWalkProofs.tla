-------------------------- MODULE FtraceWalkProofs --------------------------
(***************************************************************************)
(* For all threads and functions, and traces of any length: the calls of   *)
(* the traced function are measured right, the merged tree keeps the times *)
(* of all calls, and no page fails without one of the known reasons.       *)
(***************************************************************************)
EXTENDS FtraceWalk, WellFoundedInduction, TLAPS

-----------------------------------------------------------------------------
(* Induction, for sets of numbers                                          *)

\* A set of numbers that is not empty has a least one.
LEMMA LeastNumber ==
  ASSUME NEW S \in SUBSET Nat, S # {}
  PROVE  \E x \in S : \A y \in S : x <= y
<1>1. PICK x \in S : \A y \in S : ~(<<y, x>> \in OpToRel(<, Nat))
  BY NatLessThanWellFounded, WFMin
<1>2. \A y \in S : ~(y < x)
  BY <1>1 DEF OpToRel
<1> QED
  BY <1>2

LEMMA AllNumbers ==
  ASSUME NEW S, 0 \in S, \A n \in Nat : n \in S => n + 1 \in S
  PROVE  \A n \in Nat : n \in S
<1> DEFINE T == {n \in Nat : n \notin S}
<1> SUFFICES ASSUME T # {} PROVE FALSE
  OBVIOUS
<1>1. PICK n \in T : \A m \in T : n <= m
  BY LeastNumber
<1>2. n - 1 \in Nat /\ n - 1 \notin T
  BY <1>1
<1>3. (n - 1) + 1 \in S
  BY <1>2
<1> QED
  BY <1>1, <1>3

-----------------------------------------------------------------------------
(* Sums                                                                    *)

\* h has the sums of the first none, one, ... n numbers of w.
Sums(w, n, h) == h = [i \in 0..n |-> IF i = 0 THEN 0 ELSE h[i - 1] + w[i]]

LEMMA SumsExist == ASSUME NEW w, NEW n \in Nat PROVE \E h : Sums(w, n, h)
<1> DEFINE T == {k \in Nat : \E h : Sums(w, k, h)}
<1>1. 0 \in T
  <2> DEFINE h == [i \in 0..0 |-> 0]
  <2>1. Sums(w, 0, h)
    BY DEF Sums
  <2> HIDE DEF h
  <2> QED
    BY <2>1
<1>2. ASSUME NEW k \in Nat, k \in T PROVE k + 1 \in T
  <2>1. PICK g : Sums(w, k, g)
    BY <1>2
  <2> DEFINE h == [i \in 0..k + 1 |-> IF i <= k THEN g[i] ELSE g[k] + w[k + 1]]
  <2>2. ASSUME NEW i \in 0..k + 1 PROVE h[i] = IF i = 0 THEN 0 ELSE h[i - 1] + w[i]
    <3>1. CASE i = k + 1
      BY <3>1
    <3>2. CASE i # k + 1
      <4>1. i \in 0..k /\ i <= k /\ (i # 0 => i - 1 \in 0..k /\ i - 1 <= k)
        BY <3>2
      <4>2. g[i] = IF i = 0 THEN 0 ELSE g[i - 1] + w[i]
        BY <2>1, <4>1 DEF Sums
      <4> QED
        BY <4>1, <4>2
    <3> QED
      BY <3>1, <3>2
  <2>3. h = [i \in 0..k + 1 |-> h[i]]
    OBVIOUS
  <2> HIDE DEF h
  <2>4. Sums(w, k + 1, h)
    BY <2>2, <2>3 DEF Sums
  <2> QED
    BY <2>4
<1> HIDE DEF T
<1>3. n \in T
  BY <1>1, <1>2, AllNumbers
<1> QED
  BY <1>3 DEF T

\* What they are, when w has numbers.
LEMMA SumsSteps ==
  ASSUME NEW w, NEW n \in Nat, NEW h, Sums(w, n, h), \A i \in 1..n : w[i] \in Int
  PROVE  /\ h[0] = 0 /\ \A i \in 1..n : h[i] = h[i - 1] + w[i]
         /\ \A i \in 0..n : h[i] \in Int
<1>1. h[0] = 0 /\ \A i \in 1..n : h[i] = h[i - 1] + w[i]
  <2>1. ASSUME NEW i \in 0..n PROVE h[i] = IF i = 0 THEN 0 ELSE h[i - 1] + w[i]
    BY DEF Sums
  <2>2. 0 \in 0..n /\ \A i \in 1..n : i \in 0..n /\ i # 0
    OBVIOUS
  <2> QED
    BY <2>1, <2>2
<1> DEFINE T == {k \in Nat : k <= n => h[k] \in Int}
<1>2. 0 \in T
  BY <1>1
<1>3. ASSUME NEW k \in Nat, k \in T PROVE k + 1 \in T
  <2> SUFFICES ASSUME k + 1 <= n PROVE h[k + 1] \in Int
    OBVIOUS
  <2>1. k + 1 \in 1..n /\ (k + 1) - 1 = k /\ h[k] \in Int
    BY <1>3
  <2>2. h[k + 1] = h[k] + w[k + 1]
    BY <1>1, <2>1
  <2> QED
    BY <2>1, <2>2
<1> HIDE DEF T
<1>4. \A k \in Nat : k \in T
  BY <1>2, <1>3, AllNumbers
<1> QED
  BY <1>1, <1>4 DEF T

LEMMA TotalIs ==
  ASSUME NEW w, NEW n \in Nat, Len(w) = n
  PROVE  \E h : Sums(w, n, h) /\ Total(w) = h[n]
<1> DEFINE f == CHOOSE h : h = [i \in 0..Len(w) |-> IF i = 0 THEN 0 ELSE h[i - 1] + w[i]]
<1>1. \E h : h = [i \in 0..Len(w) |-> IF i = 0 THEN 0 ELSE h[i - 1] + w[i]]
  BY SumsExist DEF Sums
<1>2. f = [i \in 0..Len(w) |-> IF i = 0 THEN 0 ELSE f[i - 1] + w[i]]
  BY <1>1
<1>3. Total(w) = f[Len(w)]
  BY DEF Total
<1> HIDE DEF f
<1> QED
  BY <1>2, <1>3 DEF Sums

\* A sum of numbers is a number, of natural ones a natural one, of zeros zero.
LEMMA TotalType ==
  ASSUME NEW w, NEW n \in Nat, Len(w) = n, \A i \in 1..n : w[i] \in Int
  PROVE  /\ Total(w) \in Int
         /\ (\A i \in 1..n : w[i] >= 0) => Total(w) >= 0
         /\ (\A i \in 1..n : w[i] = 0) => Total(w) = 0
<1>1. PICK h : Sums(w, n, h) /\ Total(w) = h[n]
  BY TotalIs
<1>2. /\ h[0] = 0 /\ \A i \in 1..n : h[i] = h[i - 1] + w[i]
      /\ \A i \in 0..n : h[i] \in Int
  BY <1>1, SumsSteps
<1>3. ASSUME \A i \in 1..n : w[i] >= 0 PROVE h[n] >= 0
  <2> DEFINE T == {k \in Nat : k <= n => h[k] >= 0}
  <2>1. 0 \in T
    BY <1>2
  <2>2. ASSUME NEW k \in Nat, k \in T PROVE k + 1 \in T
    <3> SUFFICES ASSUME k + 1 <= n PROVE h[k + 1] >= 0
      OBVIOUS
    <3>1. k + 1 \in 1..n /\ (k + 1) - 1 = k /\ h[k] >= 0 /\ k \in 0..n
      BY <2>2
    <3>2. h[k + 1] = h[k] + w[k + 1] /\ h[k] \in Int /\ w[k + 1] >= 0 /\ w[k + 1] \in Int
      BY <1>2, <1>3, <3>1
    <3> QED
      BY <3>1, <3>2
  <2> HIDE DEF T
  <2>3. n \in T
    BY <2>1, <2>2, AllNumbers
  <2> QED
    BY <2>3 DEF T
<1>4. ASSUME \A i \in 1..n : w[i] = 0 PROVE h[n] = 0
  <2> DEFINE T == {k \in Nat : k <= n => h[k] = 0}
  <2>1. 0 \in T
    BY <1>2
  <2>2. ASSUME NEW k \in Nat, k \in T PROVE k + 1 \in T
    <3> SUFFICES ASSUME k + 1 <= n PROVE h[k + 1] = 0
      OBVIOUS
    <3>1. k + 1 \in 1..n /\ (k + 1) - 1 = k /\ h[k] = 0
      BY <2>2
    <3>2. h[k + 1] = h[k] + w[k + 1] /\ w[k + 1] = 0
      BY <1>2, <1>4, <3>1
    <3> QED
      BY <3>1, <3>2
  <2> HIDE DEF T
  <2>3. n \in T
    BY <2>1, <2>2, AllNumbers
  <2> QED
    BY <2>3 DEF T
<1> QED
  BY <1>1, <1>2, <1>3, <1>4

\* One number more.
LEMMA TotalMore ==
  ASSUME NEW v, NEW w, NEW n \in Nat, Len(v) = n, Len(w) = n + 1,
         \A i \in 1..n : w[i] = v[i], \A i \in 1..n + 1 : w[i] \in Int
  PROVE  Total(w) = Total(v) + w[n + 1]
<1> DEFINE m == n + 1
<1>1. /\ m \in Nat /\ Len(w) = m /\ m \in 1..m /\ m - 1 = n
      /\ \A i \in 1..m : w[i] \in Int
      /\ \A i \in 1..n : i \in 1..m
  OBVIOUS
<1> HIDE DEF m
<1>2. \A i \in 1..n : v[i] \in Int
  BY <1>1
<1>3. PICK g : Sums(v, n, g) /\ Total(v) = g[n]
  BY TotalIs
<1>4. PICK h : Sums(w, m, h) /\ Total(w) = h[m]
  BY <1>1, TotalIs
<1>5. g[0] = 0 /\ \A i \in 1..n : g[i] = g[i - 1] + v[i]
  BY <1>2, <1>3, SumsSteps, ZenonT(30)
<1>6. h[0] = 0 /\ \A i \in 1..m : h[i] = h[i - 1] + w[i]
  BY <1>1, <1>4, SumsSteps, ZenonT(30)
<1> DEFINE T == {k \in Nat : k <= n => g[k] = h[k]}
<1>7. 0 \in T
  BY <1>5, <1>6
<1>8. ASSUME NEW k \in Nat, k \in T PROVE k + 1 \in T
  <2> SUFFICES ASSUME k + 1 <= n PROVE g[k + 1] = h[k + 1]
    OBVIOUS
  <2>1. k + 1 \in 1..n /\ k + 1 \in 1..m /\ (k + 1) - 1 = k /\ g[k] = h[k]
    BY <1>1, <1>8
  <2>2. g[k + 1] = g[k] + v[k + 1] /\ h[k + 1] = h[k] + w[k + 1]
    BY <1>5, <1>6, <2>1
  <2> QED
    BY <2>1, <2>2
<1> HIDE DEF T
<1>9. n \in T
  BY <1>7, <1>8, AllNumbers
<1>10. h[m] = h[n] + w[m] /\ g[n] = h[n]
  BY <1>1, <1>6, <1>9 DEF T
<1> QED
  BY <1>3, <1>4, <1>10 DEF m

\* One number changed.
LEMMA TotalChanged ==
  ASSUME NEW v, NEW w, NEW n \in Nat, Len(v) = n, Len(w) = n, NEW c,
         \A i \in 1..n : i # c => w[i] = v[i],
         \A i \in 1..n : v[i] \in Int, \A i \in 1..n : w[i] \in Int
  PROVE  /\ c \in 1..n => Total(w) = Total(v) - v[c] + w[c]
         /\ c \notin 1..n => Total(w) = Total(v)
<1>1. PICK g : Sums(v, n, g) /\ Total(v) = g[n]
  BY TotalIs
<1>2. PICK h : Sums(w, n, h) /\ Total(w) = h[n]
  BY TotalIs
<1>3. /\ g[0] = 0 /\ \A i \in 1..n : g[i] = g[i - 1] + v[i]
      /\ \A i \in 0..n : g[i] \in Int
  BY <1>1, SumsSteps
<1>4. /\ h[0] = 0 /\ \A i \in 1..n : h[i] = h[i - 1] + w[i]
      /\ \A i \in 0..n : h[i] \in Int
  BY <1>2, SumsSteps
<1> DEFINE Change(k) == IF c \in 1..k THEN w[c] - v[c] ELSE 0
           T == {k \in Nat : k <= n => h[k] = g[k] + Change(k)}
<1>5. 0 \in T
  <2>1. Change(0) = 0
    OBVIOUS
  <2> HIDE DEF Change
  <2> QED
    BY <1>3, <1>4, <2>1
<1>6. ASSUME NEW k \in Nat, k \in T PROVE k + 1 \in T
  <2> SUFFICES ASSUME k + 1 <= n PROVE h[k + 1] = g[k + 1] + Change(k + 1)
    OBVIOUS
  <2>1. k + 1 \in 1..n /\ (k + 1) - 1 = k /\ h[k] = g[k] + Change(k) /\ k \in 0..n
    BY <1>6
  <2>2. g[k + 1] = g[k] + v[k + 1] /\ h[k + 1] = h[k] + w[k + 1]
    BY <1>3, <1>4, <2>1
  <2>3. g[k] \in Int /\ v[k + 1] \in Int /\ w[k + 1] \in Int
    BY <1>3, <2>1
  <2>4. CASE c = k + 1
    <3>1. Change(k) = 0 /\ Change(k + 1) = w[k + 1] - v[k + 1]
      BY <2>4
    <3> QED
      BY <2>1, <2>2, <2>3, <3>1
  <2>5. CASE c # k + 1
    <3>1. w[k + 1] = v[k + 1]
      BY <2>1, <2>5
    <3>2. c \in 1..k + 1 <=> c \in 1..k
      BY <2>5
    <3>3. Change(k + 1) = Change(k) /\ Change(k) \in Int
      <4>1. c \in 1..k => c \in 1..n
        BY <2>1
      <4> QED
        BY <3>2, <4>1
    <3> HIDE DEF Change
    <3> QED
      BY <2>1, <2>2, <2>3, <3>1, <3>3
  <2> QED
    BY <2>4, <2>5
<1> HIDE DEF T
<1>7. n \in T
  BY <1>5, <1>6, AllNumbers
<1>8. h[n] = g[n] + Change(n)
  BY <1>7 DEF T
<1>9. g[n] \in Int /\ (c \in 1..n => v[c] \in Int /\ w[c] \in Int)
  BY <1>3
<1> QED
  BY <1>1, <1>2, <1>8, <1>9

\* k numbers from b on are added to the k before them, and removed.
LEMMA TotalFolded ==
  ASSUME NEW v, NEW w, NEW n \in Nat, NEW b \in Nat, NEW k \in Nat,
         k <= b, b + k <= n, Len(v) = n, Len(w) = n - k,
         \A i \in 1..n : v[i] \in Int,
         \A i \in 1..n - k : w[i] = IF i <= b - k THEN v[i]
                                    ELSE IF i <= b THEN v[i] + v[i + k] ELSE v[i + k]
  PROVE  Total(w) = Total(v)
<1>1. PICK g : Sums(v, n, g) /\ Total(v) = g[n]
  BY TotalIs
<1>2. n - k \in Nat
  OBVIOUS
<1>3. PICK h : Sums(w, n - k, h) /\ Total(w) = h[n - k]
  BY <1>2, TotalIs
<1>4. /\ g[0] = 0 /\ \A i \in 1..n : g[i] = g[i - 1] + v[i]
      /\ \A i \in 0..n : g[i] \in Int
  BY <1>1, SumsSteps
<1>5. ASSUME NEW i \in 1..n - k
      PROVE  w[i] \in Int /\ v[i] \in Int /\ v[i + k] \in Int /\ i \in 1..n /\ i + k \in 1..n
  <2>1. i \in 1..n /\ i + k \in 1..n
    OBVIOUS
  <2>2. v[i] \in Int /\ v[i + k] \in Int
    BY <2>1
  <2> QED
    BY <2>1, <2>2
<1>6. h[0] = 0 /\ \A i \in 1..n - k : h[i] = h[i - 1] + w[i]
  <2> DEFINE m == n - k
  <2>1. m \in Nat /\ Sums(w, m, h) /\ \A i \in 1..m : w[i] \in Int
    BY <1>2, <1>3, <1>5
  <2> HIDE DEF m
  <2>2. h[0] = 0 /\ \A i \in 1..m : h[i] = h[i - 1] + w[i]
    BY <2>1, SumsSteps
  <2> QED
    BY <2>2 DEF m
<1> DEFINE Sum(m) == IF m <= b - k THEN g[m]
                     ELSE IF m <= b THEN g[m] + g[m + k] - g[b] ELSE g[m + k]
           T == {m \in Nat : m <= n - k => h[m] = Sum(m)}
<1>7. 0 \in T
  BY <1>4, <1>6
<1>8. ASSUME NEW m \in Nat, m \in T PROVE m + 1 \in T
  <2> SUFFICES ASSUME m + 1 <= n - k PROVE h[m + 1] = Sum(m + 1)
    OBVIOUS
  <2>1. /\ m + 1 \in 1..n - k /\ (m + 1) - 1 = m /\ h[m] = Sum(m) /\ m \in 0..n
        /\ m + 1 \in 1..n /\ (m + 1) + k \in 1..n /\ ((m + 1) + k) - 1 = m + k
        /\ m + k \in 0..n /\ b \in 0..n
    BY <1>8
  <2>2. h[m + 1] = h[m] + w[m + 1]
    BY <1>6, <2>1
  <2>3. g[m + 1] = g[m] + v[m + 1] /\ g[(m + 1) + k] = g[m + k] + v[(m + 1) + k]
    BY <1>4, <2>1
  <2>4. g[m] \in Int /\ g[m + k] \in Int /\ v[m + 1] \in Int /\ v[(m + 1) + k] \in Int /\ g[b] \in Int
    BY <1>4, <1>5, <2>1
  <2>5. w[m + 1] = IF m + 1 <= b - k THEN v[m + 1]
                   ELSE IF m + 1 <= b THEN v[m + 1] + v[(m + 1) + k] ELSE v[(m + 1) + k]
    BY <2>1
  <2>6. CASE m + 1 <= b - k
    BY <2>1, <2>2, <2>3, <2>4, <2>5, <2>6
  <2>7. CASE m + 1 > b - k /\ m + 1 <= b
    <3>1. h[m] = g[m] + g[m + k] - g[b]
      <4>1. CASE m <= b - k
        <5>1. m + k = b
          BY <2>7, <4>1
        <5>2. h[m] = g[m]
          BY <2>1, <4>1
        <5> HIDE DEF Sum
        <5>3. g[m] + g[b] - g[b] = g[m]
          BY <2>4
        <5> QED
          BY <5>1, <5>2, <5>3
      <4>2. CASE ~(m <= b - k)
        BY <2>1, <2>7, <4>2
      <4> QED
        BY <4>1, <4>2
    <3>2. w[m + 1] = v[m + 1] + v[(m + 1) + k]
      BY <2>5, <2>7
    <3>3. Sum(m + 1) = g[m + 1] + g[(m + 1) + k] - g[b]
      BY <2>7
    <3> HIDE DEF Sum
    <3>4. h[m] + w[m + 1] = (g[m] + v[m + 1]) + (g[m + k] + v[(m + 1) + k]) - g[b]
      <4> DEFINE p == g[m]
                 q == g[m + k]
                 x == v[m + 1]
                 y == v[(m + 1) + k]
                 z == g[b]
      <4>1. p \in Int /\ q \in Int /\ x \in Int /\ y \in Int /\ z \in Int
        BY <2>4
      <4>2. h[m] = p + q - z /\ w[m + 1] = x + y
        BY <3>1, <3>2
      <4> HIDE DEF p, q, x, y, z
      <4>3. (p + q - z) + (x + y) = (p + x) + (q + y) - z
        BY <4>1
      <4> QED
        BY <4>2, <4>3 DEF p, q, x, y, z
    <3> QED
      BY <2>2, <2>3, <3>3, <3>4
  <2>8. CASE m + 1 > b
    <3>1. h[m] = g[m + k]
      <4>1. CASE m <= b - k
        <5>1. m = b /\ k = 0 /\ m + k = m
          BY <2>8, <4>1
        <5> QED
          BY <2>1, <4>1, <5>1
      <4>2. CASE ~(m <= b - k) /\ m <= b
        <5>1. m = b
          BY <2>8, <4>2
        <5> QED
          BY <2>1, <2>4, <4>2, <5>1
      <4>3. CASE m > b
        BY <2>1, <4>3
      <4> QED
        BY <4>1, <4>2, <4>3
    <3>2. w[m + 1] = v[(m + 1) + k] /\ Sum(m + 1) = g[(m + 1) + k]
      BY <2>5, <2>8
    <3> HIDE DEF Sum
    <3> QED
      BY <2>2, <2>3, <2>4, <3>1, <3>2
  <2> QED
    BY <2>6, <2>7, <2>8
<1> HIDE DEF T
<1>9. n - k \in T
  BY <1>2, <1>7, <1>8, AllNumbers
<1>10. h[n - k] = Sum(n - k)
  BY <1>2, <1>9 DEF T
<1>11. g[n] \in Int /\ (n - k) + k = n
  BY <1>4
<1> QED
  <2>1. CASE n - k <= b - k
    <3>1. k = 0
      BY <2>1
    <3>2. n - k = n
      BY <3>1
    <3> QED
      BY <1>1, <1>3, <1>10, <2>1, <3>2
  <2>2. CASE ~(n - k <= b - k) /\ n - k <= b
    <3>1. n - k = b
      BY <2>2
    <3>2. Sum(n - k) = g[b] + g[n] - g[b] /\ g[b] \in Int
      BY <1>4, <1>11, <2>2, <3>1
    <3> HIDE DEF Sum
    <3> QED
      BY <1>1, <1>3, <1>10, <1>11, <3>2
  <2>3. CASE n - k > b
    BY <1>1, <1>3, <1>10, <1>11, <2>3
  <2> QED
    BY <2>1, <2>2, <2>3

-----------------------------------------------------------------------------
(* The time of some of the calls of a tree                                 *)

LEMMA NodeFields ==
  ASSUME NEW s \in Seq(Nodes)
  PROVE  /\ Len(s) \in Nat /\ DOMAIN s = 1..Len(s)
         /\ \A i \in 1..Len(s) :
              /\ s[i] \in Nodes
              /\ s[i].name \in Names /\ s[i].depth \in Nat /\ s[i].calltime \in Nat
              /\ s[i].duration \in Nat \cup {NoTime}
              /\ s[i].count \in Nat /\ s[i].sumtime \in Nat
<1>1. \A i \in 1..Len(s) : s[i] \in Nodes
  OBVIOUS
<1>2. \A x \in Nodes : /\ x.name \in Names /\ x.depth \in Nat /\ x.calltime \in Nat
                       /\ x.duration \in Nat \cup {NoTime}
                       /\ x.count \in Nat /\ x.sumtime \in Nat
  BY DEF Nodes
<1> QED
  BY <1>1, <1>2

\* What is summed up.
Times(stack, P) == [i \in 1..Len(stack) |-> IF i \in P THEN stack[i].sumtime ELSE 0]

LEMMA TimesFields ==
  ASSUME NEW s \in Seq(Nodes), NEW P
  PROVE  /\ Time(s, P) = Total(Times(s, P))
         /\ Len(Times(s, P)) = Len(s)
         /\ \A i \in 1..Len(s) : /\ Times(s, P)[i] = IF i \in P THEN s[i].sumtime ELSE 0
                                 /\ Times(s, P)[i] \in Nat
<1>1. Len(s) \in Nat
  OBVIOUS
<1>2. Len(Times(s, P)) = Len(s)
  BY <1>1 DEF Times
<1>3. \A i \in 1..Len(s) : Times(s, P)[i] = IF i \in P THEN s[i].sumtime ELSE 0
  BY DEF Times
<1>4. \A i \in 1..Len(s) : s[i].sumtime \in Nat
  BY NodeFields
<1> QED
  BY <1>2, <1>3, <1>4 DEF Time, Times

LEMMA TimeType ==
  ASSUME NEW s \in Seq(Nodes), NEW P
  PROVE  Time(s, P) \in Nat
<1> DEFINE w == Times(s, P)
           n == Len(s)
<1>1. n \in Nat /\ Len(w) = n /\ Time(s, P) = Total(w)
  BY TimesFields
<1>2. \A i \in 1..n : w[i] \in Nat
  BY TimesFields
<1> HIDE DEF w, n
<1>3. \A i \in 1..n : w[i] \in Int /\ w[i] >= 0
  BY <1>2
<1>4. Total(w) \in Int /\ Total(w) >= 0
  BY <1>1, <1>3, TotalType
<1> QED
  BY <1>1, <1>4

LEMMA TimeOfNone ==
  ASSUME NEW s \in Seq(Nodes), NEW P, \A i \in 1..Len(s) : i \notin P
  PROVE  Time(s, P) = 0
<1> DEFINE w == Times(s, P)
           n == Len(s)
<1>1. n \in Nat /\ Len(w) = n /\ Time(s, P) = Total(w)
  BY TimesFields
<1>2. \A i \in 1..n : w[i] = 0
  BY TimesFields
<1> HIDE DEF w, n
<1>3. \A i \in 1..n : w[i] \in Int
  BY <1>2
<1> QED
  BY <1>1, <1>2, <1>3, TotalType

\* One call more.
LEMMA TimeWith ==
  ASSUME NEW s \in Seq(Nodes), NEW P, NEW c \in 1..Len(s), c \notin P
  PROVE  Time(s, P \cup {c}) = Time(s, P) + s[c].sumtime
<1> DEFINE v == Times(s, P)
           w == Times(s, P \cup {c})
           n == Len(s)
<1>1. /\ n \in Nat /\ c \in 1..n /\ Len(v) = n /\ Len(w) = n
      /\ Time(s, P) = Total(v) /\ Time(s, P \cup {c}) = Total(w)
  BY TimesFields
<1>2. \A i \in 1..n : v[i] = (IF i \in P THEN s[i].sumtime ELSE 0) /\ v[i] \in Nat
  BY TimesFields
<1>3. \A i \in 1..n : /\ w[i] = IF i \in P \cup {c} THEN s[i].sumtime ELSE 0
                      /\ w[i] \in Nat
  BY TimesFields
<1> HIDE DEF v, w, n
<1>4. \A i \in 1..n : i # c => w[i] = v[i]
  BY <1>2, <1>3
<1>5. v[c] = 0 /\ w[c] = s[c].sumtime
  BY <1>1, <1>2, <1>3
<1>6. \A i \in 1..n : v[i] \in Int
  BY <1>2
<1>7. \A i \in 1..n : w[i] \in Int
  BY <1>3
<1>8. Total(w) = Total(v) - v[c] + w[c]
  BY <1>1, <1>4, <1>6, <1>7, TotalChanged
<1>9. Total(v) \in Int /\ w[c] \in Int
  BY <1>1, <1>6, <1>7, TotalType
<1> QED
  BY <1>1, <1>5, <1>8, <1>9

\* A tree with one call more.
LEMMA TimeAppend ==
  ASSUME NEW s \in Seq(Nodes), NEW x \in Nodes, NEW P
  PROVE  Time(Append(s, x), P) =
           Time(s, P) + (IF Len(s) + 1 \in P THEN x.sumtime ELSE 0)
<1> DEFINE t == Append(s, x)
           v == Times(s, P)
           w == Times(t, P)
           n == Len(s)
<1>1. t \in Seq(Nodes) /\ Len(t) = n + 1 /\ t[n + 1] = x /\ \A i \in 1..n : t[i] = s[i]
  OBVIOUS
<1> HIDE DEF t
<1>2. n \in Nat /\ Len(v) = n /\ Len(w) = n + 1 /\ Time(s, P) = Total(v) /\ Time(t, P) = Total(w)
  BY <1>1, TimesFields
<1>3. \A i \in 1..n : v[i] = (IF i \in P THEN s[i].sumtime ELSE 0) /\ v[i] \in Nat
  BY TimesFields
<1>4. \A i \in 1..n + 1 : w[i] = (IF i \in P THEN t[i].sumtime ELSE 0) /\ w[i] \in Nat
  BY <1>1, TimesFields
<1> HIDE DEF v, w, n
<1>5. ASSUME NEW i \in 1..n PROVE w[i] = v[i]
  <2>1. i \in 1..n + 1
    BY <1>2
  <2>2. t[i] = s[i]
    BY <1>1 DEF n
  <2> QED
    BY <1>3, <1>4, <2>1, <2>2
<1>6. \A i \in 1..n + 1 : w[i] \in Int
  BY <1>4
<1>7. Total(w) = Total(v) + w[n + 1]
  BY <1>2, <1>5, <1>6, TotalMore
<1>8. w[n + 1] = IF n + 1 \in P THEN x.sumtime ELSE 0
  BY <1>1, <1>2, <1>4
<1> QED
  BY <1>2, <1>7, <1>8 DEF t, n

\* The time of one call has changed.
LEMMA TimeChanged ==
  ASSUME NEW s \in Seq(Nodes), NEW t \in Seq(Nodes), Len(t) = Len(s), NEW P,
         NEW c \in 1..Len(s), \A i \in 1..Len(s) : i # c => t[i].sumtime = s[i].sumtime
  PROVE  Time(t, P) = IF c \in P THEN Time(s, P) - s[c].sumtime + t[c].sumtime
                      ELSE Time(s, P)
<1> DEFINE v == Times(s, P)
           w == Times(t, P)
           n == Len(s)
<1>1. n \in Nat /\ c \in 1..n /\ Len(v) = n /\ Len(w) = n /\ Time(s, P) = Total(v) /\ Time(t, P) = Total(w)
  BY TimesFields
<1>2. \A i \in 1..n : v[i] = (IF i \in P THEN s[i].sumtime ELSE 0) /\ v[i] \in Nat
  BY TimesFields
<1>3. \A i \in 1..n : w[i] = (IF i \in P THEN t[i].sumtime ELSE 0) /\ w[i] \in Nat
  BY TimesFields
<1>4. \A i \in 1..n : i # c => w[i] = v[i]
  BY <1>2, <1>3
<1> HIDE DEF v, w, n
<1>5. \A i \in 1..n : v[i] \in Int
  BY <1>2
<1>6. \A i \in 1..n : w[i] \in Int
  BY <1>3
<1>7. Total(w) = Total(v) - v[c] + w[c]
  BY <1>1, <1>4, <1>5, <1>6, TotalChanged
<1>8. Total(v) \in Int
  BY <1>1, <1>5, TotalType
<1>9. v[c] = (IF c \in P THEN s[c].sumtime ELSE 0) /\ w[c] = (IF c \in P THEN t[c].sumtime ELSE 0)
  BY <1>1, <1>2, <1>3
<1> QED
  BY <1>1, <1>7, <1>8, <1>9

-----------------------------------------------------------------------------
(* Folding                                                                 *)

\* A call with an end has taken at least as long as it took the first time.
Timed(stack) == \A i \in DOMAIN stack :
  stack[i].duration # NoTime => stack[i].duration <= stack[i].sumtime

\* A function is called at one depth.
OneDepth(stack) == \A i, j \in DOMAIN stack :
  stack[i].name = stack[j].name => stack[i].depth = stack[j].depth

\* What folding leaves of s: the first call, some of the others, and the times.
Keeps(s, t) ==
  /\ t \in Seq(Nodes) /\ t # <<>> /\ t[1] = s[1]
  /\ \A i \in 2..Len(t) : \E j \in 2..Len(s) :
       t[i].name = s[j].name /\ t[i].depth = s[j].depth /\ t[i].duration = s[j].duration
  /\ Timed(s) => Timed(t)
  /\ \A n : TimeOf(t, n) = TimeOf(s, n)
  /\ OneDepth(s) /\ HasParents(s) => HasParents(t)

LEMMA KeepsSelf == ASSUME NEW s \in Seq(Nodes), s # <<>> PROVE Keeps(s, s)
BY DEF Keeps

LEMMA KeepsOneDepth ==
  ASSUME NEW s \in Seq(Nodes), s # <<>>, NEW t, Keeps(s, t), OneDepth(s)
  PROVE  OneDepth(t)
<1>1. t \in Seq(Nodes) /\ DOMAIN t = 1..Len(t) /\ DOMAIN s = 1..Len(s) /\ 1 \in 1..Len(s)
      /\ Len(s) \in Nat /\ Len(t) \in Nat
  BY NodeFields DEF Keeps
<1>2. ASSUME NEW i \in 1..Len(t)
      PROVE  \E j \in 1..Len(s) : t[i].name = s[j].name /\ t[i].depth = s[j].depth
  <2>1. CASE i = 1
    BY <1>1, <2>1 DEF Keeps
  <2>2. CASE i # 1
    <3>1. i \in 2..Len(t)
      BY <1>1, <2>2
    <3>2. PICK j \in 2..Len(s) : t[i].name = s[j].name /\ t[i].depth = s[j].depth
      BY <3>1 DEF Keeps
    <3>3. j \in 1..Len(s)
      BY <1>1
    <3> QED
      BY <3>2, <3>3
  <2> QED
    BY <2>1, <2>2
<1> QED
  BY <1>1, <1>2 DEF OneDepth

LEMMA KeepsChain ==
  ASSUME NEW s \in Seq(Nodes), s # <<>>, NEW t, NEW u, Keeps(s, t), Keeps(t, u)
  PROVE  Keeps(s, u)
<1>1. OneDepth(s) => OneDepth(t)
  BY KeepsOneDepth
<1>2. \A i \in 2..Len(u) : \E j \in 2..Len(s) :
        u[i].name = s[j].name /\ u[i].depth = s[j].depth /\ u[i].duration = s[j].duration
  <2> TAKE i \in 2..Len(u)
  <2>1. PICK h \in 2..Len(t) :
          u[i].name = t[h].name /\ u[i].depth = t[h].depth /\ u[i].duration = t[h].duration
    BY DEF Keeps
  <2>2. PICK j \in 2..Len(s) :
          t[h].name = s[j].name /\ t[h].depth = s[j].depth /\ t[h].duration = s[j].duration
    BY DEF Keeps
  <2> QED
    BY <2>1, <2>2
<1>3. u \in Seq(Nodes) /\ u # <<>> /\ u[1] = s[1]
  BY DEF Keeps
<1>4. Timed(s) => Timed(u)
  BY DEF Keeps
<1>5. \A n : TimeOf(u, n) = TimeOf(s, n)
  BY DEF Keeps
<1>6. OneDepth(s) /\ HasParents(s) => HasParents(u)
  BY <1>1 DEF Keeps
<1> QED
  BY <1>2, <1>3, <1>4, <1>5, <1>6 DEF Keeps

\* Two calls added up.
LEMMA SumNode ==
  ASSUME NEW a \in Nodes, NEW b \in Nodes
  PROVE  LET c == [a EXCEPT !.count = @ + b.count, !.sumtime = @ + b.sumtime]
         IN  /\ c \in Nodes /\ c.name = a.name /\ c.depth = a.depth /\ c.duration = a.duration
             /\ c.sumtime = a.sumtime + b.sumtime
<1>1. /\ a.count \in Nat /\ b.count \in Nat /\ a.sumtime \in Nat /\ b.sumtime \in Nat
  BY DEF Nodes
<1>2. a.count + b.count \in Nat /\ a.sumtime + b.sumtime \in Nat
  BY <1>1
<1> DEFINE x == a.count + b.count
           y == a.sumtime + b.sumtime
<1>3. /\ [a EXCEPT !.count = x, !.sumtime = y] \in Nodes
      /\ [a EXCEPT !.count = x, !.sumtime = y].name = a.name
      /\ [a EXCEPT !.count = x, !.sumtime = y].depth = a.depth
      /\ [a EXCEPT !.count = x, !.sumtime = y].duration = a.duration
      /\ [a EXCEPT !.count = x, !.sumtime = y].sumtime = y
  <2>1. x \in Nat /\ y \in Nat
    BY <1>2
  <2> HIDE DEF x, y
  <2> QED
    BY <2>1 DEF Nodes
<1> QED
  BY <1>3

\* A single fold.
LEMMA FoldedAtIs ==
  ASSUME NEW s \in Seq(Nodes), NEW mb \in Nat, NEW fb \in Nat, 1 <= mb, mb < fb,
         Repeats(s, mb, fb)
  PROVE  LET t == FoldedAt(s, mb, fb)
             k == fb - mb
         IN  /\ t \in Seq(Nodes) /\ Len(t) = Len(s) - k /\ fb + k <= Len(s)
             /\ \A i \in 1..Len(t) :
                  /\ i <= mb => t[i] = s[i]
                  /\ mb < i /\ i <= fb => /\ t[i].name = s[i].name /\ t[i].depth = s[i].depth
                                          /\ t[i].duration = s[i].duration
                                          /\ t[i].sumtime = s[i].sumtime + s[i + k].sumtime
                                          /\ s[i + k].name = s[i].name
                  /\ fb < i => t[i] = s[i + k]
<1> DEFINE k == fb - mb
           t == FoldedAt(s, mb, fb)
           Sum(i) == [s[i] EXCEPT !.count = @ + s[i + k].count,
                                  !.sumtime = @ + s[i + k].sumtime]
           n == Len(s) - k
<1>1. /\ k \in Nat /\ 1 <= k /\ fb + k <= Len(s) /\ Len(s) \in Nat /\ n \in Nat /\ fb <= n
      /\ \A i \in 1..k : s[mb + i].name = s[fb + i].name
  BY DEF Repeats
<1>2. t = [i \in 1..n |-> CASE i <= mb -> s[i]
                            [] i > mb /\ i <= fb -> Sum(i)
                            [] i > fb -> s[i + k]]
  BY DEF FoldedAt
<1>3. ASSUME NEW i \in 1..n, i <= fb PROVE i + k \in 1..Len(s) /\ i \in 1..Len(s)
  BY <1>1, <1>3
<1>4. ASSUME NEW i \in 1..n
      PROVE  /\ t[i] \in Nodes
             /\ i <= mb => t[i] = s[i]
             /\ mb < i /\ i <= fb => t[i] = Sum(i) /\ s[i + k].name = s[i].name
             /\ fb < i => t[i] = s[i + k]
  <2>1. i \in 1..Len(s) /\ i + k \in 1..Len(s) /\ i \in Nat
    BY <1>1
  <2>2. s[i] \in Nodes /\ s[i + k] \in Nodes
    BY <2>1
  <2>3. Sum(i) \in Nodes
    BY <2>2, SumNode
  <2> HIDE DEF Sum, t, k, n
  <2>4. CASE i <= mb
    <3>1. t[i] = s[i] /\ ~(mb < i) /\ ~(fb < i)
      BY <1>2, <2>1, <2>4
    <3> QED
      BY <2>2, <3>1
  <2>5. CASE mb < i /\ i <= fb
    <3>1. t[i] = Sum(i) /\ ~(i <= mb) /\ ~(fb < i)
      BY <1>2, <2>1, <2>5
    <3>2. i - mb \in 1..k /\ mb + (i - mb) = i /\ fb + (i - mb) = i + k
      BY <2>1, <2>5 DEF k
    <3>3. s[i].name = s[i + k].name
      BY <1>1, <3>2
    <3> QED
      BY <2>3, <3>1, <3>3
  <2>6. CASE fb < i
    <3>1. t[i] = s[i + k] /\ ~(i <= mb) /\ ~(i <= fb)
      BY <1>2, <2>1, <2>6
    <3> QED
      BY <2>2, <3>1
  <2> QED
    BY <2>1, <2>4, <2>5, <2>6
<1>5. t \in Seq(Nodes) /\ Len(t) = n
  <2> HIDE DEF Sum, k, n, t
  <2>1. t \in [1..n -> Nodes]
    BY <1>2, <1>4
  <2> QED
    BY <1>1, <2>1
<1>6. ASSUME NEW i \in 1..n, mb < i, i <= fb
      PROVE  /\ t[i].name = s[i].name /\ t[i].depth = s[i].depth
             /\ t[i].duration = s[i].duration
             /\ t[i].sumtime = s[i].sumtime + s[i + k].sumtime
  <2>1. i \in 1..Len(s)
    BY <1>3, <1>6
  <2>2. s[i] \in Nodes /\ s[i + k] \in Nodes
    BY <1>3, <1>6, <2>1
  <2>3. /\ Sum(i).name = s[i].name /\ Sum(i).depth = s[i].depth
        /\ Sum(i).duration = s[i].duration
        /\ Sum(i).sumtime = s[i].sumtime + s[i + k].sumtime
    BY <2>2, SumNode
  <2>4. t[i] = Sum(i)
    BY <1>4, <1>6
  <2> HIDE DEF Sum, t, k
  <2> QED
    BY <2>3, <2>4
<1> HIDE DEF Sum, t, k, n
<1>7. /\ t \in Seq(Nodes) /\ Len(t) = Len(s) - k /\ fb + k <= Len(s)
      /\ \A i \in 1..Len(t) :
           /\ i <= mb => t[i] = s[i]
           /\ mb < i /\ i <= fb => /\ t[i].name = s[i].name /\ t[i].depth = s[i].depth
                                   /\ t[i].duration = s[i].duration
                                   /\ t[i].sumtime = s[i].sumtime + s[i + k].sumtime
                                   /\ s[i + k].name = s[i].name
           /\ fb < i => t[i] = s[i + k]
  BY <1>1, <1>4, <1>5, <1>6 DEF n
<1> QED
  BY <1>7 DEF t, k

\* The sums over one name.
Named(stack, n) == {i \in DOMAIN stack : stack[i].name = n}

LEMMA FoldedAtTimes ==
  ASSUME NEW s \in Seq(Nodes), NEW mb \in Nat, NEW fb \in Nat, 1 <= mb, mb < fb,
         Repeats(s, mb, fb), NEW n
  PROVE  TimeOf(FoldedAt(s, mb, fb), n) = TimeOf(s, n)
<1> DEFINE k == fb - mb
           t == FoldedAt(s, mb, fb)
           v == Times(s, Named(s, n))
           w == Times(t, Named(t, n))
           m == Len(s)
<1>1. /\ t \in Seq(Nodes) /\ Len(t) = m - k /\ fb + k <= m
      /\ \A i \in 1..Len(t) :
           /\ i <= mb => t[i] = s[i]
           /\ mb < i /\ i <= fb => /\ t[i].name = s[i].name
                                   /\ t[i].sumtime = s[i].sumtime + s[i + k].sumtime
                                   /\ s[i + k].name = s[i].name
           /\ fb < i => t[i] = s[i + k]
  BY FoldedAtIs
<1>2. /\ TimeOf(s, n) = Total(v) /\ Len(v) = m /\ m \in Nat
      /\ \A i \in 1..m : /\ v[i] = IF i \in Named(s, n) THEN s[i].sumtime ELSE 0
                         /\ v[i] \in Nat
  <2>1. TimeOf(s, n) = Time(s, Named(s, n))
    BY DEF TimeOf, Named
  <2> QED
    BY <2>1, TimesFields
<1> HIDE DEF t
<1>3. /\ TimeOf(t, n) = Total(w) /\ Len(w) = m - k
      /\ \A i \in 1..m - k : w[i] = IF i \in Named(t, n) THEN t[i].sumtime ELSE 0
  <2>1. TimeOf(t, n) = Time(t, Named(t, n))
    BY DEF TimeOf, Named
  <2>2. t \in Seq(Nodes) /\ Len(t) = m - k
    BY <1>1
  <2> HIDE DEF m, k
  <2>3. /\ TimeOf(t, n) = Total(w) /\ Len(w) = Len(t)
        /\ \A i \in 1..Len(t) : w[i] = IF i \in Named(t, n) THEN t[i].sumtime ELSE 0
    BY <2>1, <2>2, TimesFields
  <2> HIDE DEF w
  <2> QED
    BY <2>2, <2>3
<1>4. k \in Nat /\ 1 <= k /\ k <= fb /\ fb - k = mb
  OBVIOUS
<1> HIDE DEF v, w, m, k
<1>9. m \in Nat /\ Len(t) = m - k
  BY <1>1, <1>2
<1>5. DOMAIN s = 1..m /\ DOMAIN t = 1..m - k /\ \A i \in 1..m : s[i].sumtime \in Nat
  BY <1>1, NodeFields DEF m
<1>6. ASSUME NEW i \in 1..m - k
      PROVE  w[i] = IF i <= fb - k THEN v[i] ELSE IF i <= fb THEN v[i] + v[i + k] ELSE v[i + k]
  <2>1. i \in 1..m /\ i + k \in 1..m /\ i \in 1..Len(t)
    BY <1>4, <1>9
  <2>2. /\ v[i] = IF s[i].name = n THEN s[i].sumtime ELSE 0
        /\ v[i + k] = IF s[i + k].name = n THEN s[i + k].sumtime ELSE 0
        /\ w[i] = IF t[i].name = n THEN t[i].sumtime ELSE 0
    <3>1. i \in Named(s, n) <=> s[i].name = n
      BY <1>5, <2>1 DEF Named
    <3>2. i + k \in Named(s, n) <=> s[i + k].name = n
      BY <1>5, <2>1 DEF Named
    <3>3. i \in Named(t, n) <=> t[i].name = n
      BY <1>5, <2>1 DEF Named
    <3> QED
      BY <1>2, <1>3, <2>1, <3>1, <3>2, <3>3
  <2>3. CASE i <= mb
    <3>1. t[i] = s[i]
      BY <1>1, <2>1, <2>3
    <3> QED
      BY <1>4, <2>2, <2>3, <3>1
  <2>4. CASE mb < i /\ i <= fb
    <3>1. /\ t[i].name = s[i].name /\ s[i + k].name = s[i].name
          /\ t[i].sumtime = s[i].sumtime + s[i + k].sumtime
      BY <1>1, <2>1, <2>4
    <3>2. w[i] = v[i] + v[i + k]
      BY <2>2, <3>1
    <3> QED
      BY <1>4, <2>4, <3>2
  <2>5. CASE fb < i
    <3>1. t[i] = s[i + k]
      BY <1>1, <2>1, <2>5
    <3>2. w[i] = v[i + k]
      BY <2>2, <3>1
    <3> QED
      BY <1>4, <2>5, <3>2
  <2> QED
    BY <2>1, <2>3, <2>4, <2>5
<1>7. \A i \in 1..m : v[i] \in Int
  BY <1>2
<1>8. Total(w) = Total(v)
  BY <1>1, <1>2, <1>3, <1>4, <1>6, <1>7, TotalFolded
<1> QED
  BY <1>2, <1>3, <1>8 DEF t

LEMMA FoldedAtKeeps ==
  ASSUME NEW s \in Seq(Nodes), NEW mb \in Nat, NEW fb \in Nat, 1 <= mb, mb < fb,
         Repeats(s, mb, fb)
  PROVE  /\ Keeps(s, FoldedAt(s, mb, fb)) /\ fb <= Len(FoldedAt(s, mb, fb))
         /\ Len(FoldedAt(s, mb, fb)) < Len(s)
<1> DEFINE k == fb - mb
           t == FoldedAt(s, mb, fb)
<1>1. /\ t \in Seq(Nodes) /\ Len(t) = Len(s) - k /\ fb + k <= Len(s)
      /\ \A i \in 1..Len(t) :
           /\ i <= mb => t[i] = s[i]
           /\ mb < i /\ i <= fb => /\ t[i].name = s[i].name /\ t[i].depth = s[i].depth
                                   /\ t[i].duration = s[i].duration
                                   /\ t[i].sumtime = s[i].sumtime + s[i + k].sumtime
                                   /\ s[i + k].name = s[i].name
           /\ fb < i => t[i] = s[i + k]
  BY FoldedAtIs
<1>2. k \in Nat /\ 1 <= k /\ mb + k = fb
  OBVIOUS
<1>3. \A n : TimeOf(t, n) = TimeOf(s, n)
  BY FoldedAtTimes
<1> HIDE DEF t, k
<1>4. /\ Len(s) \in Nat /\ Len(t) \in Nat /\ DOMAIN s = 1..Len(s) /\ DOMAIN t = 1..Len(t)
      /\ \A i \in 1..Len(s) : /\ s[i].name \in Names /\ s[i].depth \in Nat
                              /\ s[i].sumtime \in Nat
                              /\ s[i].duration \in Nat \cup {NoTime}
      /\ \A i \in 1..Len(t) : t[i].depth \in Nat
  BY <1>1, NodeFields
<1>5. fb <= Len(t) /\ Len(t) < Len(s) /\ t # <<>> /\ t[1] = s[1]
  <2>1. fb <= Len(t) /\ Len(t) < Len(s) /\ 1 \in 1..Len(t)
    BY <1>1, <1>2, <1>4
  <2> QED
    BY <1>1, <1>4, <2>1
<1>6. ASSUME NEW i \in 1..Len(t)
      PROVE  IF i <= fb THEN i \in 1..Len(s) /\ t[i].name = s[i].name /\ t[i].depth = s[i].depth
                                            /\ t[i].duration = s[i].duration
                                            /\ s[i].sumtime <= t[i].sumtime
             ELSE i + k \in 1..Len(s) /\ t[i] = s[i + k]
  <2>1. i \in 1..Len(s) /\ i + k \in 1..Len(s)
    BY <1>1, <1>2, <1>4
  <2>2. s[i].sumtime \in Nat /\ s[i + k].sumtime \in Nat
    BY <1>4, <2>1
  <2>3. CASE i <= mb
    BY <1>1, <1>2, <2>1, <2>2, <2>3
  <2>4. CASE mb < i /\ i <= fb
    <3>1. /\ t[i].name = s[i].name /\ t[i].depth = s[i].depth
          /\ t[i].duration = s[i].duration
          /\ t[i].sumtime = s[i].sumtime + s[i + k].sumtime
      BY <1>1, <2>4
    <3>2. s[i].sumtime <= t[i].sumtime
      BY <2>2, <3>1
    <3> QED
      BY <2>1, <2>4, <3>1, <3>2
  <2>5. CASE fb < i
    <3>1. t[i] = s[i + k] /\ ~(i <= fb)
      BY <1>1, <2>5
    <3> QED
      BY <2>1, <3>1
  <2> QED
    BY <2>3, <2>4, <2>5
<1>7. \A i \in 2..Len(t) : \E j \in 2..Len(s) :
        t[i].name = s[j].name /\ t[i].depth = s[j].depth /\ t[i].duration = s[j].duration
  <2> TAKE i \in 2..Len(t)
  <2>1. i \in 1..Len(t) /\ 2 <= i
    BY <1>4
  <2>2. CASE i <= fb
    <3>1. i \in 2..Len(s)
      BY <1>4, <1>5
    <3> QED
      BY <1>6, <2>1, <2>2, <3>1
  <2>3. CASE ~(i <= fb)
    <3>1. i + k \in 1..Len(s) /\ t[i] = s[i + k]
      BY <1>6, <2>1, <2>3
    <3>2. i + k \in 2..Len(s)
      BY <1>2, <1>4, <2>1, <3>1
    <3> QED
      BY <3>1, <3>2
  <2> QED
    BY <2>2, <2>3
<1>8. ASSUME Timed(s) PROVE Timed(t)
  <2> SUFFICES ASSUME NEW i \in 1..Len(t), t[i].duration # NoTime
               PROVE  t[i].duration <= t[i].sumtime
    BY <1>4 DEF Timed
  <2>1. \A j \in 1..Len(s) : s[j].duration # NoTime => s[j].duration <= s[j].sumtime
    BY <1>4, <1>8 DEF Timed
  <2>2. CASE i <= fb
    <3>1. i \in 1..Len(s) /\ t[i].duration = s[i].duration /\ s[i].sumtime <= t[i].sumtime
      BY <1>6, <2>2
    <3>2. s[i].duration <= s[i].sumtime /\ s[i].duration \in Nat /\ s[i].sumtime \in Nat
      BY <1>4, <2>1, <3>1
    <3>3. t[i].sumtime \in Nat
      BY <1>1, NodeFields
    <3> QED
      BY <3>1, <3>2, <3>3
  <2>3. CASE ~(i <= fb)
    BY <1>6, <2>1, <2>3
  <2> QED
    BY <2>2, <2>3
<1>9. ASSUME OneDepth(s), HasParents(s) PROVE HasParents(t)
  <2>1. \A j \in 1..Len(s) : s[j].depth > 0 =>
          \E h \in 1..j - 1 : s[h].depth = s[j].depth - 1
    BY <1>4, <1>9 DEF HasParents
  <2>2. \A g, h \in 1..Len(s) : s[g].name = s[h].name => s[g].depth = s[h].depth
    BY <1>4, <1>9 DEF OneDepth
  <2>3. ASSUME NEW i \in 1..Len(t), t[i].depth > 0
        PROVE  \E j \in 1..i - 1 : t[j].depth = t[i].depth - 1
    <3>1. CASE i <= fb
      <4>1. i \in 1..Len(s) /\ t[i].depth = s[i].depth
        BY <1>6, <3>1
      <4>2. PICK h \in 1..i - 1 : s[h].depth = s[i].depth - 1
        BY <2>1, <2>3, <4>1
      <4>3. h \in 1..Len(t) /\ h <= fb
        BY <1>4, <3>1
      <4>4. t[h].depth = s[h].depth
        BY <1>6, <4>3
      <4> QED
        BY <4>1, <4>2, <4>4
    <3>2. CASE ~(i <= fb)
      <4>1. i + k \in 1..Len(s) /\ t[i] = s[i + k]
        BY <1>6, <3>2
      <4>2. PICK h \in 1..(i + k) - 1 : s[h].depth = s[i + k].depth - 1
        BY <2>1, <2>3, <4>1
      <4>3. CASE h <= fb
        <5>1. h \in 1..i - 1 /\ h \in 1..Len(t)
          BY <1>4, <3>2, <4>3
        <5>2. t[h].depth = s[h].depth
          BY <1>6, <4>3, <5>1
        <5> QED
          BY <4>1, <4>2, <5>1, <5>2
      <4>4. CASE fb < h /\ h <= fb + k
        <5> DEFINE g == h - k
        <5>1. g \in 1..i - 1 /\ g \in 1..Len(t) /\ mb < g /\ g <= fb /\ g + k = h
          BY <1>2, <1>4, <3>2, <4>4
        <5>2. g \in 1..Len(s) /\ h \in 1..Len(s)
          BY <1>1, <1>2, <1>4, <4>4, <5>1
        <5> HIDE DEF g
        <5>3. s[h].name = s[g].name /\ t[g].depth = s[g].depth
          BY <1>1, <5>1
        <5>4. s[h].depth = s[g].depth
          BY <2>2, <5>2, <5>3
        <5> QED
          BY <4>1, <4>2, <5>1, <5>3, <5>4
      <4>5. CASE fb + k < h
        <5> DEFINE g == h - k
        <5>1. g \in 1..i - 1 /\ g \in 1..Len(t) /\ ~(g <= fb) /\ g + k = h
          BY <1>2, <1>4, <3>2, <4>5
        <5> HIDE DEF g
        <5>2. t[g] = s[h]
          BY <1>6, <5>1
        <5> QED
          BY <4>1, <4>2, <5>1, <5>2
      <4> QED
        BY <1>2, <4>3, <4>4, <4>5
    <3> QED
      BY <3>1, <3>2
  <2> QED
    BY <1>4, <2>3 DEF HasParents
<1>10. Keeps(s, t)
  BY <1>1, <1>3, <1>5, <1>7, <1>8, <1>9 DEF Keeps
<1> QED
  BY <1>5, <1>10 DEF t

\* The loops: s has what is there after each of their rounds.
IntoRounds(stack, fb, a, s) ==
  s = [mb \in a..fb |->
        IF mb = fb THEN [stack |-> stack, fb |-> fb]
        ELSE IF Repeats(s[mb + 1].stack, mb, s[mb + 1].fb)
        THEN [stack |-> FoldedAt(s[mb + 1].stack, mb, s[mb + 1].fb), fb |-> s[mb + 1].fb - 1]
        ELSE s[mb + 1]]

LEMMA IntoExists ==
  ASSUME NEW stack, NEW fb \in Nat, 1 <= fb
  PROVE  \E s : IntoRounds(stack, fb, 1, s)
<1> DEFINE T == {k \in Nat : k < fb => \E s : IntoRounds(stack, fb, fb - k, s)}
<1>1. 0 \in T
  <2> DEFINE s == [mb \in fb - 0..fb |-> [stack |-> stack, fb |-> fb]]
  <2>1. \A mb \in fb - 0..fb : mb = fb
    OBVIOUS
  <2>2. IntoRounds(stack, fb, fb - 0, s)
    BY <2>1 DEF IntoRounds
  <2> HIDE DEF s
  <2> QED
    BY <2>2
<1>2. ASSUME NEW k \in Nat, k \in T PROVE k + 1 \in T
  <2> SUFFICES ASSUME k + 1 < fb PROVE \E s : IntoRounds(stack, fb, fb - (k + 1), s)
    OBVIOUS
  <2>1. PICK g : IntoRounds(stack, fb, fb - k, g)
    BY <1>2
  <2> DEFINE Body(f, mb) ==
               IF mb = fb THEN [stack |-> stack, fb |-> fb]
               ELSE IF Repeats(f[mb + 1].stack, mb, f[mb + 1].fb)
               THEN [stack |-> FoldedAt(f[mb + 1].stack, mb, f[mb + 1].fb), fb |-> f[mb + 1].fb - 1]
               ELSE f[mb + 1]
             a == fb - (k + 1)
             s == [mb \in a..fb |-> IF mb = a THEN Body(g, mb) ELSE g[mb]]
  <2>2. a \in Nat /\ a + 1 = fb - k /\ a < fb
    OBVIOUS
  <2>3. ASSUME NEW mb \in a..fb PROVE s[mb] = Body(s, mb)
    <3>1. mb # fb => s[mb + 1] = g[mb + 1]
      <4> SUFFICES ASSUME mb # fb PROVE s[mb + 1] = g[mb + 1]
        OBVIOUS
      <4>1. mb + 1 \in a..fb /\ mb + 1 # a
        BY <2>2
      <4> HIDE DEF a
      <4> QED
        BY <4>1
    <3>2. Body(s, mb) = Body(g, mb)
      <4>1. CASE mb = fb
        BY <4>1
      <4>2. CASE mb # fb
        <5>1. s[mb + 1] = g[mb + 1]
          BY <3>1, <4>2
        <5> HIDE DEF s, a
        <5> QED
          BY <5>1
      <4> QED
        BY <4>1, <4>2
    <3>3. CASE mb = a
      <4>1. s[mb] = Body(g, mb)
        BY <3>3
      <4> HIDE DEF Body, s
      <4> QED
        BY <3>2, <4>1
    <3>4. CASE mb # a
      <4>1. s[mb] = g[mb]
        BY <3>4
      <4>2. mb \in fb - k..fb
        BY <2>2, <3>4
      <4>3. g[mb] = Body(g, mb)
        BY <2>1, <4>2 DEF IntoRounds
      <4> HIDE DEF Body, s
      <4> QED
        BY <3>2, <4>1, <4>3
    <3> QED
      BY <3>3, <3>4
  <2>4. s = [mb \in a..fb |-> s[mb]]
    OBVIOUS
  <2> HIDE DEF s, a
  <2>5. IntoRounds(stack, fb, a, s)
    BY <2>3, <2>4 DEF IntoRounds
  <2> QED
    BY <2>5 DEF a
<1> HIDE DEF T
<1>3. fb - 1 \in Nat /\ fb - 1 \in T
  BY <1>1, <1>2, AllNumbers
<1>4. fb - (fb - 1) = 1
  OBVIOUS
<1> QED
  BY <1>3, <1>4 DEF T

LEMMA FoldIntoKeeps ==
  ASSUME NEW stack \in Seq(Nodes), NEW fb \in Nat, 1 <= fb, fb < Len(stack)
  PROVE  LET r == FoldInto(stack, fb)
         IN  /\ Keeps(stack, r.stack) /\ r.fb \in Nat /\ r.fb < Len(r.stack)
             /\ r = [stack |-> r.stack, fb |-> r.fb]
<1> DEFINE f == CHOOSE s : IntoRounds(stack, fb, 1, s)
<1>1. IntoRounds(stack, fb, 1, f)
  BY IntoExists
<1>2. FoldInto(stack, fb) = f[1]
  BY DEF FoldInto, IntoRounds
<1> HIDE DEF f
<1>3. ASSUME NEW mb \in 1..fb
      PROVE  f[mb] = IF mb = fb THEN [stack |-> stack, fb |-> fb]
                     ELSE IF Repeats(f[mb + 1].stack, mb, f[mb + 1].fb)
                     THEN [stack |-> FoldedAt(f[mb + 1].stack, mb, f[mb + 1].fb),
                           fb |-> f[mb + 1].fb - 1]
                     ELSE f[mb + 1]
  BY <1>1 DEF IntoRounds
<1> DEFINE Good(mb) == /\ Keeps(stack, f[mb].stack) /\ f[mb].fb \in Nat
                       /\ mb <= f[mb].fb /\ f[mb].fb < Len(f[mb].stack)
                       /\ f[mb] = [stack |-> f[mb].stack, fb |-> f[mb].fb]
           T == {k \in Nat : k < fb => Good(fb - k)}
<1>4. 0 \in T
  <2>1. fb \in 1..fb /\ fb - 0 = fb /\ stack # <<>>
    OBVIOUS
  <2>2. f[fb] = [stack |-> stack, fb |-> fb]
    BY <1>3, <2>1
  <2>3. f[fb].stack = stack /\ f[fb].fb = fb
    BY <2>2
  <2>4. Keeps(stack, stack)
    BY <2>1, KeepsSelf
  <2>5. Good(fb)
    BY <2>1, <2>2, <2>3, <2>4
  <2> HIDE DEF Good
  <2> QED
    BY <2>1, <2>5
<1>5. ASSUME NEW k \in Nat, k \in T PROVE k + 1 \in T
  <2> SUFFICES ASSUME k + 1 < fb PROVE Good(fb - (k + 1))
    OBVIOUS
  <2> DEFINE mb == fb - (k + 1)
             a == f[mb + 1].stack
             b == f[mb + 1].fb
  <2>1. mb \in 1..fb /\ mb # fb /\ mb + 1 = fb - k /\ mb \in Nat /\ 1 <= mb
    OBVIOUS
  <2> HIDE DEF mb
  <2>2. /\ Keeps(stack, a) /\ b \in Nat /\ mb + 1 <= b /\ b < Len(a)
        /\ f[mb + 1] = [stack |-> a, fb |-> b]
    BY <1>5, <2>1
  <2>3. f[mb] = IF Repeats(a, mb, b)
                THEN [stack |-> FoldedAt(a, mb, b), fb |-> b - 1]
                ELSE f[mb + 1]
    BY <1>3, <2>1
  <2>4. CASE Repeats(a, mb, b)
    <3>1. /\ f[mb].stack = FoldedAt(a, mb, b) /\ f[mb].fb = b - 1
          /\ f[mb] = [stack |-> f[mb].stack, fb |-> f[mb].fb]
      BY <2>3, <2>4
    <3> HIDE DEF a, b
    <3>2. a \in Seq(Nodes) /\ mb < b
      BY <2>1, <2>2 DEF Keeps
    <3>3. Keeps(a, FoldedAt(a, mb, b)) /\ b <= Len(FoldedAt(a, mb, b))
      BY <2>1, <2>2, <2>4, <3>2, FoldedAtKeeps
    <3>4. stack # <<>>
      OBVIOUS
    <3>5. Keeps(stack, FoldedAt(a, mb, b))
      BY <2>2, <3>3, <3>4, KeepsChain
    <3>6. Len(FoldedAt(a, mb, b)) \in Nat
      BY <3>3 DEF Keeps
    <3>7. b - 1 \in Nat /\ mb <= b - 1 /\ b - 1 < Len(FoldedAt(a, mb, b))
      BY <2>1, <2>2, <3>3, <3>6
    <3> QED
      BY <3>1, <3>5, <3>7 DEF mb
  <2>5. CASE ~Repeats(a, mb, b)
    <3>1. f[mb] = f[mb + 1]
      BY <2>3, <2>5
    <3>2. mb <= b
      BY <2>1, <2>2
    <3>3. Good(mb)
      BY <2>2, <3>1, <3>2
    <3> HIDE DEF Good
    <3> QED
      BY <3>3 DEF mb
  <2> QED
    BY <2>4, <2>5
<1> HIDE DEF T
<1>6. fb - 1 \in Nat /\ fb - 1 \in T
  BY <1>4, <1>5, AllNumbers
<1>7. fb - (fb - 1) = 1
  OBVIOUS
<1> QED
  BY <1>2, <1>6, <1>7 DEF T

DepthRounds(stack, depth, n, s) ==
  s = [i \in 0..n |-> IF i = 0 THEN [stack |-> stack, fb |-> 1] ELSE FoldRound(s[i - 1], depth)]

LEMMA DepthExists == ASSUME NEW stack, NEW depth, NEW n \in Nat PROVE \E s : DepthRounds(stack, depth, n, s)
<1> DEFINE T == {k \in Nat : \E s : DepthRounds(stack, depth, k, s)}
<1>1. 0 \in T
  <2> DEFINE s == [i \in 0..0 |-> [stack |-> stack, fb |-> 1]]
  <2>1. DepthRounds(stack, depth, 0, s)
    BY DEF DepthRounds
  <2> HIDE DEF s
  <2> QED
    BY <2>1
<1>2. ASSUME NEW k \in Nat, k \in T PROVE k + 1 \in T
  <2>1. PICK g : DepthRounds(stack, depth, k, g)
    BY <1>2
  <2> DEFINE s == [i \in 0..k + 1 |-> IF i <= k THEN g[i] ELSE FoldRound(g[k], depth)]
  <2>2. ASSUME NEW i \in 0..k + 1
        PROVE  s[i] = IF i = 0 THEN [stack |-> stack, fb |-> 1] ELSE FoldRound(s[i - 1], depth)
    <3>1. CASE i = k + 1
      BY <3>1
    <3>2. CASE i # k + 1
      <4>1. i \in 0..k /\ i <= k /\ (i # 0 => i - 1 \in 0..k /\ i - 1 <= k)
        BY <3>2
      <4>2. g[i] = IF i = 0 THEN [stack |-> stack, fb |-> 1] ELSE FoldRound(g[i - 1], depth)
        BY <2>1, <4>1 DEF DepthRounds
      <4> QED
        BY <4>1, <4>2
    <3> QED
      BY <3>1, <3>2
  <2>3. s = [i \in 0..k + 1 |-> s[i]]
    OBVIOUS
  <2> HIDE DEF s
  <2>4. DepthRounds(stack, depth, k + 1, s)
    BY <2>2, <2>3 DEF DepthRounds
  <2> QED
    BY <2>4
<1> HIDE DEF T
<1>3. n \in T
  BY <1>1, <1>2, AllNumbers
<1> QED
  BY <1>3 DEF T

LEMMA FoldRoundKeeps ==
  ASSUME NEW stack \in Seq(Nodes), NEW fb \in Nat, 1 <= fb, NEW depth, NEW s,
         s = [stack |-> stack, fb |-> fb], stack # <<>>
  PROVE  /\ Keeps(stack, FoldRound(s, depth).stack)
         /\ FoldRound(s, depth).fb \in Nat /\ 1 <= FoldRound(s, depth).fb
         /\ FoldRound(s, depth) = [stack |-> FoldRound(s, depth).stack, fb |-> FoldRound(s, depth).fb]
<1>1. s.stack = stack /\ s.fb = fb
  OBVIOUS
<1>2. Keeps(stack, stack)
  BY KeepsSelf
<1>3. CASE fb >= Len(stack)
  <2>1. FoldRound(s, depth) = s
    BY <1>1, <1>3 DEF FoldRound
  <2> QED
    BY <1>1, <1>2, <2>1
<1>4. CASE ~(fb >= Len(stack)) /\ stack[fb + 1].depth # depth
  <2>1. FoldRound(s, depth) = [s EXCEPT !.fb = @ + 1]
    BY <1>1, <1>4 DEF FoldRound
  <2>2. [s EXCEPT !.fb = @ + 1] = [stack |-> stack, fb |-> fb + 1]
    BY <1>1
  <2> HIDE DEF FoldRound
  <2>3. FoldRound(s, depth).stack = stack /\ FoldRound(s, depth).fb = fb + 1
    BY <2>1, <2>2
  <2>4. fb + 1 \in Nat /\ 1 <= fb + 1
    OBVIOUS
  <2> QED
    BY <1>2, <2>1, <2>2, <2>3, <2>4
<1>5. CASE ~(fb >= Len(stack)) /\ stack[fb + 1].depth = depth
  <2> DEFINE r == FoldInto(stack, fb)
  <2>1. FoldRound(s, depth) = [r EXCEPT !.fb = @ + 1]
    BY <1>1, <1>5 DEF FoldRound
  <2>2. fb < Len(stack)
    BY <1>5
  <2>3. Keeps(stack, r.stack) /\ r.fb \in Nat
    BY <2>2, FoldIntoKeeps
  <2>4. r = [stack |-> r.stack, fb |-> r.fb]
    BY <2>2, FoldIntoKeeps
  <2> HIDE DEF r
  <2>5. [r EXCEPT !.fb = @ + 1] = [stack |-> r.stack, fb |-> r.fb + 1]
    BY <2>4
  <2>6. FoldRound(s, depth).stack = r.stack /\ FoldRound(s, depth).fb = r.fb + 1
    BY <2>1, <2>5
  <2>7. r.fb + 1 \in Nat /\ 1 <= r.fb + 1
    BY <2>3
  <2> QED
    BY <2>1, <2>3, <2>5, <2>6, <2>7
<1> QED
  BY <1>3, <1>4, <1>5

LEMMA FoldDepthKeeps ==
  ASSUME NEW stack \in Seq(Nodes), stack # <<>>, NEW depth
  PROVE  Keeps(stack, FoldDepth(stack, depth))
<1> DEFINE f == CHOOSE s : DepthRounds(stack, depth, Len(stack), s)
<1>0. Len(stack) \in Nat
  OBVIOUS
<1>1. DepthRounds(stack, depth, Len(stack), f)
  BY <1>0, DepthExists
<1>2. FoldDepth(stack, depth) = f[Len(stack)].stack
  BY DEF FoldDepth, DepthRounds
<1> HIDE DEF f
<1>3. ASSUME NEW i \in 0..Len(stack)
      PROVE  f[i] = IF i = 0 THEN [stack |-> stack, fb |-> 1] ELSE FoldRound(f[i - 1], depth)
  BY <1>1 DEF DepthRounds
<1> DEFINE Good(i) == /\ Keeps(stack, f[i].stack) /\ f[i].fb \in Nat /\ 1 <= f[i].fb
                      /\ f[i] = [stack |-> f[i].stack, fb |-> f[i].fb]
           T == {k \in Nat : k <= Len(stack) => Good(k)}
<1>4. 0 \in T
  <2>1. f[0] = [stack |-> stack, fb |-> 1]
    BY <1>0, <1>3
  <2>2. f[0].stack = stack /\ f[0].fb = 1
    BY <2>1
  <2>3. Keeps(stack, stack)
    BY KeepsSelf
  <2> QED
    BY <2>1, <2>2, <2>3
<1>5. ASSUME NEW k \in Nat, k \in T PROVE k + 1 \in T
  <2> SUFFICES ASSUME k + 1 <= Len(stack) PROVE Good(k + 1)
    OBVIOUS
  <2> DEFINE a == f[k].stack
             b == f[k].fb
  <2>1. Keeps(stack, a) /\ b \in Nat /\ 1 <= b /\ f[k] = [stack |-> a, fb |-> b]
    BY <1>0, <1>5
  <2>2. f[k + 1] = FoldRound(f[k], depth)
    BY <1>0, <1>3
  <2>3. a \in Seq(Nodes) /\ a # <<>>
    BY <2>1 DEF Keeps
  <2> HIDE DEF a, b
  <2>4. /\ Keeps(a, FoldRound(f[k], depth).stack)
        /\ FoldRound(f[k], depth).fb \in Nat /\ 1 <= FoldRound(f[k], depth).fb
        /\ FoldRound(f[k], depth) = [stack |-> FoldRound(f[k], depth).stack,
                                     fb |-> FoldRound(f[k], depth).fb]
    BY <2>1, <2>3, FoldRoundKeeps
  <2>5. Keeps(stack, f[k + 1].stack)
    BY <2>1, <2>2, <2>4, KeepsChain
  <2> QED
    BY <2>2, <2>4, <2>5
<1> HIDE DEF T
<1>6. Len(stack) \in T
  BY <1>0, <1>4, <1>5, AllNumbers
<1> QED
  BY <1>0, <1>2, <1>6 DEF T

FoldRounds(stack, a, s) ==
  s = [depth \in a..21 |-> IF depth = 21 THEN stack ELSE FoldDepth(s[depth + 1], depth)]

LEMMA FoldRoundsExist == ASSUME NEW stack PROVE \E s : FoldRounds(stack, 1, s)
<1> DEFINE T == {k \in Nat : k < 21 => \E s : FoldRounds(stack, 21 - k, s)}
<1>1. 0 \in T
  <2> DEFINE s == [depth \in 21 - 0..21 |-> stack]
  <2>1. \A depth \in 21 - 0..21 : depth = 21
    OBVIOUS
  <2>2. FoldRounds(stack, 21 - 0, s)
    BY <2>1 DEF FoldRounds
  <2> HIDE DEF s
  <2> QED
    BY <2>2
<1>2. ASSUME NEW k \in Nat, k \in T PROVE k + 1 \in T
  <2> SUFFICES ASSUME k + 1 < 21 PROVE \E s : FoldRounds(stack, 21 - (k + 1), s)
    OBVIOUS
  <2>1. PICK g : FoldRounds(stack, 21 - k, g)
    BY <1>2
  <2> DEFINE a == 21 - (k + 1)
             s == [depth \in a..21 |-> IF depth = a THEN FoldDepth(g[depth + 1], depth) ELSE g[depth]]
  <2>2. a \in Nat /\ a + 1 = 21 - k /\ a < 21
    OBVIOUS
  <2> HIDE DEF a
  <2>3. ASSUME NEW d \in a..21
        PROVE  s[d] = IF d = 21 THEN stack ELSE FoldDepth(s[d + 1], d)
    <3>1. d # 21 => s[d + 1] = g[d + 1]
      BY <2>2
    <3>2. CASE d = a
      <4>1. s[d] = FoldDepth(g[d + 1], d)
        BY <3>2
      <4> HIDE DEF s
      <4> QED
        BY <2>2, <3>1, <3>2, <4>1
    <3>3. CASE d # a
      <4>1. s[d] = g[d] /\ d \in 21 - k..21
        BY <2>2, <3>3
      <4>2. g[d] = IF d = 21 THEN stack ELSE FoldDepth(g[d + 1], d)
        BY <2>1, <4>1 DEF FoldRounds
      <4> HIDE DEF s
      <4> QED
        BY <3>1, <4>1, <4>2
    <3> QED
      BY <3>2, <3>3
  <2>4. s = [d \in a..21 |-> s[d]]
    OBVIOUS
  <2> HIDE DEF s
  <2>5. FoldRounds(stack, a, s)
    BY <2>3, <2>4 DEF FoldRounds
  <2> QED
    BY <2>5 DEF a
<1> HIDE DEF T
<1>3. 20 \in T
  BY <1>1, <1>2, AllNumbers
<1> QED
  BY <1>3 DEF T

\* Folding (foldstack) keeps the first call of a tree, the times of all functions and,
\* if each has one depth, a call above each call; it makes no names, depths or times
\* that were not there.
THEOREM FoldKeeps ==
  ASSUME NEW stack \in Seq(Nodes), stack # <<>>
  PROVE  Keeps(stack, Fold(stack))
<1> DEFINE f == CHOOSE s : FoldRounds(stack, 1, s)
<1>1. FoldRounds(stack, 1, f)
  BY FoldRoundsExist
<1>2. Fold(stack) = f[1]
  BY DEF Fold, FoldRounds
<1> HIDE DEF f
<1>3. ASSUME NEW d \in 1..21
      PROVE  f[d] = IF d = 21 THEN stack ELSE FoldDepth(f[d + 1], d)
  BY <1>1 DEF FoldRounds
<1> DEFINE T == {k \in Nat : k < 21 => Keeps(stack, f[21 - k])}
<1>4. 0 \in T
  <2>1. f[21] = stack
    BY <1>3
  <2>2. 21 - 0 = 21
    OBVIOUS
  <2> QED
    BY <2>1, <2>2, KeepsSelf
<1>5. ASSUME NEW k \in Nat, k \in T PROVE k + 1 \in T
  <2> SUFFICES ASSUME k + 1 < 21 PROVE Keeps(stack, f[21 - (k + 1)])
    OBVIOUS
  <2> DEFINE d == 21 - (k + 1)
             a == f[d + 1]
  <2>1. d \in 1..21 /\ d # 21 /\ d + 1 = 21 - k
    OBVIOUS
  <2> HIDE DEF d
  <2>2. f[d] = FoldDepth(a, d)
    BY <1>3, <2>1
  <2>3. Keeps(stack, a)
    BY <1>5, <2>1
  <2> HIDE DEF a
  <2>4. a \in Seq(Nodes) /\ a # <<>>
    BY <2>3 DEF Keeps
  <2>5. Keeps(a, FoldDepth(a, d))
    BY <2>4, FoldDepthKeeps
  <2>6. Keeps(stack, FoldDepth(a, d))
    BY <2>3, <2>5, KeepsChain
  <2> QED
    BY <2>2, <2>6 DEF d
<1> HIDE DEF T
<1>6. 20 \in T
  BY <1>4, <1>5, AllNumbers
<1> QED
  BY <1>2, <1>6 DEF T

-----------------------------------------------------------------------------
(* Merging                                                                 *)

MergeRounds(old, new, n, s) ==
  s = [k \in 0..n |-> IF k = 0 THEN [i |-> 1, j |-> 1, top |-> <<>>]
                      ELSE MergeRound(old, new, s[k - 1])]

LEMMA MergeExists ==
  ASSUME NEW old, NEW new, NEW n \in Nat
  PROVE  \E s : MergeRounds(old, new, n, s)
<1> DEFINE start == [i |-> 1, j |-> 1, top |-> <<>>]
           T == {k \in Nat : \E s : MergeRounds(old, new, k, s)}
<1>1. 0 \in T
  <2> DEFINE s == [k \in 0..0 |-> start]
  <2>1. MergeRounds(old, new, 0, s)
    BY DEF MergeRounds
  <2> HIDE DEF s
  <2> QED
    BY <2>1
<1>2. ASSUME NEW k \in Nat, k \in T PROVE k + 1 \in T
  <2>1. PICK g : MergeRounds(old, new, k, g)
    BY <1>2
  <2> DEFINE s == [i \in 0..k + 1 |-> IF i <= k THEN g[i] ELSE MergeRound(old, new, g[k])]
  <2>2. ASSUME NEW i \in 0..k + 1
        PROVE  s[i] = IF i = 0 THEN start ELSE MergeRound(old, new, s[i - 1])
    <3>1. CASE i = k + 1
      BY <3>1
    <3>2. CASE i # k + 1
      <4>1. i \in 0..k /\ i <= k /\ (i # 0 => i - 1 \in 0..k /\ i - 1 <= k)
        BY <3>2
      <4>2. g[i] = IF i = 0 THEN start ELSE MergeRound(old, new, g[i - 1])
        BY <2>1, <4>1 DEF MergeRounds
      <4> QED
        BY <4>1, <4>2
    <3> QED
      BY <3>1, <3>2
  <2>3. s = [i \in 0..k + 1 |-> s[i]]
    OBVIOUS
  <2> HIDE DEF s
  <2>4. MergeRounds(old, new, k + 1, s)
    BY <2>2, <2>3 DEF MergeRounds
  <2> QED
    BY <2>4
<1> HIDE DEF T
<1>3. n \in T
  BY <1>1, <1>2, AllNumbers
<1> QED
  BY <1>3 DEF T

\* What a round can be while no time is unknown.
States(old, new) == [i : 1..Len(old) + 1, j : 1..Len(new) + 1, top : Seq(Nodes)]

TakesBoth(old, new, s, t) ==
  /\ s.i <= Len(old) /\ s.j <= Len(new) /\ SameCall(old[s.i], new[s.j])
  /\ new[s.j].duration # NoTime
  /\ t = [i |-> s.i + 1, j |-> s.j + 1, top |-> Append(s.top, Both(old[s.i], new[s.j]))]

TakesNew(old, new, s, t) ==
  /\ s.j <= Len(new)
  /\ s.i <= Len(old) => /\ old[s.i].depth <= new[s.j].depth
                        /\ ~SameCall(old[s.i], new[s.j])
  /\ t = [i |-> s.i, j |-> s.j + 1, top |-> Append(s.top, new[s.j])]

TakesOld(old, new, s, t) ==
  /\ s.i <= Len(old)
  /\ s.j <= Len(new) => /\ new[s.j].depth <= old[s.i].depth
                        /\ ~SameCall(old[s.i], new[s.j])
  /\ t = [i |-> s.i + 1, j |-> s.j, top |-> Append(s.top, old[s.i])]

MergeStep(old, new, s, t) ==
  TakesBoth(old, new, s, t) \/ TakesNew(old, new, s, t) \/ TakesOld(old, new, s, t)

LEMMA BothNode ==
  ASSUME NEW a \in Nodes, NEW b \in Nodes
  PROVE  /\ Both(a, b).name = a.name /\ Both(a, b).depth = a.depth
         /\ Both(a, b).duration = a.duration
         /\ b.duration # NoTime => Both(a, b) \in Nodes /\ Both(a, b).sumtime = a.sumtime + b.duration
         /\ b.duration = NoTime => Both(a, b).sumtime = Broken
<1>1. /\ a.count \in Nat /\ a.sumtime \in Nat /\ b.duration \in Nat \cup {NoTime}
  BY DEF Nodes
<1> DEFINE x == a.count + 1
           y == IF b.duration = NoTime THEN Broken ELSE a.sumtime + b.duration
           c == [a EXCEPT !.count = x, !.sumtime = y]
<1>2. Both(a, b) = c
  BY DEF Both
<1>3. x \in Nat /\ (b.duration # NoTime => y \in Nat)
  BY <1>1
<1>4. /\ c.name = a.name /\ c.depth = a.depth /\ c.duration = a.duration /\ c.sumtime = y
      /\ y \in Nat => c \in Nodes
  <2> HIDE DEF x, y
  <2> QED
    BY <1>3 DEF Nodes
<1> HIDE DEF c
<1> QED
  BY <1>2, <1>3, <1>4

\* A round is such a step, or the last call is without a time, or all is done.
LEMMA MergeRoundIs ==
  ASSUME NEW old \in Seq(Nodes), NEW new \in Seq(Nodes), NEW s \in States(old, new)
  PROVE  LET t == MergeRound(old, new, s)
         IN  \/ MergeStep(old, new, s, t)
             \/ /\ s.i <= Len(old) /\ s.j <= Len(new) /\ new[s.j].duration = NoTime
                /\ t = [i |-> s.i + 1, j |-> s.j + 1, top |-> Append(s.top, Both(old[s.i], new[s.j]))]
             \/ s.i = Len(old) + 1 /\ s.j = Len(new) + 1 /\ t = s
<1> DEFINE t == MergeRound(old, new, s)
           oldLeft == s.i <= Len(old)
           newLeft == s.j <= Len(new)
<1>1. /\ s.i \in 1..Len(old) + 1 /\ s.j \in 1..Len(new) + 1 /\ Len(old) \in Nat /\ Len(new) \in Nat
  BY DEF States
<1>2. /\ oldLeft => old[s.i].depth \in Nat
      /\ newLeft => new[s.j].depth \in Nat
  BY <1>1, NodeFields
<1>3. CASE oldLeft /\ newLeft /\ SameCall(old[s.i], new[s.j])
  <2>1. t = [i |-> s.i + 1, j |-> s.j + 1, top |-> Append(s.top, Both(old[s.i], new[s.j]))]
    BY <1>3 DEF MergeRound
  <2> HIDE DEF t
  <2> QED
    BY <1>3, <2>1 DEF MergeStep, TakesBoth, t
<1>4. CASE /\ ~(oldLeft /\ newLeft /\ SameCall(old[s.i], new[s.j]))
           /\ newLeft /\ (oldLeft => NewFirst(old[s.i], new[s.j], new))
  <2>1. t = [i |-> s.i, j |-> s.j + 1, top |-> Append(s.top, new[s.j])]
    BY <1>4 DEF MergeRound
  <2>2. oldLeft => old[s.i].depth <= new[s.j].depth
    BY <1>2, <1>4 DEF NewFirst
  <2> HIDE DEF t
  <2> QED
    BY <1>4, <2>1, <2>2 DEF MergeStep, TakesNew, t
<1>5. CASE /\ ~(oldLeft /\ newLeft /\ SameCall(old[s.i], new[s.j]))
           /\ ~(newLeft /\ (oldLeft => NewFirst(old[s.i], new[s.j], new)))
           /\ oldLeft
  <2>1. t = [i |-> s.i + 1, j |-> s.j, top |-> Append(s.top, old[s.i])]
    BY <1>5 DEF MergeRound
  <2>2. newLeft => new[s.j].depth <= old[s.i].depth
    BY <1>2, <1>5 DEF NewFirst
  <2> HIDE DEF t
  <2> QED
    BY <1>5, <2>1, <2>2 DEF MergeStep, TakesOld, t
<1>6. CASE /\ ~(newLeft /\ (oldLeft => NewFirst(old[s.i], new[s.j], new)))
           /\ ~oldLeft
  <2>1. ~newLeft
    BY <1>6
  <2>2. t = s
    BY <1>6, <2>1 DEF MergeRound
  <2> HIDE DEF t
  <2> QED
    BY <1>1, <1>6, <2>1, <2>2 DEF t
<1> QED
  BY <1>3, <1>4, <1>5, <1>6

\* Once a time is unknown it stays so.
Wide(old, new) ==
  [i : 1..Len(old) + 1, j : 1..Len(new) + 1,
   top : Seq(Nodes \cup {Both(old[p[1]], new[p[2]]) : p \in (1..Len(old)) \X (1..Len(new))})]

LEMMA StaysBroken ==
  ASSUME NEW old \in Seq(Nodes), NEW new \in Seq(Nodes), NEW s \in Wide(old, new), Raises(s.top)
  PROVE  LET t == MergeRound(old, new, s) IN t \in Wide(old, new) /\ Raises(t.top)
<1> DEFINE X == Nodes \cup {Both(old[p[1]], new[p[2]]) : p \in (1..Len(old)) \X (1..Len(new))}
           Good(t) == t \in Wide(old, new) /\ Raises(t.top)
<1>1. s.i \in 1..Len(old) + 1 /\ s.j \in 1..Len(new) + 1 /\ s.top \in Seq(X)
  BY DEF Wide
<1>2. Len(old) \in Nat /\ Len(new) \in Nat
  OBVIOUS
<1>3. ASSUME NEW i \in 1..Len(old) + 1, NEW j \in 1..Len(new) + 1, NEW x \in X
      PROVE  Good([i |-> i, j |-> j, top |-> Append(s.top, x)])
  <2> HIDE DEF X
  <2> DEFINE u == Append(s.top, x)
  <2>1. /\ u \in Seq(X) /\ Len(u) = Len(s.top) + 1 /\ Len(s.top) \in Nat
        /\ \A m \in 1..Len(s.top) : u[m] = s.top[m]
    BY <1>1
  <2>2. PICK m \in 1..Len(s.top) : s.top[m].sumtime = Broken
    BY <1>1 DEF Raises
  <2>3. m \in DOMAIN u /\ u[m] = s.top[m]
    BY <2>1
  <2> HIDE DEF u
  <2>4. Raises(u)
    BY <2>2, <2>3 DEF Raises
  <2>5. [i |-> i, j |-> j, top |-> u].top = u
    OBVIOUS
  <2>6. [i |-> i, j |-> j, top |-> u] \in Wide(old, new)
    BY <2>1 DEF Wide, X
  <2> QED
    BY <2>4, <2>5, <2>6 DEF u
<1>4. /\ s.i <= Len(old) => s.i + 1 \in 1..Len(old) + 1 /\ s.i \in 1..Len(old)
      /\ s.j <= Len(new) => s.j + 1 \in 1..Len(new) + 1 /\ s.j \in 1..Len(new)
  BY <1>1, <1>2
<1>5. CASE s.i <= Len(old) /\ s.j <= Len(new) /\ SameCall(old[s.i], new[s.j])
  <2>1. Both(old[s.i], new[s.j]) \in X
    <3> DEFINE p == <<s.i, s.j>>
    <3>1. p \in (1..Len(old)) \X (1..Len(new)) /\ p[1] = s.i /\ p[2] = s.j
      BY <1>4, <1>5
    <3> HIDE DEF p
    <3>2. Both(old[p[1]], new[p[2]]) \in X
      BY <3>1
    <3> QED
      BY <3>1, <3>2
  <2>2. MergeRound(old, new, s) = [i |-> s.i + 1, j |-> s.j + 1,
                                   top |-> Append(s.top, Both(old[s.i], new[s.j]))]
    BY <1>5 DEF MergeRound
  <2> HIDE DEF X, Good
  <2>3. Good(MergeRound(old, new, s))
    BY <1>3, <1>4, <1>5, <2>1, <2>2
  <2> QED
    BY <2>3 DEF Good
<1>6. CASE /\ ~(s.i <= Len(old) /\ s.j <= Len(new) /\ SameCall(old[s.i], new[s.j]))
           /\ s.j <= Len(new) /\ (s.i <= Len(old) => NewFirst(old[s.i], new[s.j], new))
  <2>1. new[s.j] \in X
    BY <1>4, <1>6
  <2>2. MergeRound(old, new, s) = [i |-> s.i, j |-> s.j + 1, top |-> Append(s.top, new[s.j])]
    BY <1>6 DEF MergeRound
  <2> HIDE DEF X, Good
  <2>3. Good(MergeRound(old, new, s))
    BY <1>1, <1>3, <1>4, <1>6, <2>1, <2>2
  <2> QED
    BY <2>3 DEF Good
<1>7. CASE /\ ~(s.i <= Len(old) /\ s.j <= Len(new) /\ SameCall(old[s.i], new[s.j]))
           /\ ~(s.j <= Len(new) /\ (s.i <= Len(old) => NewFirst(old[s.i], new[s.j], new)))
           /\ s.i <= Len(old)
  <2>1. old[s.i] \in X
    BY <1>4, <1>7
  <2>2. MergeRound(old, new, s) = [i |-> s.i + 1, j |-> s.j, top |-> Append(s.top, old[s.i])]
    BY <1>7 DEF MergeRound
  <2> HIDE DEF X, Good
  <2>3. Good(MergeRound(old, new, s))
    BY <1>1, <1>3, <1>4, <1>7, <2>1, <2>2
  <2> QED
    BY <2>3 DEF Good
<1>8. CASE /\ ~(s.j <= Len(new) /\ (s.i <= Len(old) => NewFirst(old[s.i], new[s.j], new)))
           /\ ~(s.i <= Len(old))
  <2>1. MergeRound(old, new, s) = s
    BY <1>8 DEF MergeRound
  <2> QED
    BY <2>1
<1> QED
  BY <1>5, <1>6, <1>7, <1>8

LEMMA Forward ==
  ASSUME NEW a \in Nat, NEW b \in Nat, NEW c, NEW d, NEW k \in Nat, a + b - 2 >= k,
         \/ c = a + 1 /\ d = b + 1
         \/ c = a /\ d = b + 1
         \/ c = a + 1 /\ d = b
  PROVE  c + d - 2 >= k + 1
OBVIOUS

\* What every step keeps holds of the merged tree, unless a time is unknown.
LEMMA MergeInduct ==
  ASSUME NEW old \in Seq(Nodes), NEW new \in Seq(Nodes), NEW S \in SUBSET States(old, new),
         [i |-> 1, j |-> 1, top |-> <<>>] \in S,
         \A s \in S : \A t : MergeStep(old, new, s, t) => t \in S
  PROVE  /\ \/ Raises(Merge(old, new))
            \/ \E s \in S : s.i = Len(old) + 1 /\ s.j = Len(new) + 1 /\ s.top = Merge(old, new)
         /\ (\A j \in 1..Len(new) : new[j].duration # NoTime) => Merge(old, new) \in Seq(Nodes)
<1> DEFINE N == Len(old) + Len(new)
           f == CHOOSE s : MergeRounds(old, new, N, s)
           Known == \A j \in 1..Len(new) : new[j].duration # NoTime
<1>1. Len(old) \in Nat /\ Len(new) \in Nat /\ N \in Nat
  OBVIOUS
<1>2. MergeRounds(old, new, N, f)
  <2> HIDE DEF N
  <2> QED
    BY <1>1, MergeExists
<1>3. Merge(old, new) = f[N].top
  BY DEF Merge, MergeRounds
<1> HIDE DEF f
<1>4. ASSUME NEW k \in 0..N
      PROVE  f[k] = IF k = 0 THEN [i |-> 1, j |-> 1, top |-> <<>>] ELSE MergeRound(old, new, f[k - 1])
  BY <1>2 DEF MergeRounds
<1> HIDE DEF N
<1> DEFINE Fine(k) == /\ f[k] \in S
                      /\ \/ f[k].i + f[k].j - 2 >= k
                         \/ f[k].i = Len(old) + 1 /\ f[k].j = Len(new) + 1
           Lost(k) == ~Known /\ f[k] \in Wide(old, new) /\ Raises(f[k].top)
           T == {k \in Nat : k <= N => Fine(k) \/ Lost(k)}
<1>5. 0 \in T
  <2>1. f[0] = [i |-> 1, j |-> 1, top |-> <<>>]
    BY <1>1, <1>4
  <2>2. f[0] \in S /\ f[0].i = 1 /\ f[0].j = 1
    BY <2>1
  <2> QED
    BY <2>2
<1>6. ASSUME NEW k \in Nat, k \in T PROVE k + 1 \in T
  <2> SUFFICES ASSUME k + 1 <= N PROVE Fine(k + 1) \/ Lost(k + 1)
    OBVIOUS
  <2> DEFINE s == f[k]
             t == f[k + 1]
  <2>1. t = MergeRound(old, new, s)
    BY <1>1, <1>4
  <2>2. Fine(k) \/ Lost(k)
    BY <1>1, <1>6
  <2>3. CASE Lost(k)
    <3>1. t \in Wide(old, new) /\ Raises(t.top)
      <4> HIDE DEF s, t
      <4>1. s \in Wide(old, new) /\ Raises(s.top)
        BY <2>3 DEF s
      <4> QED
        BY <2>1, <4>1, StaysBroken
    <3> QED
      BY <2>3, <3>1
  <2>4. CASE Fine(k)
    <3>0. s \in S /\ s \in States(old, new)
      BY <2>4
    <3>1. /\ s.i \in 1..Len(old) + 1 /\ s.j \in 1..Len(new) + 1 /\ s.top \in Seq(Nodes)
          /\ \/ s.i + s.j - 2 >= k
             \/ s.i = Len(old) + 1 /\ s.j = Len(new) + 1
      BY <2>4, <3>0 DEF States
    <3> HIDE DEF s, t
    <3>2. \/ MergeStep(old, new, s, t)
          \/ /\ s.i <= Len(old) /\ s.j <= Len(new) /\ new[s.j].duration = NoTime
             /\ t = [i |-> s.i + 1, j |-> s.j + 1, top |-> Append(s.top, Both(old[s.i], new[s.j]))]
          \/ s.i = Len(old) + 1 /\ s.j = Len(new) + 1 /\ t = s
      BY <2>1, <3>0, MergeRoundIs
    <3>3. CASE MergeStep(old, new, s, t)
      <4>1. t \in S
        BY <3>0, <3>3
      <4>2. t.i + t.j - 2 >= k + 1
        <5>1. \/ t.i = s.i + 1 /\ t.j = s.j + 1 /\ s.i <= Len(old)
              \/ t.i = s.i /\ t.j = s.j + 1 /\ s.j <= Len(new)
              \/ t.i = s.i + 1 /\ t.j = s.j /\ s.i <= Len(old)
          BY <3>3 DEF MergeStep, TakesBoth, TakesNew, TakesOld
        <5>2. s.i + s.j - 2 >= k
          BY <1>1, <3>1, <5>1
        <5>3. s.i \in Nat /\ s.j \in Nat
          BY <1>1, <3>1
        <5>4. \/ t.i = s.i + 1 /\ t.j = s.j + 1
              \/ t.i = s.i /\ t.j = s.j + 1
              \/ t.i = s.i + 1 /\ t.j = s.j
          BY <5>1
        <5> QED
          BY <5>2, <5>3, <5>4, Forward
      <4> QED
        BY <4>1, <4>2 DEF t
    <3>4. CASE /\ s.i <= Len(old) /\ s.j <= Len(new) /\ new[s.j].duration = NoTime
               /\ t = [i |-> s.i + 1, j |-> s.j + 1, top |-> Append(s.top, Both(old[s.i], new[s.j]))]
      <4> DEFINE x == Both(old[s.i], new[s.j])
                 X == Nodes \cup {Both(old[p[1]], new[p[2]]) : p \in (1..Len(old)) \X (1..Len(new))}
                 u == Append(s.top, x)
      <4>1. s.i \in 1..Len(old) /\ s.j \in 1..Len(new)
        BY <1>1, <3>1, <3>4
      <4>2. ~Known
        BY <3>4, <4>1
      <4>3. x \in X
        <5> DEFINE p == <<s.i, s.j>>
        <5>1. p \in (1..Len(old)) \X (1..Len(new)) /\ p[1] = s.i /\ p[2] = s.j
          BY <4>1
        <5> HIDE DEF p
        <5>2. Both(old[p[1]], new[p[2]]) \in X
          BY <5>1
        <5> QED
          BY <5>1, <5>2
      <4>4. x.sumtime = Broken
        <5>1. old[s.i] \in Nodes /\ new[s.j] \in Nodes
          BY <4>1
        <5> QED
          BY <3>4, <5>1, BothNode
      <4>5. s.top \in Seq(X)
        BY <3>1
      <4> HIDE DEF X, x
      <4>6. u \in Seq(X) /\ Len(s.top) + 1 \in DOMAIN u /\ u[Len(s.top) + 1] = x
        BY <4>3, <4>5
      <4> HIDE DEF u
      <4>7. Raises(u)
        BY <4>4, <4>6 DEF Raises
      <4>8. t.top = u /\ t = [i |-> s.i + 1, j |-> s.j + 1, top |-> u]
        BY <3>4 DEF u, x
      <4>9. s.i + 1 \in 1..Len(old) + 1 /\ s.j + 1 \in 1..Len(new) + 1
        BY <1>1, <4>1
      <4>10. t \in Wide(old, new)
        BY <4>6, <4>8, <4>9 DEF Wide, X
      <4> QED
        BY <4>2, <4>7, <4>8, <4>10 DEF t
    <3>5. CASE s.i = Len(old) + 1 /\ s.j = Len(new) + 1 /\ t = s
      BY <3>0, <3>5 DEF t
    <3> QED
      BY <3>2, <3>3, <3>4, <3>5
  <2> QED
    BY <2>2, <2>3, <2>4
<1> HIDE DEF T
<1>7. N \in T
  BY <1>1, <1>5, <1>6, AllNumbers
<1>8. Fine(N) \/ Lost(N)
  BY <1>1, <1>7 DEF T
<1>9. CASE Fine(N)
  <2>1. f[N] \in S /\ f[N] \in States(old, new)
    BY <1>9
  <2>2. f[N].i \in 1..Len(old) + 1 /\ f[N].j \in 1..Len(new) + 1 /\ f[N].top \in Seq(Nodes)
    BY <2>1 DEF States
  <2>3. f[N].i = Len(old) + 1 /\ f[N].j = Len(new) + 1
    <3> DEFINE i == f[N].i
               j == f[N].j
               a == Len(old)
               b == Len(new)
    <3>1. \/ i + j - 2 >= N
          \/ i = a + 1 /\ j = b + 1
      BY <1>9
    <3>2. i \in 1..a + 1 /\ j \in 1..b + 1 /\ a \in Nat /\ b \in Nat
      BY <2>2
    <3>3. N = a + b
      BY DEF N
    <3> HIDE DEF i, j, a, b
    <3>4. i = a + 1 /\ j = b + 1
      BY <3>1, <3>2, <3>3
    <3> QED
      BY <3>4 DEF i, j, a, b
  <2> HIDE DEF Fine
  <2> QED
    BY <1>3, <2>1, <2>2, <2>3
<1>10. CASE Lost(N)
  BY <1>3, <1>10
<1> QED
  BY <1>8, <1>9, <1>10

\* The call that a step puts at the end.
Taken(old, new, s, t, x) ==
  /\ x \in Nodes /\ t.top = Append(s.top, x)
  /\ \/ /\ s.i <= Len(old) /\ s.j <= Len(new) /\ t.i = s.i + 1 /\ t.j = s.j + 1
        /\ x = Both(old[s.i], new[s.j])
        /\ x.name = old[s.i].name /\ x.name = new[s.j].name
        /\ x.depth = old[s.i].depth /\ x.depth = new[s.j].depth
        /\ new[s.j].duration \in Nat /\ x.sumtime = old[s.i].sumtime + new[s.j].duration
     \/ /\ s.j <= Len(new) /\ t.i = s.i /\ t.j = s.j + 1 /\ x = new[s.j]
        /\ s.i <= Len(old) => old[s.i].depth <= x.depth /\ ~SameCall(old[s.i], x)
     \/ /\ s.i <= Len(old) /\ t.i = s.i + 1 /\ t.j = s.j /\ x = old[s.i]
        /\ s.j <= Len(new) => new[s.j].depth <= x.depth /\ ~SameCall(x, new[s.j])

LEMMA StepTakes ==
  ASSUME NEW old \in Seq(Nodes), NEW new \in Seq(Nodes), NEW s \in States(old, new), NEW t,
         MergeStep(old, new, s, t)
  PROVE  /\ s.i \in 1..Len(old) + 1 /\ s.j \in 1..Len(new) + 1 /\ s.top \in Seq(Nodes)
         /\ Len(old) \in Nat /\ Len(new) \in Nat
         /\ s.i <= Len(old) => s.i \in 1..Len(old) /\ old[s.i] \in Nodes
         /\ s.j <= Len(new) => s.j \in 1..Len(new) /\ new[s.j] \in Nodes
         /\ t \in States(old, new)
         /\ \E x : Taken(old, new, s, t, x)
<1>1. /\ s.i \in 1..Len(old) + 1 /\ s.j \in 1..Len(new) + 1 /\ s.top \in Seq(Nodes)
      /\ Len(old) \in Nat /\ Len(new) \in Nat
  BY DEF States
<1>2. /\ s.i <= Len(old) => s.i \in 1..Len(old) /\ s.i + 1 \in 1..Len(old) + 1
      /\ s.j <= Len(new) => s.j \in 1..Len(new) /\ s.j + 1 \in 1..Len(new) + 1
  BY <1>1
<1>3. /\ s.i <= Len(old) => old[s.i] \in Nodes
      /\ s.j <= Len(new) => new[s.j] \in Nodes
  BY <1>2
<1>4. ASSUME NEW i \in 1..Len(old) + 1, NEW j \in 1..Len(new) + 1, NEW x \in Nodes,
             t = [i |-> i, j |-> j, top |-> Append(s.top, x)]
      PROVE  t \in States(old, new) /\ t.i = i /\ t.j = j /\ t.top = Append(s.top, x)
  <2>1. Append(s.top, x) \in Seq(Nodes)
    BY <1>1
  <2> QED
    BY <1>4, <2>1 DEF States
<1>5. t \in States(old, new) /\ \E x : Taken(old, new, s, t, x)
  <2>1. CASE TakesBoth(old, new, s, t)
    <3> DEFINE a == old[s.i]
               b == new[s.j]
               x == Both(a, b)
    <3>1. /\ s.i <= Len(old) /\ s.j <= Len(new) /\ SameCall(a, b) /\ b.duration # NoTime
          /\ t = [i |-> s.i + 1, j |-> s.j + 1, top |-> Append(s.top, x)]
      BY <2>1 DEF TakesBoth
    <3>2. a \in Nodes /\ b \in Nodes
      BY <1>3, <3>1
    <3>3. b.duration \in Nat
      BY <3>1, <3>2 DEF Nodes
    <3> HIDE DEF a, b
    <3>4. /\ x \in Nodes /\ x.name = a.name /\ x.depth = a.depth
          /\ x.sumtime = a.sumtime + b.duration
      BY <3>1, <3>2, BothNode
    <3>5. x.name = b.name /\ x.depth = b.depth
      BY <3>1, <3>4 DEF SameCall
    <3> HIDE DEF x
    <3>6. t \in States(old, new) /\ t.i = s.i + 1 /\ t.j = s.j + 1 /\ t.top = Append(s.top, x)
      <4> DEFINE i == s.i + 1
                 j == s.j + 1
      <4>1. i \in 1..Len(old) + 1 /\ j \in 1..Len(new) + 1
        BY <1>2, <3>1
      <4>2. t = [i |-> i, j |-> j, top |-> Append(s.top, x)]
        BY <3>1
      <4> HIDE DEF i, j
      <4>3. t \in States(old, new) /\ t.i = i /\ t.j = j /\ t.top = Append(s.top, x)
        BY <1>4, <3>4, <4>1, <4>2
      <4> QED
        BY <4>3 DEF i, j
    <3>7. Taken(old, new, s, t, x)
      BY <3>1, <3>3, <3>4, <3>5, <3>6 DEF Taken, a, b, x
    <3> QED
      BY <3>6, <3>7
  <2>2. CASE TakesNew(old, new, s, t)
    <3> DEFINE x == new[s.j]
               j == s.j + 1
    <3>1. /\ s.j <= Len(new) /\ t = [i |-> s.i, j |-> j, top |-> Append(s.top, x)]
          /\ s.i <= Len(old) => old[s.i].depth <= x.depth /\ ~SameCall(old[s.i], x)
      BY <2>2 DEF TakesNew
    <3>2. x \in Nodes /\ j \in 1..Len(new) + 1
      BY <1>2, <1>3, <3>1
    <3> HIDE DEF x, j
    <3>3. t \in States(old, new) /\ t.i = s.i /\ t.j = j /\ t.top = Append(s.top, x)
      BY <1>1, <1>4, <3>1, <3>2
    <3>4. Taken(old, new, s, t, x)
      BY <3>1, <3>2, <3>3 DEF Taken, x, j
    <3> QED
      BY <3>3, <3>4
  <2>3. CASE TakesOld(old, new, s, t)
    <3> DEFINE x == old[s.i]
               i == s.i + 1
    <3>1. /\ s.i <= Len(old) /\ t = [i |-> i, j |-> s.j, top |-> Append(s.top, x)]
          /\ s.j <= Len(new) => new[s.j].depth <= x.depth /\ ~SameCall(x, new[s.j])
      BY <2>3 DEF TakesOld
    <3>2. x \in Nodes /\ i \in 1..Len(old) + 1
      BY <1>2, <1>3, <3>1
    <3> HIDE DEF x, i
    <3>3. t \in States(old, new) /\ t.i = i /\ t.j = s.j /\ t.top = Append(s.top, x)
      BY <1>1, <1>4, <3>1, <3>2
    <3>4. Taken(old, new, s, t, x)
      BY <3>1, <3>2, <3>3 DEF Taken, x, i
    <3> QED
      BY <3>3, <3>4
  <2> QED
    BY <2>1, <2>2, <2>3 DEF MergeStep
<1> QED
  BY <1>1, <1>2, <1>3, <1>5

LEMMA Starts ==
  ASSUME NEW old \in Seq(Nodes), NEW new \in Seq(Nodes)
  PROVE  /\ [i |-> 1, j |-> 1, top |-> <<>>] \in States(old, new)
         /\ [i |-> 1, j |-> 1, top |-> <<>>].i = 1 /\ [i |-> 1, j |-> 1, top |-> <<>>].j = 1
         /\ [i |-> 1, j |-> 1, top |-> <<>>].top = <<>>
<1>1. Len(old) \in Nat /\ Len(new) \in Nat /\ <<>> \in Seq(Nodes)
  OBVIOUS
<1>2. 1 \in 1..Len(old) + 1 /\ 1 \in 1..Len(new) + 1
  BY <1>1
<1> QED
  BY <1>1, <1>2 DEF States

LEMMA AppendIs ==
  ASSUME NEW X, NEW s \in Seq(X), NEW x \in X
  PROVE  /\ Append(s, x) \in Seq(X) /\ Len(s) \in Nat /\ Len(Append(s, x)) = Len(s) + 1
         /\ DOMAIN Append(s, x) = 1..Len(s) + 1 /\ DOMAIN s = 1..Len(s)
         /\ \A i \in 1..Len(s) : Append(s, x)[i] = s[i]
         /\ Append(s, x)[Len(s) + 1] = x
OBVIOUS

\* The types.
LEMMA MergeType ==
  ASSUME NEW old \in Seq(Nodes), NEW new \in Seq(Nodes)
  PROVE  /\ ~Raises(Merge(old, new)) => Merge(old, new) \in Seq(Nodes)
         /\ (\A j \in 1..Len(new) : new[j].duration # NoTime) =>
              Merge(old, new) \in Seq(Nodes) /\ ~Raises(Merge(old, new))
<1> DEFINE S == States(old, new)
<1>1. [i |-> 1, j |-> 1, top |-> <<>>] \in S
  BY Starts
<1>2. \A s \in S : \A t : MergeStep(old, new, s, t) => t \in S
  BY StepTakes
<1>3. S \in SUBSET States(old, new)
  OBVIOUS
<1>4. \A s \in S : s.top \in Seq(Nodes)
  BY DEF States
<1> HIDE DEF S
<1>5. /\ \/ Raises(Merge(old, new))
         \/ \E s \in S : s.i = Len(old) + 1 /\ s.j = Len(new) + 1 /\ s.top = Merge(old, new)
      /\ (\A j \in 1..Len(new) : new[j].duration # NoTime) => Merge(old, new) \in Seq(Nodes)
  BY <1>1, <1>2, <1>3, MergeInduct
<1>6. ASSUME Merge(old, new) \in Seq(Nodes) PROVE ~Raises(Merge(old, new))
  <2>1. \A i \in DOMAIN Merge(old, new) : Merge(old, new)[i].sumtime \in Nat
    BY <1>6, NodeFields
  <2> QED
    BY <2>1 DEF Raises, Broken
<1> QED
  BY <1>4, <1>5, <1>6

\* The first calls of the two trees are one.
First(old, new) == IF old = <<>> THEN new[1] ELSE Both(old[1], new[1])

LEMMA MergeRooted ==
  ASSUME NEW old \in Seq(Nodes), NEW new \in Seq(Nodes), new # <<>>, Rooted(old), Rooted(new),
         ~Raises(Merge(old, new))
  PROVE  /\ Merge(old, new) # <<>> /\ Merge(old, new)[1] = First(old, new)
         /\ Rooted(Merge(old, new))
<1> DEFINE Good(s) == /\ s.top = <<>> => s.i = 1 /\ s.j = 1
                      /\ s.top # <<>> => /\ s.top[1] = First(old, new) /\ s.j >= 2
                                         /\ old # <<>> => s.i >= 2
                      /\ Rooted(s.top)
           S == {s \in States(old, new) : Good(s)}
<1>1. [i |-> 1, j |-> 1, top |-> <<>>] \in S
  <2> DEFINE s == [i |-> 1, j |-> 1, top |-> <<>>]
  <2>1. s \in States(old, new) /\ s.i = 1 /\ s.j = 1 /\ s.top = <<>>
    BY Starts
  <2> HIDE DEF s
  <2>2. Good(s)
    BY <2>1 DEF Rooted
  <2> QED
    BY <2>1, <2>2 DEF s
<1>2. ASSUME NEW s \in S, NEW t, MergeStep(old, new, s, t) PROVE t \in S
  <2>1. s \in States(old, new) /\ Good(s)
    OBVIOUS
  <2>2. /\ s.i \in 1..Len(old) + 1 /\ s.j \in 1..Len(new) + 1 /\ s.top \in Seq(Nodes)
        /\ Len(old) \in Nat /\ Len(new) \in Nat
        /\ s.i <= Len(old) => s.i \in 1..Len(old) /\ old[s.i] \in Nodes
        /\ s.j <= Len(new) => s.j \in 1..Len(new) /\ new[s.j] \in Nodes
        /\ t \in States(old, new)
        /\ \E x : Taken(old, new, s, t, x)
    BY <1>2, <2>1, StepTakes
  <2>3. PICK x : Taken(old, new, s, t, x)
    BY <2>2
  <2>4. x \in Nodes /\ t.top = Append(s.top, x)
    BY <2>3 DEF Taken
  <2>5. /\ t.top \in Seq(Nodes) /\ Len(s.top) \in Nat /\ DOMAIN t.top = 1..Len(s.top) + 1
        /\ DOMAIN s.top = 1..Len(s.top) /\ \A i \in 1..Len(s.top) : t.top[i] = s.top[i]
        /\ t.top[Len(s.top) + 1] = x /\ t.top # <<>>
    <3>1. s.top \in Seq(Nodes)
      BY <2>2
    <3> HIDE DEF S
    <3>2. Append(s.top, x) # <<>>
      <4>1. Len(Append(s.top, x)) = Len(s.top) + 1 /\ Len(s.top) \in Nat
        BY <2>4, <3>1, AppendIs
      <4> DEFINE r == Append(s.top, x)
      <4>2. Len(r) # 0
        BY <4>1
      <4> HIDE DEF r
      <4>3. r # <<>>
        BY <4>2
      <4> QED
        BY <4>3 DEF r
    <3> QED
      BY <2>4, <3>1, <3>2, AppendIs
  <2>6. /\ \A i \in 1..Len(old) : (old[i].name = Root <=> i = 1) /\ (old[i].depth = 0 <=> i = 1)
        /\ \A i \in 1..Len(new) : (new[i].name = Root <=> i = 1) /\ (new[i].depth = 0 <=> i = 1)
    BY NodeFields DEF Rooted
  <2>7. CASE s.top = <<>>
    <3>1. s.i = 1 /\ s.j = 1 /\ Len(s.top) = 0 /\ 1 \in 1..Len(new) /\ 1 <= Len(new)
      BY <2>1, <2>2, <2>7
    <3>2. x = First(old, new) /\ t.j = 2 /\ (old # <<>> => t.i = 2)
      <4>1. CASE old = <<>>
        <5>1. ~(s.i <= Len(old))
          BY <3>1, <4>1
        <5> QED
          BY <2>3, <3>1, <4>1, <5>1 DEF Taken, First
      <4>2. CASE old # <<>>
        <5>1. 1 \in 1..Len(old) /\ 1 <= Len(old)
          BY <2>2, <4>2
        <5>2. SameCall(old[1], new[1])
          BY <2>6, <3>1, <5>1 DEF SameCall
        <5> QED
          BY <2>3, <3>1, <4>2, <5>1, <5>2 DEF Taken, First
      <4> QED
        BY <4>1, <4>2
    <3>3. x.name = Root /\ x.depth = 0
      <4>1. new[1].name = Root /\ new[1].depth = 0
        BY <2>6, <3>1
      <4> QED
        BY <2>3, <3>1, <4>1, <2>6 DEF Taken
    <3>4. t.top[1] = x
      BY <2>5, <3>1
    <3>5. Rooted(t.top)
      <4>1. \A i \in DOMAIN t.top : i = 1
        BY <2>5, <3>1
      <4> QED
        BY <3>3, <3>4, <4>1 DEF Rooted
    <3>6. Good(t)
      BY <2>5, <3>2, <3>4, <3>5
    <3> QED
      BY <2>2, <3>6
  <2>8. CASE s.top # <<>>
    <3>1. s.top[1] = First(old, new) /\ s.j >= 2 /\ (old # <<>> => s.i >= 2) /\ Rooted(s.top)
      BY <2>1, <2>8
    <3>2. Len(s.top) >= 1 /\ 1 \in 1..Len(s.top)
      BY <2>2, <2>5, <2>8
    <3>3. x.name # Root /\ x.depth # 0
      <4>1. s.j <= Len(new) => s.j \in 1..Len(new) /\ s.j # 1
        BY <2>2, <3>1
      <4>2. s.i <= Len(old) => s.i \in 1..Len(old) /\ s.i # 1
        <5>1. s.i <= Len(old) => old # <<>>
          BY <2>2
        <5> QED
          BY <2>2, <3>1, <5>1
      <4> QED
        BY <2>3, <2>6, <4>1, <4>2 DEF Taken
    <3>4. t.top[1] = First(old, new)
      BY <2>5, <3>1, <3>2
    <3>5. t.j >= 2 /\ (old # <<>> => t.i >= 2)
      <4>1. /\ t.i = s.i + 1 \/ t.i = s.i
            /\ t.j = s.j + 1 \/ t.j = s.j
        BY <2>3 DEF Taken
      <4> QED
        BY <2>2, <3>1, <4>1
    <3>6. Rooted(t.top)
      <4> SUFFICES ASSUME NEW i \in DOMAIN t.top
                   PROVE  (t.top[i].name = Root <=> i = 1) /\ (t.top[i].depth = 0 <=> i = 1)
        BY DEF Rooted
      <4>1. CASE i \in 1..Len(s.top)
        BY <2>5, <3>1, <4>1 DEF Rooted
      <4>2. CASE i = Len(s.top) + 1
        <5>1. i # 1 /\ t.top[i] = x
          BY <2>5, <3>2, <4>2
        <5> QED
          BY <3>3, <5>1
      <4> QED
        BY <2>5, <4>1, <4>2
    <3>7. Good(t)
      BY <2>5, <3>4, <3>5, <3>6
    <3> QED
      BY <2>2, <3>7
  <2> QED
    BY <2>7, <2>8
<1>3. S \in SUBSET States(old, new) /\ \A s \in S : s \in States(old, new) /\ Good(s)
  OBVIOUS
<1> HIDE DEF S, Good
<1>4. \E s \in S : s.i = Len(old) + 1 /\ s.j = Len(new) + 1 /\ s.top = Merge(old, new)
  BY <1>1, <1>2, <1>3, MergeInduct
<1>5. PICK s \in S : s.i = Len(old) + 1 /\ s.j = Len(new) + 1 /\ s.top = Merge(old, new)
  BY <1>4
<1>6. Good(s)
  BY <1>3
<1>7. s.j # 1
  <2>1. Len(new) \in Nat /\ Len(new) # 0
    OBVIOUS
  <2> QED
    BY <1>5, <2>1
<1> QED
  BY <1>5, <1>6, <1>7 DEF Good

\* A merged tree (merge) of trees in which each call has one above it, as gengraphviz
\* needs it, is such a tree.
THEOREM MergeParents ==
  ASSUME NEW old \in Seq(Nodes), NEW new \in Seq(Nodes), HasParents(old), HasParents(new),
         ~Raises(Merge(old, new))
  PROVE  HasParents(Merge(old, new))
<1> DEFINE Has(stack, d) == \E k \in 1..Len(stack) : stack[k].depth = d
           Good(s) == /\ HasParents(s.top)
                      /\ \A k \in 1..s.i - 1 : Has(s.top, old[k].depth)
                      /\ \A k \in 1..s.j - 1 : Has(s.top, new[k].depth)
           S == {s \in States(old, new) : Good(s)}
<1>1. [i |-> 1, j |-> 1, top |-> <<>>] \in S
  <2> DEFINE s == [i |-> 1, j |-> 1, top |-> <<>>]
  <2>1. s \in States(old, new) /\ s.i = 1 /\ s.j = 1 /\ s.top = <<>>
    BY Starts
  <2> HIDE DEF s
  <2>2. HasParents(s.top)
    BY <2>1 DEF HasParents
  <2>3. s.i - 1 = 0 /\ s.j - 1 = 0
    BY <2>1
  <2> QED
    BY <2>1, <2>2, <2>3 DEF s
<1>2. ASSUME NEW s \in S, NEW t, MergeStep(old, new, s, t) PROVE t \in S
  <2>1. s \in States(old, new) /\ Good(s)
    OBVIOUS
  <2>2. /\ s.i \in 1..Len(old) + 1 /\ s.j \in 1..Len(new) + 1 /\ s.top \in Seq(Nodes)
        /\ Len(old) \in Nat /\ Len(new) \in Nat
        /\ s.i <= Len(old) => s.i \in 1..Len(old) /\ old[s.i] \in Nodes
        /\ s.j <= Len(new) => s.j \in 1..Len(new) /\ new[s.j] \in Nodes
        /\ t \in States(old, new)
        /\ \E x : Taken(old, new, s, t, x)
    BY <1>2, <2>1, StepTakes
  <2>3. PICK x : Taken(old, new, s, t, x)
    BY <2>2
  <2>4. x \in Nodes /\ t.top = Append(s.top, x)
    BY <2>3 DEF Taken
  <2>5. /\ Len(t.top) = Len(s.top) + 1
        /\ Len(s.top) \in Nat /\ DOMAIN t.top = 1..Len(s.top) + 1
        /\ DOMAIN s.top = 1..Len(s.top) /\ \A i \in 1..Len(s.top) : t.top[i] = s.top[i]
        /\ t.top[Len(s.top) + 1] = x
    BY <2>2, <2>4, AppendIs
  <2>6. /\ \A i \in 1..Len(old) : old[i].depth > 0 =>
             \E h \in 1..i - 1 : old[h].depth = old[i].depth - 1
        /\ \A i \in 1..Len(new) : new[i].depth > 0 =>
             \E h \in 1..i - 1 : new[h].depth = new[i].depth - 1
    BY NodeFields DEF HasParents
  <2>7. \A d : Has(s.top, d) => Has(t.top, d)
    <3> TAKE d
    <3> HAVE Has(s.top, d)
    <3>1. PICK k \in 1..Len(s.top) : s.top[k].depth = d
      OBVIOUS
    <3>2. k \in 1..Len(t.top) /\ t.top[k] = s.top[k]
      BY <2>5
    <3> QED
      BY <3>1, <3>2
  <2>8. Has(t.top, x.depth)
    <3>1. Len(s.top) + 1 \in 1..Len(t.top)
      BY <2>5
    <3> QED
      BY <2>5, <3>1
  <2>9. x.depth > 0 => Has(s.top, x.depth - 1)
    <3>1. \/ s.i <= Len(old) /\ x.depth = old[s.i].depth
          \/ s.j <= Len(new) /\ x.depth = new[s.j].depth
      BY <2>3 DEF Taken
    <3>2. CASE s.i <= Len(old) /\ x.depth = old[s.i].depth
      <4> SUFFICES ASSUME x.depth > 0 PROVE Has(s.top, x.depth - 1)
        OBVIOUS
      <4>1. PICK h \in 1..s.i - 1 : old[h].depth = x.depth - 1
        BY <2>2, <2>6, <3>2
      <4>2. Has(s.top, old[h].depth)
        BY <2>1
      <4> HIDE DEF Has
      <4> QED
        BY <4>1, <4>2
    <3>3. CASE s.j <= Len(new) /\ x.depth = new[s.j].depth
      <4> SUFFICES ASSUME x.depth > 0 PROVE Has(s.top, x.depth - 1)
        OBVIOUS
      <4>1. PICK h \in 1..s.j - 1 : new[h].depth = x.depth - 1
        BY <2>2, <2>6, <3>3
      <4>2. Has(s.top, new[h].depth)
        BY <2>1
      <4> HIDE DEF Has
      <4> QED
        BY <4>1, <4>2
    <3> QED
      BY <3>1, <3>2, <3>3
  <2> HIDE DEF Has
  <2>10. HasParents(t.top)
    <3> SUFFICES ASSUME NEW i \in 1..Len(s.top) + 1, t.top[i].depth > 0
                 PROVE  \E h \in 1..i - 1 : t.top[h].depth = t.top[i].depth - 1
      BY <2>5 DEF HasParents
    <3>1. CASE i \in 1..Len(s.top)
      <4>1. t.top[i] = s.top[i]
        BY <2>5, <3>1
      <4>2. PICK h \in 1..i - 1 : s.top[h].depth = s.top[i].depth - 1
        BY <2>1, <2>5, <3>1, <4>1 DEF HasParents
      <4>3. h \in 1..Len(s.top)
        BY <2>5, <3>1
      <4> QED
        BY <2>5, <4>1, <4>2, <4>3
    <3>2. CASE i = Len(s.top) + 1
      <4>1. t.top[i] = x
        BY <2>5, <3>2
      <4>2. PICK h \in 1..Len(s.top) : s.top[h].depth = x.depth - 1
        BY <2>9, <4>1 DEF Has
      <4>3. h \in 1..i - 1 /\ t.top[h] = s.top[h]
        BY <2>5, <3>2
      <4> QED
        BY <4>1, <4>2, <4>3
    <3> QED
      BY <2>5, <3>1, <3>2
  <2>11. \A k \in 1..t.i - 1 : Has(t.top, old[k].depth)
    <3> TAKE k \in 1..t.i - 1
    <3>1. CASE k \in 1..s.i - 1
      BY <2>1, <2>7, <3>1
    <3>2. CASE k \notin 1..s.i - 1
      <4>1. k = s.i /\ t.i = s.i + 1
        <5>1. t.i = s.i \/ t.i = s.i + 1
          BY <2>3 DEF Taken
        <5>2. s.i \in Nat
          BY <2>2
        <5> QED
          BY <3>2, <5>1, <5>2
      <4>2. x.depth = old[s.i].depth
        BY <2>2, <2>3, <4>1 DEF Taken
      <4> QED
        BY <2>8, <4>1, <4>2
    <3> QED
      BY <3>1, <3>2
  <2>12. \A k \in 1..t.j - 1 : Has(t.top, new[k].depth)
    <3> TAKE k \in 1..t.j - 1
    <3>1. CASE k \in 1..s.j - 1
      BY <2>1, <2>7, <3>1
    <3>2. CASE k \notin 1..s.j - 1
      <4>1. k = s.j /\ t.j = s.j + 1
        <5>1. t.j = s.j \/ t.j = s.j + 1
          BY <2>3 DEF Taken
        <5>2. s.j \in Nat
          BY <2>2
        <5> QED
          BY <3>2, <5>1, <5>2
      <4>2. x.depth = new[s.j].depth
        BY <2>2, <2>3, <4>1 DEF Taken
      <4> QED
        BY <2>8, <4>1, <4>2
    <3> QED
      BY <3>1, <3>2
  <2> QED
    BY <2>2, <2>10, <2>11, <2>12
<1>3. S \in SUBSET States(old, new) /\ \A s \in S : HasParents(s.top)
  OBVIOUS
<1> HIDE DEF S
<1>4. \E s \in S : s.i = Len(old) + 1 /\ s.j = Len(new) + 1 /\ s.top = Merge(old, new)
  BY <1>1, <1>2, <1>3, MergeInduct
<1> QED
  BY <1>3, <1>4

\* The calls of n before position i.
Before(stack, i, n) == {h \in 1..i - 1 : stack[h].name = n}

LEMMA BeforeNext ==
  ASSUME NEW s \in Seq(Nodes), NEW i \in 1..Len(s), NEW n
  PROVE  Time(s, Before(s, i + 1, n)) =
           Time(s, Before(s, i, n)) + (IF s[i].name = n THEN s[i].sumtime ELSE 0)
<1>1. Len(s) \in Nat /\ i \notin Before(s, i, n)
  BY DEF Before
<1>2. CASE s[i].name = n
  <2>1. Before(s, i + 1, n) = Before(s, i, n) \cup {i}
    BY <1>1, <1>2 DEF Before
  <2>2. Time(s, Before(s, i, n) \cup {i}) = Time(s, Before(s, i, n)) + s[i].sumtime
    BY <1>1, TimeWith
  <2> QED
    BY <1>2, <2>1, <2>2
<1>3. CASE s[i].name # n
  <2>1. Before(s, i + 1, n) = Before(s, i, n)
    BY <1>1, <1>3 DEF Before
  <2>2. Time(s, Before(s, i, n)) \in Nat
    BY TimeType
  <2> QED
    BY <1>3, <2>1, <2>2
<1> QED
  BY <1>2, <1>3

LEMMA TimeOfAppend ==
  ASSUME NEW s \in Seq(Nodes), NEW x \in Nodes, NEW n
  PROVE  TimeOf(Append(s, x), n) = TimeOf(s, n) + (IF x.name = n THEN x.sumtime ELSE 0)
<1> DEFINE t == Append(s, x)
           P == {i \in DOMAIN t : t[i].name = n}
           Q == {i \in DOMAIN s : s[i].name = n}
<1>1. /\ t \in Seq(Nodes) /\ Len(s) \in Nat /\ DOMAIN t = 1..Len(s) + 1 /\ DOMAIN s = 1..Len(s)
      /\ t[Len(s) + 1] = x /\ \A i \in 1..Len(s) : t[i] = s[i]
  BY AppendIs
<1>2. TimeOf(t, n) = Time(t, P) /\ TimeOf(s, n) = Time(s, Q)
  BY DEF TimeOf
<1>3. Time(t, P) = Time(s, P) + (IF Len(s) + 1 \in P THEN x.sumtime ELSE 0)
  <2> HIDE DEF P
  <2> QED
    BY TimeAppend
<1>4. Len(s) + 1 \in P <=> x.name = n
  BY <1>1
<1>5. Time(s, P) = Time(s, Q)
  <2>1. \A i \in 1..Len(s) : i \in P <=> i \in Q
    <3> TAKE i \in 1..Len(s)
    <3>1. i \in 1..Len(s) + 1 /\ t[i] = s[i]
      BY <1>1
    <3> QED
      BY <1>1, <3>1
  <2> HIDE DEF P, Q
  <2>2. Times(s, P) = Times(s, Q)
    BY <2>1 DEF Times
  <2> QED
    BY <2>2, TimesFields
<1> HIDE DEF t, P, Q
<1> QED
  BY <1>2, <1>3, <1>4, <1>5 DEF t

\* The merged tree (merge) has no more than the times of both; it has all of them if
\* nothing was folded in the new one, as only the first time of a call is added.
THEOREM MergeTimes ==
  ASSUME NEW old \in Seq(Nodes), NEW new \in Seq(Nodes), Timed(new),
         ~Raises(Merge(old, new)), NEW n
  PROVE  /\ TimeOf(Merge(old, new), n) <= TimeOf(old, n) + TimeOf(new, n)
         /\ Unfolded(new) => TimeOf(Merge(old, new), n) = TimeOf(old, n) + TimeOf(new, n)
<1> DEFINE Sum(s) == Time(old, Before(old, s.i, n)) + Time(new, Before(new, s.j, n))
           Good(s) == /\ TimeOf(s.top, n) <= Sum(s)
                      /\ Unfolded(new) => TimeOf(s.top, n) = Sum(s)
           S == {s \in States(old, new) : Good(s)}
<1>1. [i |-> 1, j |-> 1, top |-> <<>>] \in S
  <2> DEFINE s == [i |-> 1, j |-> 1, top |-> <<>>]
  <2>1. s \in States(old, new) /\ s.i = 1 /\ s.j = 1 /\ s.top = <<>>
    BY Starts
  <2> HIDE DEF s
  <2>2. Before(old, s.i, n) = {} /\ Before(new, s.j, n) = {}
    BY <2>1 DEF Before
  <2>3. Time(old, {}) = 0 /\ Time(new, {}) = 0
    BY TimeOfNone
  <2>4. TimeOf(s.top, n) = 0
    <3>1. <<>> \in Seq(Nodes) /\ \A i \in 1..Len(<<>>) : FALSE
      OBVIOUS
    <3>2. \A P : Time(<<>>, P) = 0
      BY <3>1, TimeOfNone
    <3> QED
      BY <2>1, <3>2 DEF TimeOf
  <2>5. Good(s)
    BY <2>2, <2>3, <2>4
  <2> HIDE DEF Good
  <2> QED
    BY <2>1, <2>5 DEF s
<1>2. ASSUME NEW s \in S, NEW t, MergeStep(old, new, s, t) PROVE t \in S
  <2>1. s \in States(old, new) /\ Good(s)
    OBVIOUS
  <2>2. /\ s.i \in 1..Len(old) + 1 /\ s.j \in 1..Len(new) + 1 /\ s.top \in Seq(Nodes)
        /\ s.i <= Len(old) => s.i \in 1..Len(old) /\ old[s.i] \in Nodes
        /\ s.j <= Len(new) => s.j \in 1..Len(new) /\ new[s.j] \in Nodes
        /\ t \in States(old, new)
        /\ \E x : Taken(old, new, s, t, x)
    BY <1>2, <2>1, StepTakes
  <2>3. PICK x : Taken(old, new, s, t, x)
    BY <2>2
  <2>4. x \in Nodes /\ t.top = Append(s.top, x)
    BY <2>3 DEF Taken
  <2> DEFINE T == TimeOf(s.top, n)
             U == TimeOf(t.top, n)
             A == Time(old, Before(old, s.i, n))
             B == Time(new, Before(new, s.j, n))
             C == Time(old, Before(old, t.i, n))
             D == Time(new, Before(new, t.j, n))
  <2>5. U = T + (IF x.name = n THEN x.sumtime ELSE 0)
    BY <2>2, <2>4, TimeOfAppend
  <2>6. T \in Nat /\ A \in Nat /\ B \in Nat /\ x.sumtime \in Nat
    <3>1. x.sumtime \in Nat
      BY <2>4 DEF Nodes
    <3> QED
      BY <2>2, <3>1, TimeType DEF TimeOf
  <2>7. T <= A + B /\ (Unfolded(new) => T = A + B)
    BY <2>1
  <2>8. U <= C + D /\ (Unfolded(new) => U = C + D)
    <3>1. CASE /\ s.i <= Len(old) /\ s.j <= Len(new) /\ t.i = s.i + 1 /\ t.j = s.j + 1
               /\ x.name = old[s.i].name /\ x.name = new[s.j].name
               /\ new[s.j].duration \in Nat /\ x.sumtime = old[s.i].sumtime + new[s.j].duration
      <4>0. /\ C = Time(old, Before(old, s.i + 1, n)) /\ s.i \in 1..Len(old)
            /\ D = Time(new, Before(new, s.j + 1, n)) /\ s.j \in 1..Len(new)
        BY <2>2, <3>1
      <4>1. /\ C = A + (IF x.name = n THEN old[s.i].sumtime ELSE 0)
            /\ D = B + (IF x.name = n THEN new[s.j].sumtime ELSE 0)
        <5>1. /\ C = A + (IF old[s.i].name = n THEN old[s.i].sumtime ELSE 0)
              /\ D = B + (IF new[s.j].name = n THEN new[s.j].sumtime ELSE 0)
          BY <4>0, BeforeNext
        <5> QED
          BY <3>1, <5>1
      <4>2. /\ new[s.j].duration <= new[s.j].sumtime
            /\ Unfolded(new) => new[s.j].sumtime = new[s.j].duration
        <5>1. s.j \in DOMAIN new /\ new[s.j].duration # NoTime
          BY <2>2, <3>1 DEF NoTime
        <5> QED
          BY <5>1 DEF Timed, Unfolded
      <4>3. old[s.i].sumtime \in Nat /\ new[s.j].sumtime \in Nat
        BY <2>2, <3>1, NodeFields
      <4> DEFINE a == old[s.i].sumtime
                 b == new[s.j].sumtime
                 d == new[s.j].duration
      <4>4. /\ a \in Nat /\ b \in Nat /\ d \in Nat /\ d <= b /\ (Unfolded(new) => b = d)
            /\ x.sumtime = a + d
            /\ C = A + (IF x.name = n THEN a ELSE 0)
            /\ D = B + (IF x.name = n THEN b ELSE 0)
        BY <3>1, <4>1, <4>2, <4>3
      <4> HIDE DEF a, b, d, A, B, C, D, T, U
      <4>5. CASE x.name = n
        <5>1. U = T + (a + d) /\ C = A + a /\ D = B + b
          BY <2>5, <4>4, <4>5
        <5>2. a \in Nat /\ b \in Nat /\ d \in Nat /\ d <= b /\ (Unfolded(new) => b = d)
          BY <4>4
        <5>3. T + (a + d) <= (A + a) + (B + b)
          BY <2>6, <2>7, <5>2
        <5>4. Unfolded(new) => T + (a + d) = (A + a) + (B + b)
          BY <2>6, <2>7, <5>2
        <5> QED
          BY <5>1, <5>3, <5>4
      <4>6. CASE x.name # n
        <5>1. U = T /\ C = A /\ D = B
          BY <2>5, <2>6, <4>4, <4>6
        <5> QED
          BY <2>7, <5>1
      <4> QED
        BY <4>5, <4>6
    <3>2. CASE s.j <= Len(new) /\ t.i = s.i /\ t.j = s.j + 1 /\ x = new[s.j]
      <4>1. C = A /\ D = B + (IF x.name = n THEN x.sumtime ELSE 0)
        BY <2>2, <3>2, BeforeNext
      <4> HIDE DEF A, B, C, D, T, U
      <4> QED
        BY <2>5, <2>6, <2>7, <4>1
    <3>3. CASE s.i <= Len(old) /\ t.i = s.i + 1 /\ t.j = s.j /\ x = old[s.i]
      <4>1. D = B /\ C = A + (IF x.name = n THEN x.sumtime ELSE 0)
        BY <2>2, <3>3, BeforeNext
      <4> HIDE DEF A, B, C, D, T, U
      <4> QED
        BY <2>5, <2>6, <2>7, <4>1
    <3> QED
      BY <2>3, <3>1, <3>2, <3>3 DEF Taken
  <2> QED
    BY <2>2, <2>8
<1>3. S \in SUBSET States(old, new) /\ \A s \in S : Good(s)
  OBVIOUS
<1> HIDE DEF S, Good
<1>4. \E s \in S : s.i = Len(old) + 1 /\ s.j = Len(new) + 1 /\ s.top = Merge(old, new)
  BY <1>1, <1>2, <1>3, MergeInduct
<1>5. PICK s \in S : s.i = Len(old) + 1 /\ s.j = Len(new) + 1 /\ s.top = Merge(old, new)
  BY <1>4
<1>6. Time(old, Before(old, s.i, n)) = TimeOf(old, n) /\ Time(new, Before(new, s.j, n)) = TimeOf(new, n)
  <2>1. /\ Before(old, s.i, n) = {h \in DOMAIN old : old[h].name = n}
        /\ Before(new, s.j, n) = {h \in DOMAIN new : new[h].name = n}
    BY <1>5, NodeFields DEF Before
  <2> QED
    BY <2>1 DEF TimeOf
<1>7. Good(s)
  BY <1>3
<1> QED
  BY <1>5, <1>6, <1>7 DEF Good

-----------------------------------------------------------------------------
(* The calls below a call                                                  *)

LEMMA TimeSame ==
  ASSUME NEW s \in Seq(Nodes), NEW P, NEW Q, \A i \in 1..Len(s) : i \in P <=> i \in Q
  PROVE  Time(s, P) = Time(s, Q)
<1>1. Times(s, P) = Times(s, Q)
  BY DEF Times
<1> QED
  BY <1>1, TimesFields

\* All calls after k are below it.
Lasts(stack, k) == \A h \in k + 1..Len(stack) : stack[h].depth > stack[k].depth

\* Those from position i on that are at depth d, until there is one above.
Below(stack, i, d) ==
  {j \in i..Len(stack) : stack[j].depth = d /\ \A k \in i..j : stack[k].depth >= d}

LEMMA ChildrenBelow ==
  ASSUME NEW s \in Seq(Nodes), NEW i \in 1..Len(s)
  PROVE  Children(s, i) = Below(s, i + 1, s[i].depth + 1)
<1>1. /\ Len(s) \in Nat /\ s[i].depth \in Nat
      /\ \A k \in i + 1..Len(s) : s[k].depth \in Nat
  BY NodeFields
<1>2. \A k \in i + 1..Len(s) : s[k].depth > s[i].depth <=> s[k].depth >= s[i].depth + 1
  BY <1>1
<1>3. ASSUME NEW j \in i + 1..Len(s)
      PROVE  (\A k \in i + 1..j : s[k].depth > s[i].depth)
             <=> (\A k \in i + 1..j : s[k].depth >= s[i].depth + 1)
  <2>1. \A k \in i + 1..j : k \in i + 1..Len(s)
    BY <1>1
  <2> QED
    BY <1>2, <2>1
<1> QED
  BY <1>3 DEF Children, Below

LEMMA BelowTimes ==
  ASSUME NEW s \in Seq(Nodes), NEW i \in 1..Len(s) + 1, NEW d \in Nat
  PROVE  /\ Time(s, Below(s, i, d)) \in Nat
         /\ (i <= Len(s) => s[i].depth < d) => Time(s, Below(s, i, d)) = 0
         /\ i <= Len(s) /\ s[i].depth > d => Time(s, Below(s, i, d)) = Time(s, Below(s, i + 1, d))
         /\ i <= Len(s) /\ s[i].depth = d =>
              Time(s, Below(s, i, d)) = Time(s, Below(s, i + 1, d)) + s[i].sumtime
<1>1. /\ Len(s) \in Nat /\ \A k \in 1..Len(s) : s[k].depth \in Nat
  BY NodeFields
<1>2. ASSUME i <= Len(s) => s[i].depth < d PROVE Time(s, Below(s, i, d)) = 0
  <2>1. \A j \in 1..Len(s) : j \notin Below(s, i, d)
    <3> SUFFICES ASSUME NEW j \in i..Len(s), \A k \in i..j : s[k].depth >= d PROVE FALSE
      BY DEF Below
    <3>1. i \in i..j /\ i <= Len(s) /\ i \in 1..Len(s)
      BY <1>1
    <3>2. s[i].depth \in Nat /\ s[i].depth >= d
      BY <1>1, <3>1
    <3> QED
      BY <1>2, <3>1, <3>2
  <2> QED
    BY <2>1, TimeOfNone
<1>3. ASSUME i <= Len(s), s[i].depth >= d,
             NEW j \in 1..Len(s), j # i
      PROVE  j \in Below(s, i, d) <=> j \in Below(s, i + 1, d)
  <2>1. j \in i..Len(s) <=> j \in i + 1..Len(s)
    BY <1>1, <1>3
  <2>2. (\A k \in i..j : s[k].depth >= d) <=> (\A k \in i + 1..j : s[k].depth >= d)
    <3>1. \A k \in i..j : k = i \/ k \in i + 1..j
      BY <1>1
    <3>2. \A k \in i + 1..j : k \in i..j
      BY <1>1
    <3> QED
      BY <1>3, <3>1, <3>2
  <2> QED
    BY <2>1, <2>2 DEF Below
<1>4. i \notin Below(s, i + 1, d)
  BY DEF Below
<1>5. ASSUME i <= Len(s), s[i].depth > d
      PROVE  Time(s, Below(s, i, d)) = Time(s, Below(s, i + 1, d))
  <2>1. s[i].depth \in Nat
    BY <1>1, <1>5
  <2>2. i \notin Below(s, i, d)
    BY <1>5, <2>1 DEF Below
  <2>3. s[i].depth >= d
    BY <1>5, <2>1
  <2>4. \A j \in 1..Len(s) : j \in Below(s, i, d) <=> j \in Below(s, i + 1, d)
    BY <1>3, <1>4, <1>5, <2>2, <2>3
  <2> QED
    BY <2>4, TimeSame
<1>6. ASSUME i <= Len(s), s[i].depth = d
      PROVE  Time(s, Below(s, i, d)) = Time(s, Below(s, i + 1, d)) + s[i].sumtime
  <2>1. i \in 1..Len(s) /\ i \in i..Len(s) /\ s[i].depth >= d
    BY <1>1, <1>6
  <2>2. i \in Below(s, i, d)
    <3>1. \A k \in i..i : k = i
      BY <1>1
    <3> QED
      BY <1>6, <2>1, <3>1 DEF Below
  <2> DEFINE P == Below(s, i + 1, d)
             Q == Below(s, i, d)
  <2>3. i \notin P /\ i \in Q
    BY <1>4, <2>2
  <2>4. \A j \in 1..Len(s) : j # i => (j \in Q <=> j \in P)
    BY <1>3, <1>6, <2>1
  <2> HIDE DEF P, Q
  <2>5. \A j \in 1..Len(s) : j \in Q <=> j \in P \cup {i}
    BY <2>3, <2>4
  <2>6. Time(s, Q) = Time(s, P \cup {i})
    BY <2>5, TimeSame
  <2>7. Time(s, P \cup {i}) = Time(s, P) + s[i].sumtime
    BY <2>1, <2>3, TimeWith
  <2> QED
    BY <2>6, <2>7 DEF P, Q
<1>7. Time(s, Below(s, i, d)) \in Nat
  BY TimeType
<1> QED
  BY <1>2, <1>5, <1>6, <1>7

\* A call put at the end is below those that last.
LEMMA ChildrenAppend ==
  ASSUME NEW s \in Seq(Nodes), NEW x \in Nodes, NEW k \in 1..Len(s)
  PROVE  LET t == Append(s, x)
         IN  /\ Time(t, Children(t, k)) =
                  Time(s, Children(s, k)) +
                  (IF x.depth = s[k].depth + 1 /\ Lasts(s, k) THEN x.sumtime ELSE 0)
             /\ Lasts(t, k) <=> Lasts(s, k) /\ x.depth > s[k].depth
<1> DEFINE t == Append(s, x)
           m == Len(s) + 1
           P == Children(t, k)
           Q == Children(s, k)
<1>1. /\ t \in Seq(Nodes) /\ Len(s) \in Nat /\ Len(t) = m /\ t[m] = x
      /\ \A i \in 1..Len(s) : t[i] = s[i]
  BY AppendIs
<1>2. s[k].depth \in Nat /\ x.depth \in Nat
  BY NodeFields DEF Nodes
<1>3. ASSUME NEW j \in 1..Len(s) PROVE j \in P <=> j \in Q
  <2>1. j \in k + 1..Len(t) <=> j \in k + 1..Len(s)
    BY <1>1
  <2>2. t[j] = s[j] /\ t[k] = s[k] /\ \A h \in k + 1..j : t[h] = s[h]
    BY <1>1
  <2> HIDE DEF t
  <2> QED
    BY <2>1, <2>2 DEF Children
<1>4. m \in P <=> x.depth = s[k].depth + 1 /\ Lasts(s, k)
  <2>1. t[k] = s[k] /\ m \in k + 1..Len(t)
    BY <1>1
  <2>2. m \in P <=> x.depth = s[k].depth + 1 /\ \A h \in k + 1..m : t[h].depth > s[k].depth
    BY <1>1, <2>1 DEF Children
  <2>3. ASSUME x.depth = s[k].depth + 1
        PROVE  (\A h \in k + 1..m : t[h].depth > s[k].depth)
               <=> (\A h \in k + 1..Len(s) : s[h].depth > s[k].depth)
    <3>1. \A h \in k + 1..m : h = m \/ h \in k + 1..Len(s)
      BY <1>1
    <3>2. \A h \in k + 1..Len(s) : h \in k + 1..m /\ t[h] = s[h]
      BY <1>1
    <3>3. t[m].depth > s[k].depth
      BY <1>1, <1>2, <2>3
    <3> HIDE DEF t, m
    <3> QED
      BY <3>1, <3>2, <3>3
  <2> QED
    BY <2>2, <2>3 DEF Lasts
<1>5. Lasts(t, k) <=> Lasts(s, k) /\ x.depth > s[k].depth
  <2>1. t[k] = s[k] /\ m \in k + 1..Len(t)
    BY <1>1
  <2>2. \A h \in k + 1..m : h = m \/ h \in k + 1..Len(s)
    BY <1>1
  <2>3. \A h \in k + 1..Len(s) : h \in k + 1..m /\ t[h] = s[h]
    BY <1>1
  <2> HIDE DEF t, m
  <2> QED
    BY <1>1, <2>1, <2>2, <2>3 DEF Lasts
<1>6. Time(t, P) = Time(s, P) + (IF m \in P THEN x.sumtime ELSE 0)
  <2> HIDE DEF P
  <2> QED
    BY TimeAppend
<1>7. Time(s, P) = Time(s, Q)
  <2> HIDE DEF P, Q
  <2> QED
    BY <1>3, TimeSame
<1> HIDE DEF t, P, Q, m
<1> QED
  BY <1>4, <1>5, <1>6, <1>7 DEF t, P, Q

LEMMA ChildrenOfLast ==
  ASSUME NEW s \in Seq(Nodes), NEW x \in Nodes
  PROVE  LET t == Append(s, x)
         IN  Time(t, Children(t, Len(s) + 1)) = 0 /\ Lasts(t, Len(s) + 1)
<1> DEFINE t == Append(s, x)
<1>1. t \in Seq(Nodes) /\ Len(s) \in Nat /\ Len(t) = Len(s) + 1
  BY AppendIs
<1> HIDE DEF t
<1>2. \A h \in (Len(s) + 1) + 1..Len(t) : FALSE
  BY <1>1
<1>3. \A i \in 1..Len(t) : i \notin Children(t, Len(s) + 1)
  BY <1>2 DEF Children
<1> QED
  BY <1>1, <1>2, <1>3, TimeOfNone DEF Lasts, t

\* What is left of the two trees below a call of depth e.
Left(old, new, s, e) == Time(old, Below(old, s.i, e + 1)) + Time(new, Below(new, s.j, e + 1))

LEMMA LeftStep ==
  ASSUME NEW old \in Seq(Nodes), NEW new \in Seq(Nodes), Unfolded(new),
         NEW s \in States(old, new), NEW t, MergeStep(old, new, s, t),
         NEW x, Taken(old, new, s, t, x), NEW e \in Nat, x.depth > e
  PROVE  Left(old, new, s, e) =
           Left(old, new, t, e) + (IF x.depth = e + 1 THEN x.sumtime ELSE 0)
<1> DEFINE d == e + 1
           A == Time(old, Below(old, s.i, d))
           B == Time(new, Below(new, s.j, d))
           C == Time(old, Below(old, t.i, d))
           D == Time(new, Below(new, t.j, d))
<1>1. /\ s.i \in 1..Len(old) + 1 /\ s.j \in 1..Len(new) + 1
      /\ s.i <= Len(old) => s.i \in 1..Len(old) /\ old[s.i] \in Nodes
      /\ s.j <= Len(new) => s.j \in 1..Len(new) /\ new[s.j] \in Nodes
      /\ t \in States(old, new)
  BY StepTakes
<1>2. t.i \in 1..Len(old) + 1 /\ t.j \in 1..Len(new) + 1
  BY <1>1 DEF States
<1>3. d \in Nat /\ x.depth \in Nat /\ x.sumtime \in Nat /\ x.depth >= d
  <2>1. x.depth \in Nat /\ x.sumtime \in Nat
    BY DEF Taken, Nodes
  <2> QED
    BY <2>1
<1>4. A \in Nat /\ B \in Nat /\ C \in Nat /\ D \in Nat
  BY TimeType
<1>5. Left(old, new, s, e) = A + B /\ Left(old, new, t, e) = C + D
  BY DEF Left
<1> DEFINE z == IF x.depth = d THEN x.sumtime ELSE 0
<1>6. CASE /\ s.i <= Len(old) /\ s.j <= Len(new) /\ t.i = s.i + 1 /\ t.j = s.j + 1
           /\ x.depth = old[s.i].depth /\ x.depth = new[s.j].depth
           /\ new[s.j].duration \in Nat /\ x.sumtime = old[s.i].sumtime + new[s.j].duration
  <2>1. new[s.j].sumtime = new[s.j].duration
    <3>1. s.j \in DOMAIN new /\ new[s.j].duration # NoTime
      BY <1>1, <1>6 DEF NoTime
    <3> QED
      BY <3>1 DEF Unfolded
  <2>2. old[s.i].sumtime \in Nat /\ new[s.j].sumtime \in Nat
    BY <1>1, <1>6, NodeFields
  <2>3. C = Time(old, Below(old, s.i + 1, d)) /\ D = Time(new, Below(new, s.j + 1, d))
    BY <1>6
  <2> HIDE DEF d
  <2>4. CASE x.depth = d
    <3>1. A = Time(old, Below(old, s.i + 1, d)) + old[s.i].sumtime
      BY <1>1, <1>3, <1>6, <2>4, BelowTimes
    <3>2. B = Time(new, Below(new, s.j + 1, d)) + new[s.j].sumtime
      BY <1>1, <1>3, <1>6, <2>4, BelowTimes
    <3> DEFINE a == old[s.i].sumtime
               b == new[s.j].sumtime
    <3>3. A = C + a /\ B = D + b /\ z = a + b /\ a \in Nat /\ b \in Nat
      BY <1>6, <2>1, <2>2, <2>3, <2>4, <3>1, <3>2
    <3> HIDE DEF A, B, C, D, z, a, b
    <3>4. A + B = C + D + z
      BY <1>4, <3>3
    <3> QED
      BY <1>5, <3>4 DEF z, d
  <2>5. CASE x.depth > d
    <3>1. A = Time(old, Below(old, s.i + 1, d))
      BY <1>1, <1>3, <1>6, <2>5, BelowTimes
    <3>2. B = Time(new, Below(new, s.j + 1, d))
      BY <1>1, <1>3, <1>6, <2>5, BelowTimes
    <3>3. A = C /\ B = D /\ z = 0
      BY <1>3, <2>3, <2>5, <3>1, <3>2
    <3> HIDE DEF A, B, C, D, z
    <3>4. A + B = C + D + z
      BY <1>4, <3>3
    <3> QED
      BY <1>5, <3>4 DEF z, d
  <2> QED
    BY <1>3, <2>4, <2>5
<1>7. CASE s.j <= Len(new) /\ t.i = s.i /\ t.j = s.j + 1 /\ x = new[s.j]
  <2>1. C = A /\ D = Time(new, Below(new, s.j + 1, d))
    BY <1>7
  <2> HIDE DEF d
  <2>2. B = Time(new, Below(new, s.j + 1, d)) + z
    <3>1. CASE x.depth = d
      BY <1>1, <1>3, <1>7, <3>1, BelowTimes
    <3>2. CASE x.depth > d
      <4>1. B = Time(new, Below(new, s.j + 1, d))
        BY <1>1, <1>3, <1>7, <3>2, BelowTimes
      <4>2. z = 0
        BY <1>3, <3>2
      <4> HIDE DEF z, B
      <4> QED
        BY <1>4, <4>1, <4>2
    <3> QED
      BY <1>3, <3>1, <3>2
  <2>3. z \in Nat
    BY <1>3
  <2> HIDE DEF A, B, C, D, z
  <2>4. A + B = C + D + z
    BY <1>4, <2>1, <2>2, <2>3
  <2> QED
    BY <1>5, <2>4 DEF z, d
<1>8. CASE s.i <= Len(old) /\ t.i = s.i + 1 /\ t.j = s.j /\ x = old[s.i]
  <2>1. D = B /\ C = Time(old, Below(old, s.i + 1, d))
    BY <1>8
  <2> HIDE DEF d
  <2>2. A = Time(old, Below(old, s.i + 1, d)) + z
    <3>1. CASE x.depth = d
      BY <1>1, <1>3, <1>8, <3>1, BelowTimes
    <3>2. CASE x.depth > d
      <4>1. A = Time(old, Below(old, s.i + 1, d))
        BY <1>1, <1>3, <1>8, <3>2, BelowTimes
      <4>2. z = 0
        BY <1>3, <3>2
      <4> HIDE DEF z, A
      <4> QED
        BY <1>4, <4>1, <4>2
    <3> QED
      BY <1>3, <3>1, <3>2
  <2>3. z \in Nat
    BY <1>3
  <2> HIDE DEF A, B, C, D, z
  <2>4. A + B = C + D + z
    BY <1>4, <2>1, <2>2, <2>3
  <2> QED
    BY <1>5, <2>4 DEF z, d
<1> QED
  BY <1>6, <1>7, <1>8 DEF Taken

\* No call taken has less time than what is left of the two trees below it.
LEMMA LeftBelow ==
  ASSUME NEW old \in Seq(Nodes), NEW new \in Seq(Nodes), Unfolded(new),
         Covers(old), Covers(new),
         NEW s \in States(old, new), NEW t, MergeStep(old, new, s, t),
         NEW x, Taken(old, new, s, t, x)
  PROVE  Left(old, new, t, x.depth) <= x.sumtime
<1> DEFINE d == x.depth
           C == Time(old, Below(old, t.i, d + 1))
           D == Time(new, Below(new, t.j, d + 1))
<1>1. /\ s.i \in 1..Len(old) + 1 /\ s.j \in 1..Len(new) + 1
      /\ s.i <= Len(old) => s.i \in 1..Len(old) /\ old[s.i] \in Nodes
      /\ s.j <= Len(new) => s.j \in 1..Len(new) /\ new[s.j] \in Nodes
  BY StepTakes
<1>3. d \in Nat /\ x.sumtime \in Nat /\ d + 1 \in Nat
  <2>1. x.depth \in Nat /\ x.sumtime \in Nat
    BY DEF Taken, Nodes
  <2> QED
    BY <2>1
<1>4. C \in Nat /\ D \in Nat
  BY TimeType
<1>5. Left(old, new, t, x.depth) = C + D
  BY DEF Left
<1>9. /\ \A i \in 1..Len(old) : Time(old, Below(old, i + 1, old[i].depth + 1)) <= old[i].sumtime
      /\ \A i \in 1..Len(new) : Time(new, Below(new, i + 1, new[i].depth + 1)) <= new[i].sumtime
  <2>1. DOMAIN old = 1..Len(old) /\ DOMAIN new = 1..Len(new)
    BY NodeFields
  <2> QED
    BY <2>1, ChildrenBelow DEF Covers
<1>6. CASE /\ s.i <= Len(old) /\ s.j <= Len(new) /\ t.i = s.i + 1 /\ t.j = s.j + 1
           /\ x.depth = old[s.i].depth /\ x.depth = new[s.j].depth
           /\ new[s.j].duration \in Nat /\ x.sumtime = old[s.i].sumtime + new[s.j].duration
  <2>1. new[s.j].sumtime = new[s.j].duration
    <3>1. s.j \in DOMAIN new /\ new[s.j].duration # NoTime
      BY <1>1, <1>6 DEF NoTime
    <3> QED
      BY <3>1 DEF Unfolded
  <2>2. old[s.i].sumtime \in Nat /\ new[s.j].sumtime \in Nat
    BY <1>1, <1>6, NodeFields
  <2>3. C <= old[s.i].sumtime /\ D <= new[s.j].sumtime
    BY <1>1, <1>6, <1>9
  <2> DEFINE a == old[s.i].sumtime
             b == new[s.j].sumtime
  <2>4. a \in Nat /\ b \in Nat /\ C <= a /\ D <= b /\ x.sumtime = a + b
    BY <1>6, <2>1, <2>2, <2>3
  <2> HIDE DEF a, b, C, D, d
  <2>5. C + D <= x.sumtime
    BY <1>4, <2>4
  <2> QED
    BY <1>5, <2>5
<1>7. CASE /\ s.j <= Len(new) /\ t.i = s.i /\ t.j = s.j + 1 /\ x = new[s.j]
           /\ s.i <= Len(old) => old[s.i].depth <= x.depth
  <2>1. D <= x.sumtime
    BY <1>1, <1>7, <1>9
  <2>2. C = 0
    <3>1. s.i <= Len(old) => old[s.i].depth \in Nat /\ old[s.i].depth < d + 1
      <4> SUFFICES ASSUME s.i <= Len(old)
                   PROVE  old[s.i].depth \in Nat /\ old[s.i].depth < d + 1
        OBVIOUS
      <4> DEFINE e == old[s.i].depth
      <4>1. e \in Nat
        BY <1>1, NodeFields
      <4>2. e <= d /\ d \in Nat
        BY <1>3, <1>7
      <4> HIDE DEF d, e
      <4>3. e < d + 1
        BY <4>1, <4>2
      <4> QED
        BY <4>1, <4>3 DEF e
    <3>2. C = Time(old, Below(old, s.i, d + 1))
      BY <1>7
    <3> HIDE DEF d
    <3> QED
      BY <1>1, <1>3, <3>1, <3>2, BelowTimes
  <2> HIDE DEF C, D, d
  <2>3. C + D <= x.sumtime
    BY <1>3, <1>4, <2>1, <2>2
  <2> QED
    BY <1>5, <2>3
<1>8. CASE /\ s.i <= Len(old) /\ t.i = s.i + 1 /\ t.j = s.j /\ x = old[s.i]
           /\ s.j <= Len(new) => new[s.j].depth <= x.depth
  <2>1. C <= x.sumtime
    BY <1>1, <1>8, <1>9
  <2>2. D = 0
    <3>1. s.j <= Len(new) => new[s.j].depth \in Nat /\ new[s.j].depth < d + 1
      <4> SUFFICES ASSUME s.j <= Len(new)
                   PROVE  new[s.j].depth \in Nat /\ new[s.j].depth < d + 1
        OBVIOUS
      <4> DEFINE e == new[s.j].depth
      <4>1. e \in Nat
        BY <1>1, NodeFields
      <4>2. e <= d /\ d \in Nat
        BY <1>3, <1>8
      <4> HIDE DEF d, e
      <4>3. e < d + 1
        BY <4>1, <4>2
      <4> QED
        BY <4>1, <4>3 DEF e
    <3>2. D = Time(new, Below(new, s.j, d + 1))
      BY <1>8
    <3> HIDE DEF d
    <3> QED
      BY <1>1, <1>3, <3>1, <3>2, BelowTimes
  <2> HIDE DEF C, D, d
  <2>3. C + D <= x.sumtime
    BY <1>3, <1>4, <2>1, <2>2
  <2> QED
    BY <1>5, <2>3
<1> QED
  BY <1>6, <1>7, <1>8 DEF Taken

\* If nothing was folded in the new tree, no call of the merged one (merge) has less
\* time than the calls below it, as a flame graph needs it.
THEOREM MergeCovers ==
  ASSUME NEW old \in Seq(Nodes), NEW new \in Seq(Nodes), Unfolded(new),
         Covers(old), Covers(new), ~Raises(Merge(old, new))
  PROVE  Covers(Merge(old, new))
<1> DEFINE Part(s, k) == Time(s.top, Children(s.top, k)) +
                           (IF Lasts(s.top, k) THEN Left(old, new, s, s.top[k].depth) ELSE 0)
           Good(s) == \A k \in 1..Len(s.top) : Part(s, k) <= s.top[k].sumtime
           S == {s \in States(old, new) : Good(s)}
<1>1. [i |-> 1, j |-> 1, top |-> <<>>] \in S
  <2> DEFINE s == [i |-> 1, j |-> 1, top |-> <<>>]
  <2>1. s \in States(old, new) /\ s.top = <<>>
    BY Starts
  <2> HIDE DEF s
  <2>2. \A k \in 1..Len(s.top) : FALSE
    BY <2>1
  <2> QED
    BY <2>1, <2>2 DEF s
<1>2. ASSUME NEW s \in S, NEW t, MergeStep(old, new, s, t) PROVE t \in S
  <2>1. s \in States(old, new) /\ Good(s)
    OBVIOUS
  <2>2. /\ s.top \in Seq(Nodes) /\ t \in States(old, new)
        /\ \E x : Taken(old, new, s, t, x)
    BY <1>2, <2>1, StepTakes
  <2>3. PICK x : Taken(old, new, s, t, x)
    BY <2>2
  <2>4. x \in Nodes /\ t.top = Append(s.top, x)
    BY <2>3 DEF Taken
  <2>5. /\ Len(s.top) \in Nat /\ Len(t.top) = Len(s.top) + 1 /\ t.top \in Seq(Nodes)
        /\ \A i \in 1..Len(s.top) : t.top[i] = s.top[i]
        /\ t.top[Len(s.top) + 1] = x
    BY <2>2, <2>4, AppendIs
  <2>6. x.depth \in Nat /\ x.sumtime \in Nat
    BY <2>4 DEF Nodes
  <2>7. ASSUME NEW u \in States(old, new), NEW e PROVE Left(old, new, u, e) \in Nat
    BY TimeType DEF Left
  <2>8. ASSUME NEW k \in 1..Len(s.top) PROVE Part(t, k) <= t.top[k].sumtime
    <3> DEFINE e == s.top[k].depth
               a == Time(s.top, Children(s.top, k))
               b == Time(t.top, Children(t.top, k))
               l == Left(old, new, s, e)
               m == Left(old, new, t, e)
    <3>1. /\ t.top[k] = s.top[k] /\ e \in Nat
          /\ a \in Nat /\ l \in Nat /\ m \in Nat /\ s.top[k].sumtime \in Nat
      BY <2>1, <2>2, <2>5, <2>7, NodeFields, TimeType
    <3>2. /\ b = a + (IF x.depth = e + 1 /\ Lasts(s.top, k) THEN x.sumtime ELSE 0)
          /\ Lasts(t.top, k) <=> Lasts(s.top, k) /\ x.depth > e
      BY <2>2, <2>4, ChildrenAppend
    <3>3. a + (IF Lasts(s.top, k) THEN l ELSE 0) <= s.top[k].sumtime
      BY <2>1
    <3>4. x.depth > e => l = m + (IF x.depth = e + 1 THEN x.sumtime ELSE 0)
      <4> HIDE DEF e
      <4> QED
        BY <1>2, <2>1, <2>3, <3>1, LeftStep
    <3>5. b + (IF Lasts(t.top, k) THEN m ELSE 0) <= s.top[k].sumtime
      <4> HIDE DEF a, b, l, m, e
      <4>1. CASE ~Lasts(s.top, k)
        <5>1. b = a /\ ~Lasts(t.top, k)
          BY <3>1, <3>2, <4>1
        <5> QED
          BY <3>1, <3>3, <4>1, <5>1
      <4>2. CASE Lasts(s.top, k) /\ ~(x.depth > e)
        <5>1. b = a /\ ~Lasts(t.top, k)
          BY <2>6, <3>1, <3>2, <4>2
        <5> QED
          BY <3>1, <3>3, <4>2, <5>1
      <4>3. CASE Lasts(s.top, k) /\ x.depth > e
        <5> DEFINE z == IF x.depth = e + 1 THEN x.sumtime ELSE 0
        <5>1. b = a + z /\ Lasts(t.top, k) /\ l = m + z /\ z \in Nat /\ a + l <= s.top[k].sumtime
          BY <2>6, <3>2, <3>3, <3>4, <4>3
        <5> HIDE DEF z
        <5>2. b + m <= s.top[k].sumtime
          BY <3>1, <5>1
        <5> QED
          BY <5>1, <5>2
      <4> QED
        BY <4>1, <4>2, <4>3
    <3> QED
      BY <3>1, <3>5
  <2>9. Part(t, Len(s.top) + 1) <= t.top[Len(s.top) + 1].sumtime
    <3> DEFINE m == Len(s.top) + 1
               l == Left(old, new, t, x.depth)
    <3>1. Time(t.top, Children(t.top, m)) = 0 /\ Lasts(t.top, m)
      BY <2>2, <2>4, ChildrenOfLast
    <3>2. l <= x.sumtime /\ l \in Nat
      BY <1>2, <2>1, <2>2, <2>3, <2>7, LeftBelow
    <3>3. Part(t, m) = 0 + l
      BY <2>5, <3>1
    <3> HIDE DEF l
    <3>4. 0 + l <= x.sumtime
      BY <3>2
    <3> HIDE DEF Part
    <3> QED
      BY <2>5, <3>3, <3>4
  <2>10. \A k \in 1..Len(t.top) : k \in 1..Len(s.top) \/ k = Len(s.top) + 1
    BY <2>5
  <2>11. Good(t)
    BY <2>8, <2>9, <2>10
  <2> QED
    BY <2>2, <2>11
<1>3. S \in SUBSET States(old, new) /\ \A s \in S : s \in States(old, new) /\ Good(s)
  OBVIOUS
<1> HIDE DEF S, Good
<1>4. \E s \in S : s.i = Len(old) + 1 /\ s.j = Len(new) + 1 /\ s.top = Merge(old, new)
  BY <1>1, <1>2, <1>3, MergeInduct
<1>5. PICK s \in S : s.i = Len(old) + 1 /\ s.j = Len(new) + 1 /\ s.top = Merge(old, new)
  BY <1>4
<1>6. Good(s) /\ s.top \in Seq(Nodes) /\ DOMAIN s.top = 1..Len(s.top)
  BY <1>3, NodeFields DEF States
<1>7. ASSUME NEW k \in 1..Len(s.top)
      PROVE  Time(s.top, Children(s.top, k)) <= s.top[k].sumtime
  <2> DEFINE a == Time(s.top, Children(s.top, k))
             l == Left(old, new, s, s.top[k].depth)
  <2>1. a \in Nat /\ l \in Nat /\ s.top[k].sumtime \in Nat
    BY <1>6, TimeType, NodeFields DEF Left
  <2>2. a + (IF Lasts(s.top, k) THEN l ELSE 0) <= s.top[k].sumtime
    BY <1>6 DEF Good
  <2> HIDE DEF a, l
  <2>3. a <= s.top[k].sumtime
    BY <2>1, <2>2
  <2> QED
    BY <2>3 DEF a
<1> QED
  BY <1>5, <1>6, <1>7 DEF Covers

-----------------------------------------------------------------------------
(* The tree in work                                                        *)

\* Followed, of one tree, the calls in progress and the time.
UntilOf(cs, time, depth) == IF depth + 2 <= Len(cs) THEN cs[depth + 2].at ELSE time

Fits(tree, cs, time, i) ==
  IF tree[i].duration # NoTime
  THEN Time(tree, Children(tree, i)) <= tree[i].sumtime
  ELSE /\ tree[i].depth < Len(cs)
       /\ tree[i].calltime = cs[tree[i].depth + 1].at
       /\ Lasts(tree, i)
       /\ Time(tree, Children(tree, i)) <= UntilOf(cs, time, tree[i].depth) - tree[i].calltime

Follows(tree, cs, time) ==
  /\ cs # <<>> /\ \A i \in DOMAIN cs : cs[i].written
  /\ HasParents(tree)
  /\ \A d \in 0..Len(cs) - 1 : Open(tree, d) # {}
  /\ \A i \in DOMAIN tree : Fits(tree, cs, time, i)

LEMMA CallFields ==
  ASSUME NEW cs \in Seq(Calls)
  PROVE  /\ Len(cs) \in Nat /\ DOMAIN cs = 1..Len(cs)
         /\ \A i \in 1..Len(cs) : cs[i] \in Calls /\ cs[i].at \in Nat /\ cs[i].name \in Names
<1>1. \A i \in 1..Len(cs) : cs[i] \in Calls
  OBVIOUS
<1>2. \A c \in Calls : c.at \in Nat /\ c.name \in Names
  BY DEF Calls
<1> QED
  BY <1>1, <1>2

LEMMA UntilType ==
  ASSUME NEW cs \in Seq(Calls), NEW time \in Nat, NEW depth \in Nat
  PROVE  UntilOf(cs, time, depth) \in Nat
<1>1. Len(cs) \in Nat /\ \A i \in 1..Len(cs) : cs[i].at \in Nat
  BY CallFields
<1>2. depth + 2 <= Len(cs) => depth + 2 \in 1..Len(cs)
  BY <1>1
<1> QED
  BY <1>1, <1>2 DEF UntilOf

\* Time passes.
LEMMA FollowsLater ==
  ASSUME NEW tree \in Seq(Nodes), NEW cs \in Seq(Calls), NEW time \in Nat,
         Follows(tree, cs, time)
  PROVE  Follows(tree, cs, time + 1)
<1>1. DOMAIN tree = 1..Len(tree) /\ \A i \in 1..Len(tree) : tree[i].depth \in Nat /\ tree[i].calltime \in Nat
  BY NodeFields
<1>2. ASSUME NEW i \in DOMAIN tree PROVE Fits(tree, cs, time + 1, i)
  <2>1. Fits(tree, cs, time, i)
    BY DEF Follows
  <2> DEFINE u == UntilOf(cs, time, tree[i].depth)
             v == UntilOf(cs, time + 1, tree[i].depth)
  <2>0. tree[i].depth \in Nat /\ time + 1 \in Nat
    BY <1>1
  <2>2. u \in Nat /\ v \in Nat
    BY <2>0, UntilType
  <2>3. u <= v
    BY <1>1, <2>2 DEF UntilOf
  <2>4. Time(tree, Children(tree, i)) \in Nat /\ tree[i].calltime \in Nat
    BY <1>1, TimeType
  <2>5. Time(tree, Children(tree, i)) <= u - tree[i].calltime =>
          Time(tree, Children(tree, i)) <= v - tree[i].calltime
    <3> DEFINE a == Time(tree, Children(tree, i))
               c == tree[i].calltime
    <3> HIDE DEF a, c, u, v
    <3>1. a <= u - c => a <= v - c
      BY <2>2, <2>3, <2>4 DEF a, c
    <3> QED
      BY <3>1 DEF a, c
  <2> QED
    BY <2>1, <2>5 DEF Fits
<1> QED
  BY <1>2 DEF Follows

\* Of two open calls the later one is deeper.
LEMMA OpenOrder ==
  ASSUME NEW tree \in Seq(Nodes), NEW cs, NEW time, Follows(tree, cs, time),
         NEW i \in 1..Len(tree), NEW j \in 1..Len(tree), tree[i].duration = NoTime, i < j
  PROVE  tree[i].depth < tree[j].depth
<1>1. Len(tree) \in Nat /\ DOMAIN tree = 1..Len(tree) /\ j \in i + 1..Len(tree)
      /\ tree[i].depth \in Nat /\ tree[j].depth \in Nat
  BY NodeFields
<1>2. Fits(tree, cs, time, i)
  BY <1>1 DEF Follows
<1>3. Lasts(tree, i)
  BY <1>2 DEF Fits
<1> QED
  BY <1>1, <1>3 DEF Lasts

\* The call put at the end is below the one in progress.
LEMMA FitsAppend ==
  ASSUME NEW tree \in Seq(Nodes), NEW cs \in Seq(Calls), NEW time \in Nat,
         Follows(tree, cs, time), NEW x \in Nodes, x.depth = Len(cs),
         NEW i \in 1..Len(tree)
  PROVE  LET t == Append(tree, x)
         IN  /\ Lasts(t, i) <=> Lasts(tree, i) /\ tree[i].depth < Len(cs)
             /\ Time(t, Children(t, i)) =
                  Time(tree, Children(tree, i)) +
                  (IF tree[i].duration = NoTime /\ tree[i].depth + 1 = Len(cs) THEN x.sumtime ELSE 0)
<1> DEFINE t == Append(tree, x)
           D == Len(cs)
<1>1. /\ Time(t, Children(t, i)) =
           Time(tree, Children(tree, i)) +
           (IF x.depth = tree[i].depth + 1 /\ Lasts(tree, i) THEN x.sumtime ELSE 0)
      /\ Lasts(t, i) <=> Lasts(tree, i) /\ x.depth > tree[i].depth
  BY ChildrenAppend
<1>2. /\ Len(tree) \in Nat /\ DOMAIN tree = 1..Len(tree) /\ tree[i].depth \in Nat /\ D \in Nat
  BY NodeFields, CallFields
<1>3. Fits(tree, cs, time, i)
  BY <1>2 DEF Follows
<1>4. ASSUME tree[i].depth + 1 = D, Lasts(tree, i) PROVE tree[i].duration = NoTime
  <2> HIDE DEF D
  <2>0. D - 1 = tree[i].depth
    BY <1>2, <1>4
  <2>1. D - 1 \in 0..D - 1 /\ D - 1 = tree[i].depth
    BY <1>2, <2>0
  <2>2. Open(tree, D - 1) # {}
    BY <2>1 DEF Follows, D
  <2>3. PICK o \in DOMAIN tree : tree[o].depth = tree[i].depth /\ tree[o].duration = NoTime
    BY <2>1, <2>2 DEF Open
  <2>4. o \in 1..Len(tree)
    BY <1>2
  <2>5. ~(o < i)
    <3> SUFFICES ASSUME o < i PROVE FALSE
      OBVIOUS
    <3>1. tree[o].depth < tree[i].depth
      BY <2>3, <2>4, OpenOrder
    <3> QED
      BY <1>2, <2>3, <3>1
  <2>6. ~(i < o)
    <3> SUFFICES ASSUME i < o PROVE FALSE
      OBVIOUS
    <3>1. o \in i + 1..Len(tree)
      BY <1>2, <2>4
    <3>2. tree[o].depth > tree[i].depth
      BY <1>4, <3>1 DEF Lasts
    <3> QED
      BY <1>2, <2>3, <3>2
  <2>7. o = i
    BY <2>4, <2>5, <2>6
  <2> QED
    BY <2>3, <2>7
<1>5. tree[i].duration = NoTime => Lasts(tree, i)
  BY <1>3 DEF Fits
<1>6. x.depth = tree[i].depth + 1 /\ Lasts(tree, i)
      <=> tree[i].duration = NoTime /\ tree[i].depth + 1 = Len(cs)
  BY <1>2, <1>4, <1>5
<1>7. x.depth > tree[i].depth <=> tree[i].depth < Len(cs)
  BY <1>2
<1> HIDE DEF t
<1> QED
  BY <1>1, <1>6, <1>7 DEF t

LEMMA ParentsAppend ==
  ASSUME NEW tree \in Seq(Nodes), HasParents(tree), NEW x \in Nodes,
         x.depth > 0 => \E j \in 1..Len(tree) : tree[j].depth = x.depth - 1
  PROVE  HasParents(Append(tree, x))
<1> DEFINE t == Append(tree, x)
<1>1. /\ Len(tree) \in Nat /\ DOMAIN t = 1..Len(tree) + 1 /\ DOMAIN tree = 1..Len(tree)
      /\ \A i \in 1..Len(tree) : t[i] = tree[i]
      /\ t[Len(tree) + 1] = x
  BY AppendIs
<1> HIDE DEF t
<1> SUFFICES ASSUME NEW i \in 1..Len(tree) + 1, t[i].depth > 0
             PROVE  \E j \in 1..i - 1 : t[j].depth = t[i].depth - 1
  BY <1>1 DEF HasParents, t
<1>2. CASE i \in 1..Len(tree)
  <2>1. t[i] = tree[i] /\ i \in DOMAIN tree
    BY <1>1, <1>2
  <2>2. PICK j \in 1..i - 1 : tree[j].depth = tree[i].depth - 1
    BY <2>1 DEF HasParents
  <2>3. j \in 1..Len(tree)
    BY <1>1, <1>2
  <2> QED
    BY <1>1, <2>1, <2>2, <2>3
<1>3. CASE i = Len(tree) + 1
  <2>1. t[i] = x
    BY <1>1, <1>3
  <2>2. PICK j \in 1..Len(tree) : tree[j].depth = x.depth - 1
    BY <2>1
  <2>3. j \in 1..i - 1 /\ t[j] = tree[j]
    BY <1>1, <1>3
  <2> QED
    BY <2>1, <2>2, <2>3
<1> QED
  BY <1>1, <1>2, <1>3

\* A call of the thread below others: it is in progress (cs gets it) or it is over.
LEMMA FollowsCall ==
  ASSUME NEW tree \in Seq(Nodes), tree # <<>>, NEW cs \in Seq(Calls), NEW time \in Nat,
         \A i \in DOMAIN cs : cs[i].at <= time,
         Follows(tree, cs, time), NEW x \in Nodes, x.depth = Len(cs),
         NEW es \in Seq(Calls),
         \/ /\ x.duration = NoTime /\ x.sumtime = 0 /\ x.calltime = time + 1
            /\ \E c \in Calls : c.at = time + 1 /\ c.written = TRUE /\ es = Append(cs, c)
         \/ x.duration = 1 /\ x.sumtime = 1 /\ es = cs
  PROVE  Follows(Append(tree, x), es, time + 1)
<1> DEFINE t == Append(tree, x)
           m == Len(tree) + 1
           D == Len(cs)
           entered == x.duration = NoTime
<1>1. /\ Len(tree) \in Nat /\ DOMAIN t = 1..m /\ DOMAIN tree = 1..Len(tree)
      /\ \A i \in 1..Len(tree) : t[i] = tree[i]
      /\ t[m] = x /\ t \in Seq(Nodes)
  BY AppendIs
<1>2. /\ D \in Nat /\ DOMAIN cs = 1..D /\ \A i \in 1..D : cs[i].at \in Nat /\ cs[i].at <= time
      /\ D >= 1 /\ x.sumtime \in Nat
  <2>1. D \in Nat /\ DOMAIN cs = 1..D /\ \A i \in 1..D : cs[i].at \in Nat
    BY CallFields
  <2>2. cs # <<>>
    BY DEF Follows
  <2>3. x.sumtime \in Nat
    BY DEF Nodes
  <2> QED
    BY <2>1, <2>2, <2>3
<1>3. /\ entered => /\ x.sumtime = 0 /\ x.calltime = time + 1 /\ Len(es) = D + 1
                    /\ \A i \in 1..D : es[i] = cs[i]
                    /\ es[D + 1].at = time + 1 /\ es[D + 1].written
      /\ ~entered => x.duration = 1 /\ x.sumtime = 1 /\ es = cs
  <2>1. ASSUME entered
        PROVE  /\ x.sumtime = 0 /\ x.calltime = time + 1 /\ Len(es) = D + 1
               /\ \A i \in 1..D : es[i] = cs[i]
               /\ es[D + 1].at = time + 1 /\ es[D + 1].written
    <3>1. x.duration # 1
      BY <2>1 DEF NoTime
    <3>2. x.sumtime = 0 /\ x.calltime = time + 1
      BY <3>1
    <3>3. PICK c \in Calls : c.at = time + 1 /\ c.written = TRUE /\ es = Append(cs, c)
      BY <3>1
    <3>4. Len(es) = D + 1 /\ (\A i \in 1..D : es[i] = cs[i]) /\ es[D + 1] = c
      BY <3>3, AppendIs
    <3> QED
      BY <3>2, <3>3, <3>4
  <2> QED
    BY <2>1
<1>11. D \in Nat /\ (entered => Len(es) = D + 1) /\ (~entered => Len(es) = D)
  BY <1>2, <1>3
<1>4. /\ es # <<>> /\ DOMAIN es = 1..Len(es)
      /\ \A i \in DOMAIN es : es[i].written
  <2>1. DOMAIN es = 1..Len(es)
    BY CallFields
  <2>2. \A i \in 1..D : cs[i].written
    BY <1>2 DEF Follows
  <2>3. CASE entered
    <3>1. \A i \in 1..Len(es) : i \in 1..D \/ i = D + 1
      BY <1>2, <1>3, <2>3
    <3>2. Len(es) # 0
      BY <1>2, <1>3, <2>3
    <3> QED
      BY <1>3, <2>1, <2>2, <2>3, <3>1, <3>2
  <2>4. CASE ~entered
    BY <1>3, <2>1, <2>4 DEF Follows
  <2> QED
    BY <2>3, <2>4
<1>5. \A d \in 0..D - 1 : \E i \in 1..Len(tree) : tree[i].depth = d /\ tree[i].duration = NoTime
  <2> TAKE d \in 0..D - 1
  <2>1. Open(tree, d) # {}
    BY DEF Follows
  <2> QED
    BY <1>1, <2>1 DEF Open
<1>6. HasParents(t)
  <2>1. D - 1 \in 0..D - 1
    BY <1>2
  <2>2. \E j \in 1..Len(tree) : tree[j].depth = x.depth - 1
    BY <1>5, <2>1
  <2>3. HasParents(tree)
    BY DEF Follows
  <2> QED
    BY <2>2, <2>3, ParentsAppend
<1>7. \A d \in 0..Len(es) - 1 : Open(t, d) # {}
  <2> TAKE d \in 0..Len(es) - 1
  <2>1. CASE d \in 0..D - 1
    <3>1. PICK i \in 1..Len(tree) : tree[i].depth = d /\ tree[i].duration = NoTime
      BY <1>5, <2>1
    <3>2. i \in DOMAIN t /\ t[i] = tree[i]
      BY <1>1
    <3>3. i \in Open(t, d)
      <4> HIDE DEF t
      <4> QED
        BY <3>1, <3>2 DEF Open
    <3> QED
      BY <3>3
  <2>2. CASE d \notin 0..D - 1
    <3>1. entered /\ d = D
      <4> HIDE DEF D, entered
      <4> QED
        BY <1>11, <2>2
    <3>2. m \in DOMAIN t /\ t[m] = x
      BY <1>1
    <3>3. m \in Open(t, d)
      <4> HIDE DEF t, m
      <4> QED
        BY <3>1, <3>2 DEF Open
    <3> QED
      BY <3>3
  <2> QED
    BY <2>1, <2>2
<1>8. ASSUME NEW i \in 1..Len(tree) PROVE Fits(t, es, time + 1, i)
  <2>1. t[i] = tree[i] /\ i \in DOMAIN tree
    BY <1>1
  <2>2. Fits(tree, cs, time, i)
    BY <2>1 DEF Follows
  <2> DEFINE e == tree[i].depth
             z == IF tree[i].duration = NoTime /\ e + 1 = D THEN x.sumtime ELSE 0
             a == Time(tree, Children(tree, i))
             b == Time(t, Children(t, i))
  <2>3. b = a + z /\ (Lasts(t, i) <=> Lasts(tree, i) /\ e < D)
    BY FitsAppend
  <2>4. a \in Nat /\ e \in Nat /\ tree[i].calltime \in Nat
    BY NodeFields, TimeType
  <2>5. CASE tree[i].duration # NoTime
    <3>1. b <= t[i].sumtime
      <4>1. z = 0 /\ a <= tree[i].sumtime
        BY <2>2, <2>5 DEF Fits
      <4> HIDE DEF a, b, z
      <4>2. b = a
        BY <2>3, <2>4, <4>1
      <4> QED
        BY <2>1, <4>1, <4>2
    <3> HIDE DEF t
    <3> QED
      BY <2>1, <2>5, <3>1 DEF Fits, b
  <2>6. CASE tree[i].duration = NoTime
    <3>1. e < D /\ tree[i].calltime = cs[e + 1].at /\ Lasts(tree, i)
          /\ a <= UntilOf(cs, time, e) - tree[i].calltime
      BY <2>2, <2>6 DEF Fits
    <3>2. e + 1 \in 1..D
      BY <1>2, <2>4, <3>1
    <3>3. e < Len(es) /\ es[e + 1] = cs[e + 1]
      <4>1. CASE entered
        BY <1>2, <1>3, <2>4, <3>1, <3>2, <4>1
      <4>2. CASE ~entered
        BY <1>3, <3>1, <4>2
      <4> QED
        BY <4>1, <4>2
    <3>4. Lasts(t, i)
      BY <2>3, <3>1
    <3> DEFINE u == UntilOf(cs, time, e)
               v == UntilOf(es, time + 1, e)
    <3>5. /\ u \in Nat
          /\ \/ v = u + z
             \/ z = 0 /\ v = u + 1
      <4>1. CASE e + 1 = D
        <5>1. u = time
          BY <1>2, <2>4, <4>1 DEF UntilOf
        <5>2. v = time + 1
          <6>1. CASE entered
            <7>1. e + 2 = D + 1 /\ e + 2 <= Len(es)
              <8> HIDE DEF D, e, entered
              <8> QED
                BY <1>11, <2>4, <4>1, <6>1
            <7> QED
              BY <1>3, <6>1, <7>1 DEF UntilOf
          <6>2. CASE ~entered
            <7>1. ~(e + 2 <= Len(es))
              <8> HIDE DEF D, e, entered
              <8> QED
                BY <1>11, <2>4, <4>1, <6>2
            <7> QED
              BY <7>1 DEF UntilOf
          <6> QED
            BY <6>1, <6>2
        <5>3. z = 0 \/ z = 1
          BY <1>3
        <5> HIDE DEF u, v, z
        <5> QED
          BY <5>1, <5>2, <5>3
      <4>2. CASE e + 1 # D
        <5>1. e + 2 <= D /\ e + 2 \in 1..D
          <6>1. D \in Nat /\ e \in Nat /\ e < D /\ e + 1 # D
            BY <1>2, <2>4, <3>1, <4>2
          <6> HIDE DEF D, e
          <6> QED
            BY <6>1
        <5>2. u = cs[e + 2].at
          BY <5>1 DEF UntilOf
        <5>3. v = cs[e + 2].at
          <6>1. CASE entered
            <7>1. e + 2 <= Len(es) /\ es[e + 2] = cs[e + 2]
              BY <1>2, <1>3, <2>4, <5>1, <6>1
            <7> QED
              BY <7>1 DEF UntilOf
          <6>2. CASE ~entered
            BY <1>3, <5>1, <6>2 DEF UntilOf
          <6> QED
            BY <6>1, <6>2
        <5>4. z = 0 /\ cs[e + 2].at \in Nat
          BY <1>2, <4>2, <5>1
        <5> HIDE DEF u, v, z
        <5> QED
          BY <5>2, <5>3, <5>4
      <4> QED
        BY <4>1, <4>2
    <3>6. b <= v - tree[i].calltime
      <4> DEFINE c == tree[i].calltime
      <4>1. a <= u - c /\ c \in Nat /\ z \in Nat
        BY <1>2, <2>4, <3>1
      <4> HIDE DEF a, b, c, u, v, z
      <4>2. b <= v - c
        <5>1. b = a + z /\ a \in Nat
          BY <2>3, <2>4
        <5>2. CASE v = u + z
          BY <3>5, <4>1, <5>1, <5>2
        <5>3. CASE z = 0 /\ v = u + 1
          BY <3>5, <4>1, <5>1, <5>3
        <5> QED
          BY <3>5, <5>2, <5>3
      <4> QED
        BY <4>2 DEF c
    <3> HIDE DEF t
    <3> QED
      BY <2>1, <2>6, <3>1, <3>3, <3>4, <3>6 DEF Fits, v, b
  <2> QED
    BY <2>5, <2>6
<1>9. Fits(t, es, time + 1, m)
  <2>1. Time(t, Children(t, m)) = 0 /\ Lasts(t, m)
    BY ChildrenOfLast
  <2>2. t[m] = x
    BY <1>1
  <2> HIDE DEF t, m
  <2>3. CASE entered
    <3>1. x.depth < Len(es) /\ x.calltime = es[x.depth + 1].at
      BY <1>2, <1>3, <2>3
    <3>2. UntilOf(es, time + 1, x.depth) - x.calltime = 0
      <4>1. ~(x.depth + 2 <= Len(es))
        BY <1>2, <1>3, <2>3
      <4> QED
        BY <1>3, <2>3, <4>1 DEF UntilOf
    <3> QED
      BY <2>1, <2>2, <2>3, <3>1, <3>2 DEF Fits
  <2>4. CASE ~entered
    BY <1>3, <2>1, <2>2, <2>4 DEF Fits
  <2> QED
    BY <2>3, <2>4
<1>10. \A i \in DOMAIN t : Fits(t, es, time + 1, i)
  <2>1. \A i \in 1..m : i \in 1..Len(tree) \/ i = m
    BY <1>1
  <2> HIDE DEF t, m
  <2> QED
    BY <1>1, <1>8, <1>9, <2>1
<1> HIDE DEF t
<1> QED
  BY <1>4, <1>6, <1>7, <1>10 DEF Follows, t

\* A call of Root begins a tree.
LEMMA FollowsFirst ==
  ASSUME NEW x \in Nodes, x.depth = 0, x.duration = NoTime, x.sumtime = 0,
         NEW c \in Calls, c.written = TRUE, x.calltime = c.at
  PROVE  Follows(<<x>>, <<c>>, c.at)
<1> DEFINE t == <<x>>
           cs == <<c>>
<1>1. t \in Seq(Nodes) /\ DOMAIN t = {1} /\ t[1] = x /\ Len(t) = 1
  OBVIOUS
<1>2. cs # <<>> /\ DOMAIN cs = {1} /\ cs[1] = c /\ Len(cs) = 1
  OBVIOUS
<1>3. c.at \in Nat
  BY DEF Calls
<1> HIDE DEF t, cs
<1>4. HasParents(t)
  BY <1>1 DEF HasParents
<1>5. \A d \in 0..Len(cs) - 1 : Open(t, d) # {}
  <2>1. 1 \in Open(t, 0)
    BY <1>1 DEF Open
  <2>2. \A d \in 0..Len(cs) - 1 : d = 0
    BY <1>2
  <2> QED
    BY <2>1, <2>2
<1>6. Fits(t, cs, c.at, 1)
  <2>1. \A h \in 1 + 1..Len(t) : FALSE
    BY <1>1
  <2>2. Lasts(t, 1)
    BY <2>1 DEF Lasts
  <2>3. Time(t, Children(t, 1)) = 0
    <3>1. \A h \in 1..Len(t) : h \notin Children(t, 1)
      BY <2>1 DEF Children
    <3> QED
      BY <1>1, <3>1, TimeOfNone
  <2>4. UntilOf(cs, c.at, t[1].depth) = c.at
    BY <1>1, <1>2 DEF UntilOf
  <2>5. c.at - t[1].calltime = 0 /\ t[1].depth + 1 = 1 /\ t[1].depth < Len(cs)
    BY <1>1, <1>2, <1>3
  <2> QED
    BY <1>1, <1>2, <1>3, <2>2, <2>3, <2>4, <2>5 DEF Fits
<1>7. Follows(t, cs, c.at)
  BY <1>1, <1>2, <1>4, <1>5, <1>6 DEF Follows
<1> QED
  BY <1>7 DEF t, cs

\* The end of the call at o.
Ended(n, duration) ==
  [n EXCEPT !.duration = duration, !.sumtime = @ + duration, !.count = @ + 1]

Ends(tree, o, duration) == [tree EXCEPT ![o] = Ended(@, duration)]

LEMMA EndsIs ==
  ASSUME NEW tree \in Seq(Nodes), NEW o \in 1..Len(tree), NEW duration \in Nat
  PROVE  LET t == Ends(tree, o, duration)
         IN  /\ t \in Seq(Nodes) /\ Len(t) = Len(tree) /\ DOMAIN t = 1..Len(tree)
             /\ \A i \in 1..Len(tree) :
                  /\ i # o => t[i] = tree[i]
                  /\ t[i].name = tree[i].name /\ t[i].depth = tree[i].depth
                  /\ t[i].calltime = tree[i].calltime
             /\ t[o].duration = duration /\ t[o].sumtime = tree[o].sumtime + duration
<1> DEFINE a == tree[o]
           x == a.sumtime + duration
           y == a.count + 1
           b == [a EXCEPT !.duration = duration, !.sumtime = x, !.count = y]
           t == Ends(tree, o, duration)
<1>1. a \in Nodes
  OBVIOUS
<1>2. x \in Nat /\ y \in Nat
  <2> HIDE DEF a
  <2>1. a.sumtime \in Nat /\ a.count \in Nat
    BY <1>1 DEF Nodes
  <2> QED
    BY <2>1
<1>3. /\ b \in Nodes /\ b.name = a.name /\ b.depth = a.depth /\ b.calltime = a.calltime
      /\ b.duration = duration /\ b.sumtime = x
  <2> HIDE DEF a, x, y
  <2> QED
    BY <1>1, <1>2 DEF Nodes
<1>4. t = [tree EXCEPT ![o] = b]
  <2>1. t = [tree EXCEPT ![o] = Ended(a, duration)]
    BY DEF Ends
  <2>2. Ended(a, duration) = b
    BY DEF Ended
  <2> HIDE DEF t, b, a
  <2> QED
    BY <2>1, <2>2
<1> HIDE DEF b, t, a, x, y
<1>5. /\ t \in Seq(Nodes) /\ Len(t) = Len(tree) /\ DOMAIN t = 1..Len(tree)
      /\ t[o] = b /\ \A i \in 1..Len(tree) : i # o => t[i] = tree[i]
  <2>1. tree \in [1..Len(tree) -> Nodes] /\ Len(tree) \in Nat
    OBVIOUS
  <2>2. t \in [1..Len(tree) -> Nodes] /\ t[o] = b /\ \A i \in 1..Len(tree) : i # o => t[i] = tree[i]
    BY <1>3, <1>4, <2>1
  <2> QED
    BY <2>1, <2>2
<1>6. t[o].name = tree[o].name /\ t[o].depth = tree[o].depth /\ t[o].calltime = tree[o].calltime
  BY <1>3, <1>5 DEF a
<1>7. t[o].duration = duration /\ t[o].sumtime = tree[o].sumtime + duration
  BY <1>3, <1>5 DEF x, a
<1>8. \A i \in 1..Len(tree) : /\ t[i].name = tree[i].name /\ t[i].depth = tree[i].depth
                              /\ t[i].calltime = tree[i].calltime
  BY <1>5, <1>6
<1> QED
  BY <1>5, <1>7, <1>8 DEF t

LEMMA MaxOf ==
  ASSUME NEW n \in Nat, NEW S \in SUBSET (1..n), S # {}
  PROVE  Max(S) \in S
<1> DEFINE R == {n - i : i \in S}
<1>1. R \in SUBSET Nat /\ R # {}
  <2>1. \A i \in S : i \in 1..n
    OBVIOUS
  <2>2. \A i \in S : n - i \in Nat
    BY <2>1
  <2> QED
    BY <2>2
<1>2. PICK r \in R : \A y \in R : r <= y
  BY <1>1, LeastNumber
<1>3. PICK i \in S : r = n - i
  BY <1>2
<1>4. ASSUME NEW j \in S PROVE i >= j
  <2>1. n - i <= n - j
    BY <1>2, <1>3
  <2> QED
    BY <2>1
<1>5. \E x \in S : \A y \in S : x >= y
  BY <1>4
<1> QED
  BY <1>5 DEF Max

\* The caller of an open call is open.
LEMMA CallerOpen ==
  ASSUME NEW tree \in Seq(Nodes), NEW cs \in Seq(Calls), NEW time, Follows(tree, cs, time),
         NEW i \in 1..Len(tree), NEW o \in Children(tree, i),
         tree[o].duration = NoTime, tree[o].depth < Len(cs)
  PROVE  tree[i].duration = NoTime
<1>1. /\ Len(tree) \in Nat /\ DOMAIN tree = 1..Len(tree) /\ Len(cs) \in Nat
      /\ \A k \in 1..Len(tree) : tree[k].depth \in Nat
  BY NodeFields, CallFields
<1>2. /\ o \in i + 1..Len(tree) /\ tree[o].depth = tree[i].depth + 1
      /\ \A k \in i + 1..o : tree[k].depth > tree[i].depth
  BY DEF Children
<1>3. o \in 1..Len(tree) /\ i < o
  BY <1>1, <1>2
<1>4. tree[i].depth \in 0..Len(cs) - 1
  BY <1>1, <1>2
<1>5. Open(tree, tree[i].depth) # {}
  BY <1>4 DEF Follows
<1>6. PICK q \in 1..Len(tree) : tree[q].depth = tree[i].depth /\ tree[q].duration = NoTime
  BY <1>1, <1>5 DEF Open
<1>7. ~(q < i)
  <2> SUFFICES ASSUME q < i PROVE FALSE
    OBVIOUS
  <2>1. tree[q].depth < tree[i].depth
    BY <1>6, OpenOrder
  <2> QED
    BY <1>1, <1>6, <2>1
<1>8. ~(i < q /\ q <= o)
  <2> SUFFICES ASSUME i < q, q <= o PROVE FALSE
    OBVIOUS
  <2>1. q \in i + 1..o
    BY <1>3
  <2>2. tree[q].depth > tree[i].depth
    BY <1>2, <2>1
  <2> QED
    BY <1>1, <1>6, <2>2
<1>9. ~(o < q)
  <2> SUFFICES ASSUME o < q PROVE FALSE
    OBVIOUS
  <2>1. tree[o].depth < tree[q].depth
    BY <1>3, OpenOrder
  <2>2. tree[o].depth = tree[q].depth + 1 /\ tree[q].depth \in Nat
    BY <1>1, <1>2, <1>6
  <2> QED
    BY <2>1, <2>2
<1>10. q = i
  BY <1>3, <1>7, <1>8, <1>9
<1> QED
  BY <1>6, <1>10

LEMMA EndsChildren ==
  ASSUME NEW tree \in Seq(Nodes), NEW o \in 1..Len(tree), NEW duration \in Nat,
         tree[o].sumtime = 0, NEW i \in 1..Len(tree)
  PROVE  LET t == Ends(tree, o, duration)
         IN  /\ Time(t, Children(t, i)) = Time(tree, Children(tree, i)) +
                                            (IF o \in Children(tree, i) THEN duration ELSE 0)
             /\ Lasts(t, i) <=> Lasts(tree, i)
<1> DEFINE t == Ends(tree, o, duration)
<1>1. /\ t \in Seq(Nodes) /\ Len(t) = Len(tree) /\ Len(tree) \in Nat
      /\ \A k \in 1..Len(tree) : /\ k # o => t[k] = tree[k]
                                 /\ t[k].depth = tree[k].depth
      /\ t[o].sumtime = tree[o].sumtime + duration
  BY EndsIs
<1> HIDE DEF t
<1>2. \A j \in i + 1..Len(tree) : j \in 1..Len(tree) /\ \A k \in i + 1..j : k \in 1..Len(tree)
  BY <1>1
<1>3. Children(t, i) = Children(tree, i)
  <2>1. \A j \in i + 1..Len(tree) :
          /\ t[j].depth = t[i].depth + 1 <=> tree[j].depth = tree[i].depth + 1
          /\ (\A k \in i + 1..j : t[k].depth > t[i].depth)
             <=> (\A k \in i + 1..j : tree[k].depth > tree[i].depth)
    BY <1>1, <1>2
  <2> QED
    BY <1>1, <2>1 DEF Children
<1>4. Lasts(t, i) <=> Lasts(tree, i)
  BY <1>1, <1>2 DEF Lasts
<1> DEFINE P == Children(tree, i)
<1>5. \A k \in 1..Len(tree) : k # o => t[k].sumtime = tree[k].sumtime
  BY <1>1
<1> HIDE DEF P
<1>6. Time(t, P) = IF o \in P THEN Time(tree, P) - tree[o].sumtime + t[o].sumtime ELSE Time(tree, P)
  BY <1>1, <1>5, TimeChanged
<1>7. t[o].sumtime = duration /\ Time(tree, P) \in Nat
  BY <1>1, TimeType
<1>8. Time(t, P) = Time(tree, P) + (IF o \in P THEN duration ELSE 0)
  BY <1>6, <1>7
<1> QED
  BY <1>3, <1>4, <1>8 DEF t, P

\* The call in progress ends.
LEMMA FollowsReturn ==
  ASSUME NEW tree \in Seq(Nodes), Unfolded(tree), NEW cs \in Seq(Calls), NEW time \in Nat,
         \A i \in DOMAIN cs : cs[i].at <= time, Follows(tree, cs, time),
         NEW o, o = Max(Open(tree, Len(cs) - 1)),
         NEW duration, duration = time + 1 - cs[Len(cs)].at
  PROVE  LET t == Ends(tree, o, duration)
         IN  /\ Open(tree, Len(cs) - 1) # {} /\ o \in 1..Len(tree) /\ duration \in Nat
             /\ tree[o].depth = Len(cs) - 1 /\ tree[o].duration = NoTime
             /\ HasParents(t)
             /\ Len(cs) > 1 => Follows(t, Front(cs), time + 1)
             /\ Len(cs) = 1 => Covers(t) /\ \A i \in 1..Len(t) : t[i].duration # NoTime
<1> DEFINE t == Ends(tree, o, duration)
           D == Len(cs)
<1>1. /\ Len(tree) \in Nat /\ DOMAIN tree = 1..Len(tree)
      /\ \A k \in 1..Len(tree) : tree[k].depth \in Nat /\ tree[k].calltime \in Nat
  BY NodeFields
<1>2. /\ D \in Nat /\ DOMAIN cs = 1..D /\ \A i \in 1..D : cs[i].at \in Nat /\ cs[i].at <= time
      /\ D >= 1
  <2>1. D \in Nat /\ DOMAIN cs = 1..D /\ \A i \in 1..D : cs[i].at \in Nat
    BY CallFields
  <2>2. cs # <<>>
    BY DEF Follows
  <2> QED
    BY <2>1, <2>2
<1> DEFINE c == cs[D].at
<1>3. D \in 1..D /\ c \in Nat /\ c <= time /\ duration \in Nat /\ duration = time + 1 - c
  <2>1. D \in 1..D
    BY <1>2
  <2>2. c \in Nat /\ c <= time
    BY <1>2, <2>1
  <2> HIDE DEF c
  <2>3. duration = time + 1 - c
    BY DEF c
  <2>4. duration \in Nat
    BY <2>2, <2>3
  <2> QED
    BY <2>1, <2>2, <2>3, <2>4
<1>4. Open(tree, D - 1) # {} /\ Open(tree, D - 1) \in SUBSET (1..Len(tree))
  <2>1. D - 1 \in 0..D - 1
    BY <1>2
  <2> QED
    BY <1>1, <2>1 DEF Follows, Open
<1>5. o \in 1..Len(tree) /\ tree[o].depth = D - 1 /\ tree[o].duration = NoTime
  <2>1. o \in Open(tree, D - 1)
    BY <1>1, <1>4, MaxOf
  <2> QED
    BY <1>1, <2>1 DEF Open
<1>6. tree[o].sumtime = 0
  BY <1>1, <1>5 DEF Unfolded
<1>7. /\ t \in Seq(Nodes) /\ Len(t) = Len(tree) /\ DOMAIN t = 1..Len(tree)
      /\ \A i \in 1..Len(tree) :
           /\ i # o => t[i] = tree[i]
           /\ t[i].depth = tree[i].depth /\ t[i].calltime = tree[i].calltime
      /\ t[o].duration = duration /\ t[o].sumtime = tree[o].sumtime + duration
  <2>1. duration \in Nat /\ o \in 1..Len(tree)
    BY <1>3, <1>5
  <2> HIDE DEF t
  <2>2. t = Ends(tree, o, duration)
    BY DEF t
  <2>3. LET x == Ends(tree, o, duration)
        IN  /\ x \in Seq(Nodes) /\ Len(x) = Len(tree) /\ DOMAIN x = 1..Len(tree)
            /\ \A i \in 1..Len(tree) :
                 /\ i # o => x[i] = tree[i]
                 /\ x[i].depth = tree[i].depth /\ x[i].calltime = tree[i].calltime
            /\ x[o].duration = duration /\ x[o].sumtime = tree[o].sumtime + duration
    <3>1. \A q \in 1..Len(tree), d \in Nat :
            LET x == Ends(tree, q, d)
            IN  /\ x \in Seq(Nodes) /\ Len(x) = Len(tree) /\ DOMAIN x = 1..Len(tree)
                /\ \A i \in 1..Len(tree) :
                     /\ i # q => x[i] = tree[i]
                     /\ x[i].depth = tree[i].depth /\ x[i].calltime = tree[i].calltime
                /\ x[q].duration = d /\ x[q].sumtime = tree[q].sumtime + d
      BY EndsIs
    <3> QED
      BY <2>1, <3>1
  <2> QED
    BY <2>2, <2>3
<1>8. \A i \in 1..Len(tree) :
        /\ Time(t, Children(t, i)) = Time(tree, Children(tree, i)) +
                                       (IF o \in Children(tree, i) THEN duration ELSE 0)
        /\ Lasts(t, i) <=> Lasts(tree, i)
  BY <1>3, <1>5, <1>6, EndsChildren
<1> HIDE DEF t
<1>9. HasParents(t)
  <2>1. \A i \in 1..Len(tree) : \A j \in 1..i - 1 : j \in 1..Len(tree)
    BY <1>1
  <2>2. HasParents(tree)
    BY DEF Follows
  <2> QED
    BY <1>1, <1>7, <2>1, <2>2 DEF HasParents
<1>10. \A i \in 1..Len(tree) : Fits(tree, cs, time, i)
  BY <1>1 DEF Follows
<1>11. ASSUME NEW i \in 1..Len(tree), t[i].duration # NoTime
       PROVE  Time(t, Children(t, i)) <= t[i].sumtime
  <2> DEFINE a == Time(tree, Children(tree, i))
             b == Time(t, Children(t, i))
  <2>1. a \in Nat
    BY TimeType
  <2>2. CASE i = o
    <3>1. o \notin Children(tree, o)
      BY <1>1, <1>5 DEF Children
    <3>2. b = a
      <4>1. b = a + 0
        BY <1>8, <2>2, <3>1
      <4> HIDE DEF a, b
      <4> QED
        BY <2>1, <4>1
    <3>3. tree[i].calltime = cs[tree[i].depth + 1].at
          /\ a <= UntilOf(cs, time, tree[i].depth) - tree[i].calltime
      BY <1>5, <1>10, <2>2 DEF Fits
    <3>4. tree[i].depth + 1 = D /\ ~(tree[i].depth + 2 <= Len(cs))
      BY <1>2, <1>5, <2>2
    <3>5. a <= time - c
      BY <3>3, <3>4 DEF UntilOf
    <3>6. t[i].sumtime = duration
      BY <1>3, <1>6, <1>7, <2>2
    <3> HIDE DEF a, b, c
    <3>7. b <= duration
      BY <1>3, <2>1, <3>2, <3>5
    <3> QED
      BY <3>6, <3>7 DEF b
  <2>3. CASE i # o
    <3>1. t[i] = tree[i]
      BY <1>7, <2>3
    <3>2. a <= tree[i].sumtime
      BY <1>10, <1>11, <3>1 DEF Fits
    <3>3. o \notin Children(tree, i)
      <4>1. tree[o].depth < Len(cs)
        BY <1>2, <1>5
      <4>2. tree[i].duration # NoTime
        BY <1>11, <3>1
      <4> QED
        BY <1>5, <4>1, <4>2, CallerOpen
    <3>4. b = a
      <4>1. b = a + 0
        BY <1>8, <3>3
      <4> HIDE DEF a, b
      <4> QED
        BY <2>1, <4>1
    <3> QED
      BY <3>1, <3>2, <3>4
  <2> QED
    BY <2>2, <2>3
\* An open call that is left is above the one that ended.
<1>12. ASSUME NEW i \in 1..Len(tree), t[i].duration = NoTime
       PROVE  i # o /\ t[i] = tree[i] /\ tree[i].depth < D - 1
  <2>1. i # o
    BY <1>3, <1>7, <1>12 DEF NoTime
  <2>2. t[i] = tree[i]
    BY <1>7, <2>1
  <2>3. tree[i].depth < D
    BY <1>10, <1>12, <2>2 DEF Fits
  <2>4. tree[i].depth # D - 1
    <3> SUFFICES ASSUME tree[i].depth = D - 1 PROVE FALSE
      OBVIOUS
    <3>1. CASE i < o
      <4>1. tree[i].depth < tree[o].depth
        BY <1>5, <1>12, <2>2, <3>1, OpenOrder
      <4> QED
        BY <1>1, <1>2, <1>5, <4>1
    <3>2. CASE o < i
      <4>1. tree[o].depth < tree[i].depth
        BY <1>5, <3>2, OpenOrder
      <4> QED
        BY <1>1, <1>2, <1>5, <4>1
    <3> QED
      BY <1>5, <2>1, <3>1, <3>2
  <2>5. tree[i].depth \in Nat
    BY <1>1
  <2> QED
    BY <1>2, <2>1, <2>2, <2>3, <2>4, <2>5
<1>13. ASSUME D = 1 PROVE Covers(t) /\ \A i \in 1..Len(t) : t[i].duration # NoTime
  <2>1. \A i \in 1..Len(t) : t[i].duration # NoTime
    <3> SUFFICES ASSUME NEW i \in 1..Len(tree), t[i].duration = NoTime PROVE FALSE
      BY <1>7
    <3>1. tree[i].depth < 0 /\ tree[i].depth \in Nat
      BY <1>1, <1>12, <1>13
    <3> QED
      BY <3>1
  <2> QED
    BY <1>7, <1>11, <2>1 DEF Covers
<1>14. ASSUME D > 1 PROVE Follows(t, Front(cs), time + 1)
  <2> DEFINE es == Front(cs)
             E == D - 1
  <2>1. /\ E \in Nat /\ E >= 1 /\ Len(es) = E /\ DOMAIN es = 1..E /\ es # <<>>
        /\ \A i \in 1..E : es[i] = cs[i]
    BY <1>2, <1>14 DEF Front
  <2> HIDE DEF es
  <2>2. \A i \in DOMAIN es : es[i].written
    <3>1. \A i \in 1..E : i \in 1..D
      BY <1>2
    <3> QED
      BY <1>2, <2>1, <3>1 DEF Follows
  <2>3. \A d \in 0..Len(es) - 1 : Open(t, d) # {}
    <3> TAKE d \in 0..Len(es) - 1
    <3>1. d \in 0..D - 1 /\ d # D - 1
      <4>1. D \in Nat /\ D >= 1 /\ Len(es) = D - 1
        BY <1>2, <2>1
      <4> HIDE DEF D, E
      <4> QED
        BY <4>1
    <3>2. Open(tree, d) # {}
      BY <3>1 DEF Follows
    <3>3. PICK q \in 1..Len(tree) : tree[q].depth = d /\ tree[q].duration = NoTime
      BY <1>1, <3>2 DEF Open
    <3>4. q # o
      BY <1>5, <3>1, <3>3
    <3>5. t[q] = tree[q]
      BY <1>7, <3>4
    <3>6. q \in Open(t, d)
      BY <1>7, <3>3, <3>5 DEF Open
    <3> QED
      BY <3>6
  <2>4. ASSUME NEW i \in 1..Len(tree) PROVE Fits(t, es, time + 1, i)
    <3>1. CASE t[i].duration # NoTime
      BY <1>11, <3>1 DEF Fits
    <3>2. CASE t[i].duration = NoTime
      <4> DEFINE e == tree[i].depth
                 a == Time(tree, Children(tree, i))
                 b == Time(t, Children(t, i))
                 u == UntilOf(cs, time, e)
                 v == UntilOf(es, time + 1, e)
                 h == tree[i].calltime
      <4>1. i # o /\ t[i] = tree[i] /\ e < E /\ e \in Nat /\ h \in Nat
        BY <1>1, <1>12, <3>2
      <4>2. Fits(tree, cs, time, i) /\ tree[i].duration = NoTime
        BY <1>10, <3>2, <4>1
      <4>3. e < D /\ h = cs[e + 1].at /\ Lasts(tree, i) /\ a <= u - h
        BY <4>2 DEF Fits
      <4>4. e + 1 \in 1..E /\ es[e + 1] = cs[e + 1]
        <5>1. e + 1 \in 1..E
          BY <2>1, <4>1
        <5> QED
          BY <2>1, <5>1
      <4>5. a \in Nat
        BY TimeType
      <4>6. b <= v - h
        <5>1. CASE e + 1 = E
          <6>1. e + 2 = D /\ e + 2 <= Len(cs) /\ ~(e + 2 <= Len(es))
            <7>1. D \in Nat /\ D >= 1 /\ Len(es) = D - 1 /\ e + 1 = D - 1 /\ e \in Nat /\ Len(cs) = D
              BY <1>2, <2>1, <4>1, <5>1
            <7> HIDE DEF D, E, e
            <7> QED
              BY <7>1
          <6>2. u = c /\ v = time + 1
            BY <6>1 DEF UntilOf
          <6>3. b <= a + duration
            <7>1. b = a + (IF o \in Children(tree, i) THEN duration ELSE 0)
              BY <1>8
            <7> HIDE DEF a, b
            <7> QED
              BY <1>3, <4>5, <7>1
          <6>4. b \in Nat
            BY <1>7, TimeType
          <6> HIDE DEF a, b, u, v, h, c
          <6>5. a <= c - h /\ a \in Nat /\ c \in Nat /\ h \in Nat
            BY <1>3, <4>1, <4>3, <4>5, <6>2
          <6>6. b <= a + (time + 1 - c)
            BY <1>3, <6>3
          <6>7. b <= (time + 1) - h
            BY <6>4, <6>5, <6>6
          <6> QED
            BY <6>2, <6>7
        <5>2. CASE e + 1 # E
          <6>1. e + 2 \in 1..E /\ e + 2 <= Len(cs) /\ e + 2 <= Len(es)
            BY <1>2, <2>1, <4>1, <5>2
          <6>2. u = v
            BY <2>1, <6>1 DEF UntilOf
          <6>3. o \notin Children(tree, i)
            <7>1. tree[o].depth # tree[i].depth + 1
              BY <1>5, <5>2
            <7> QED
              BY <7>1 DEF Children
          <6>4. b = a
            <7>1. b = a + 0
              BY <1>8, <6>3
            <7> HIDE DEF a, b
            <7> QED
              BY <4>5, <7>1
          <6> QED
            BY <4>3, <6>2, <6>4
        <5> QED
          BY <5>1, <5>2
      <4>7. e < Len(es) /\ Lasts(t, i) /\ h = es[e + 1].at
        BY <1>8, <2>1, <4>1, <4>3, <4>4
      <4> QED
        BY <3>2, <4>1, <4>6, <4>7 DEF Fits
    <3> QED
      BY <3>1, <3>2
  <2>5. Follows(t, es, time + 1)
    BY <1>7, <1>9, <2>1, <2>2, <2>3, <2>4 DEF Follows
  <2> QED
    BY <2>5 DEF es
<1> QED
  BY <1>3, <1>4, <1>5, <1>9, <1>13, <1>14 DEF t

-----------------------------------------------------------------------------
(* A tree that is complete                                                 *)

LEMMA TypedSafe == ASSUME NEW s \in Seq(Nodes) PROVE ~Raises(s)
<1>1. \A i \in DOMAIN s : s[i].sumtime \in Nat
  BY NodeFields
<1> QED
  BY <1>1 DEF Raises, Broken

LEMMA ListedType ==
  ASSUME NEW list \in Seq(Seq(Nodes)), NEW stack \in Seq(Nodes)
  PROVE  LET t == Listed(list, stack)
         IN  /\ (\A i \in DOMAIN t : ~Raises(t[i])) => t \in Seq(Seq(Nodes))
             /\ (\A j \in 1..Len(stack) : stack[j].duration # NoTime) =>
                  t \in Seq(Seq(Nodes)) /\ \A i \in DOMAIN t : ~Raises(t[i])
<1> DEFINE t == Listed(list, stack)
           Same(k) == SameNames(list[k], stack)
<1>1. Len(list) \in Nat /\ DOMAIN list = 1..Len(list) /\ \A i \in 1..Len(list) : list[i] \in Seq(Nodes)
  OBVIOUS
<1>2. ASSUME t \in Seq(Seq(Nodes)) PROVE \A i \in DOMAIN t : ~Raises(t[i])
  <2> HIDE DEF t
  <2>1. \A i \in DOMAIN t : t[i] \in Seq(Nodes)
    BY <1>2
  <2> QED
    BY <2>1, TypedSafe
<1>3. CASE \A i \in DOMAIN list : ~Same(i)
  <2>1. t = Append(list, stack)
    BY <1>3 DEF Listed
  <2> HIDE DEF t
  <2>2. t \in Seq(Seq(Nodes))
    BY <2>1
  <2> QED
    BY <1>2, <2>2 DEF t
<1>4. CASE \E i \in DOMAIN list : Same(i)
  <2> DEFINE S == {k \in 1..Len(list) : Same(k)}
             i == CHOOSE k \in DOMAIN list : Same(k) /\ \A h \in 1..k - 1 : ~Same(h)
             m == Merge(list[i], stack)
  <2>1. \E k \in DOMAIN list : Same(k) /\ \A h \in 1..k - 1 : ~Same(h)
    <3>1. S # {} /\ S \in SUBSET Nat
      BY <1>1, <1>4
    <3>2. PICK k \in S : \A h \in S : k <= h
      <4> HIDE DEF S
      <4> QED
        BY <3>1, LeastNumber
    <3>3. k \in 1..Len(list) /\ Same(k)
      OBVIOUS
    <3>4. ASSUME NEW h \in 1..k - 1 PROVE ~Same(h)
      <4> SUFFICES ASSUME Same(h) PROVE FALSE
        OBVIOUS
      <4> HIDE DEF Same
      <4>1. h \in S
        BY <1>1, <3>3
      <4>2. k <= h
        BY <3>2, <4>1
      <4> HIDE DEF S
      <4> QED
        BY <3>3, <4>2
    <3> HIDE DEF Same, S
    <3> QED
      BY <1>1, <3>3, <3>4
  <2>2. i \in 1..Len(list)
    <3> HIDE DEF Same
    <3> QED
      BY <1>1, <2>1
  <2>3. t = [list EXCEPT ![i] = m]
    BY <1>4 DEF Listed
  <2>4. list[i] \in Seq(Nodes)
    BY <1>1, <2>2
  <2> HIDE DEF i
  <2>5. /\ ~Raises(m) => m \in Seq(Nodes)
        /\ (\A j \in 1..Len(stack) : stack[j].duration # NoTime) => m \in Seq(Nodes)
    BY <2>4, MergeType
  <2> HIDE DEF m, t
  <2>6. i \in DOMAIN t /\ t[i] = m
    BY <1>1, <2>2, <2>3
  <2>7. m \in Seq(Nodes) => t \in Seq(Seq(Nodes))
    BY <1>1, <2>2, <2>3
  <2> QED
    BY <1>2, <2>5, <2>6, <2>7 DEF t
<1> QED
  BY <1>3, <1>4

\* The time of Root is that of the first call.
LEMMA RootTime ==
  ASSUME NEW s \in Seq(Nodes), Rooted(s)
  PROVE  TimeOf(s, Root) = IF s = <<>> THEN 0 ELSE s[1].sumtime
<1> DEFINE P == {i \in DOMAIN s : s[i].name = Root}
<1>1. Len(s) \in Nat /\ DOMAIN s = 1..Len(s) /\ \A i \in 1..Len(s) : i \in P <=> i = 1
  BY NodeFields DEF Rooted
<1>2. TimeOf(s, Root) = Time(s, P)
  BY DEF TimeOf
<1> HIDE DEF P
<1>3. CASE s = <<>>
  <2>1. \A i \in 1..Len(s) : i \notin P
    BY <1>3
  <2> QED
    BY <1>2, <1>3, <2>1, TimeOfNone
<1>4. CASE s # <<>>
  <2>1. 1 \in 1..Len(s) /\ 1 \notin {}
    BY <1>1, <1>4
  <2>2. Time(s, {} \cup {1}) = Time(s, {}) + s[1].sumtime
    BY <2>1, TimeWith
  <2>3. Time(s, {}) = 0
    BY TimeOfNone
  <2>4. \A i \in 1..Len(s) : i \in P <=> i \in {} \cup {1}
    BY <1>1
  <2>5. Time(s, P) = Time(s, {} \cup {1})
    <3> DEFINE Q == {} \cup {1}
    <3>1. \A i \in 1..Len(s) : i \in P <=> i \in Q
      BY <2>4
    <3> HIDE DEF Q
    <3>2. Time(s, P) = Time(s, Q)
      BY <3>1, TimeSame
    <3> QED
      BY <3>2 DEF Q
  <2>6. s[1].sumtime \in Nat
    BY <2>1, NodeFields
  <2> QED
    BY <1>2, <1>4, <2>2, <2>3, <2>5, <2>6
<1> QED
  BY <1>3, <1>4

LEMMA MergeRootTime ==
  ASSUME NEW old \in Seq(Nodes), NEW new \in Seq(Nodes), new # <<>>, Rooted(old), Rooted(new),
         ~Raises(Merge(old, new)), new[1].duration \in Nat, new[1].sumtime = new[1].duration
  PROVE  TimeOf(Merge(old, new), Root) = TimeOf(old, Root) + new[1].duration
<1> DEFINE m == Merge(old, new)
<1>1. m \in Seq(Nodes)
  BY MergeType
<1>2. m # <<>> /\ m[1] = First(old, new) /\ Rooted(m)
  BY MergeRooted
<1> HIDE DEF m
<1>3. TimeOf(m, Root) = m[1].sumtime
  BY <1>1, <1>2, RootTime
<1>4. TimeOf(old, Root) = IF old = <<>> THEN 0 ELSE old[1].sumtime
  BY RootTime
<1>5. m[1].sumtime = (IF old = <<>> THEN 0 ELSE old[1].sumtime) + new[1].duration
  <2>1. CASE old = <<>>
    BY <1>2, <2>1 DEF First
  <2>2. CASE old # <<>>
    <3>1. old[1] \in Nodes /\ new[1] \in Nodes /\ new[1].duration # NoTime
      BY <2>2 DEF NoTime
    <3>2. Both(old[1], new[1]).sumtime = old[1].sumtime + new[1].duration
      BY <3>1, BothNode
    <3> QED
      BY <1>2, <2>2, <3>2 DEF First
  <2> QED
    BY <2>1, <2>2
<1> QED
  BY <1>3, <1>4, <1>5 DEF m

\* The durations of all calls together.
Durations(list) == [i \in DOMAIN list |-> list[i][2]]

LEMMA DurationsAppend ==
  ASSUME NEW list \in Latencies, NEW y \in Nat \X Nat
  PROVE  /\ Append(list, y) \in Latencies
         /\ Total(Durations(Append(list, y))) = Total(Durations(list)) + y[2]
<1> DEFINE t == Append(list, y)
           v == Durations(list)
           w == Durations(t)
           n == Len(list)
<1>1. /\ t \in Latencies /\ Len(list) \in Nat /\ DOMAIN t = 1..n + 1 /\ DOMAIN list = 1..n
      /\ t[n + 1] = y /\ \A i \in 1..n : t[i] = list[i]
  BY DEF Latencies
<1>2. /\ \A i \in 1..n : list[i] \in Nat \X Nat
      /\ \A i \in 1..n + 1 : t[i] \in Nat \X Nat
  BY <1>1 DEF Latencies
<1> HIDE DEF t
<1>3. /\ v = [i \in 1..n |-> list[i][2]]
      /\ w = [i \in 1..n + 1 |-> t[i][2]]
  BY <1>1 DEF Durations
<1> HIDE DEF v, w
<1>4. /\ Len(v) = n /\ \A i \in 1..n : v[i] = list[i][2]
      /\ Len(w) = n + 1 /\ \A i \in 1..n + 1 : w[i] = t[i][2]
  BY <1>1, <1>3
<1> HIDE DEF n
<1>5. \A i \in 1..n + 1 : w[i] \in Int
  <2>1. \A i \in 1..n + 1 : t[i][2] \in Nat
    BY <1>2
  <2> QED
    BY <1>4, <2>1
<1>6. \A i \in 1..n : w[i] = v[i]
  <2> TAKE i \in 1..n
  <2>1. i \in 1..n + 1 /\ t[i] = list[i]
    BY <1>1 DEF n
  <2> QED
    BY <1>4, <2>1
<1>7. n \in Nat
  BY <1>1 DEF n
<1>8. Total(w) = Total(v) + w[n + 1]
  BY <1>4, <1>5, <1>6, <1>7, TotalMore
<1>9. n + 1 \in 1..n + 1 /\ t[n + 1] = y
  BY <1>1, <1>7 DEF n
<1>10. w[n + 1] = y[2]
  BY <1>4, <1>9
<1> QED
  BY <1>1, <1>8, <1>10 DEF t, v, w

\* A tree that can be committed.
Complete(tree) == /\ tree \in Seq(Nodes) /\ tree # <<>> /\ Rooted(tree) /\ Unfolded(tree)
                  /\ tree[1].duration \in Nat

LEMMA FoldComplete ==
  ASSUME NEW tree, Complete(tree)
  PROVE  /\ Keeps(tree, Fold(tree)) /\ Timed(Fold(tree)) /\ Rooted(Fold(tree))
         /\ Fold(tree)[1].sumtime = Fold(tree)[1].duration
         /\ (\A i \in 1..Len(tree) : tree[i].duration # NoTime) =>
              \A i \in 1..Len(Fold(tree)) : Fold(tree)[i].duration # NoTime
<1> DEFINE t == Fold(tree)
<1>1. Keeps(tree, t)
  BY FoldKeeps DEF Complete
<1> HIDE DEF t
<1>2. /\ tree \in Seq(Nodes) /\ t \in Seq(Nodes) /\ t # <<>> /\ t[1] = tree[1] /\ tree # <<>>
      /\ Rooted(tree) /\ Unfolded(tree) /\ tree[1].duration \in Nat
  BY <1>1 DEF Keeps, Complete
<1>3. /\ Len(tree) \in Nat /\ DOMAIN tree = 1..Len(tree) /\ Len(t) \in Nat /\ DOMAIN t = 1..Len(t)
      /\ 1 \in 1..Len(tree)
      /\ \A i \in 1..Len(tree) : tree[i].sumtime \in Nat
  BY <1>2, NodeFields
<1>4. ASSUME NEW i \in 1..Len(t)
      PROVE  \/ i = 1 /\ t[i] = tree[1]
             \/ i # 1 /\ \E j \in 1..Len(tree) : /\ j # 1 /\ t[i].name = tree[j].name
                                                 /\ t[i].depth = tree[j].depth
                                                 /\ t[i].duration = tree[j].duration
  <2>1. CASE i = 1
    BY <1>2, <2>1
  <2>2. CASE i # 1
    <3>1. i \in 2..Len(t)
      BY <1>3, <2>2
    <3>2. PICK j \in 2..Len(tree) :
            t[i].name = tree[j].name /\ t[i].depth = tree[j].depth /\ t[i].duration = tree[j].duration
      BY <1>1, <3>1 DEF Keeps
    <3>3. j \in 1..Len(tree) /\ j # 1
      BY <1>3
    <3> QED
      BY <2>2, <3>2, <3>3
  <2> QED
    BY <2>1, <2>2
<1>5. Rooted(t)
  <2>1. \A j \in 1..Len(tree) : (tree[j].name = Root <=> j = 1) /\ (tree[j].depth = 0 <=> j = 1)
    BY <1>2, <1>3 DEF Rooted
  <2>2. \A i \in 1..Len(t) : (t[i].name = Root <=> i = 1) /\ (t[i].depth = 0 <=> i = 1)
    <3> TAKE i \in 1..Len(t)
    <3>1. CASE i = 1 /\ t[i] = tree[1]
      BY <1>3, <2>1, <3>1
    <3>2. CASE i # 1 /\ \E j \in 1..Len(tree) : /\ j # 1 /\ t[i].name = tree[j].name
                                                /\ t[i].depth = tree[j].depth
      BY <2>1, <3>2
    <3> QED
      BY <1>4, <3>1, <3>2
  <2> QED
    BY <1>3, <2>2 DEF Rooted
<1>6. Timed(t)
  <2>1. \A j \in 1..Len(tree) : tree[j].duration # NoTime => tree[j].sumtime = tree[j].duration
    BY <1>2, <1>3 DEF Unfolded
  <2>2. \A j \in 1..Len(tree) : tree[j].duration # NoTime => tree[j].duration <= tree[j].sumtime
    BY <1>3, <2>1
  <2>3. Timed(tree)
    BY <1>3, <2>2 DEF Timed
  <2> QED
    BY <1>1, <2>3 DEF Keeps
<1>7. t[1].sumtime = t[1].duration
  <2>1. tree[1].duration # NoTime
    BY <1>2 DEF NoTime
  <2> QED
    BY <1>2, <1>3, <2>1 DEF Unfolded
<1>8. (\A i \in 1..Len(tree) : tree[i].duration # NoTime) =>
        \A i \in 1..Len(t) : t[i].duration # NoTime
  <2> SUFFICES ASSUME \A i \in 1..Len(tree) : tree[i].duration # NoTime, NEW i \in 1..Len(t)
               PROVE  t[i].duration # NoTime
    OBVIOUS
  <2>1. CASE t[i] = tree[1]
    BY <1>3, <2>1
  <2>2. CASE \E j \in 1..Len(tree) : t[i].duration = tree[j].duration
    BY <2>2
  <2> QED
    BY <1>4, <2>1, <2>2
<1> QED
  BY <1>1, <1>5, <1>6, <1>7, <1>8 DEF t

\* What becomes of the trees of thread p.
LEMMA CommitTypes ==
  ASSUME NEW p \in Pids, NEW tree, Complete(tree), Typed, state = "reading", Commit(p, tree)
  PROVE  /\ walkstack' = [walkstack EXCEPT ![p] = <<>>]
         /\ latencylist' = [latencylist EXCEPT
                              ![p] = Append(@, <<tree[1].calltime, tree[1].duration>>)]
         /\ LATENCYLIST' = Append(LATENCYLIST, <<tree[1].calltime, tree[1].duration>>)
         /\ <<tree[1].calltime, tree[1].duration>> \in Nat \X Nat
         /\ latencylist' \in [Pids -> Latencies] /\ LATENCYLIST' \in Latencies
         /\ spent' \in [Names -> Nat] /\ folded' \in BOOLEAN
         /\ state' # "raised" => /\ stacklist' \in [Pids -> Seq(Seq(Nodes))]
                                 /\ STACKLIST' \in Seq(Seq(Nodes)) /\ STACKTOP' \in Seq(Nodes)
                                 /\ ~Raises(STACKTOP')
         /\ (\A i \in 1..Len(tree) : tree[i].duration # NoTime) => state' = state
<1> DEFINE last == Fold(tree)
           lat == <<last[1].calltime, last[1].duration>>
<1>1. /\ Keeps(tree, last)
      /\ (\A i \in 1..Len(tree) : tree[i].duration # NoTime) =>
           \A i \in 1..Len(last) : last[i].duration # NoTime
  BY FoldComplete
<1>2. /\ last \in Seq(Nodes) /\ last[1] = tree[1] /\ tree \in Seq(Nodes) /\ tree # <<>>
      /\ tree[1].duration \in Nat
  BY <1>1 DEF Keeps, Complete
<1>3. lat = <<tree[1].calltime, tree[1].duration>> /\ lat \in Nat \X Nat
  <2>1. tree[1] \in Nodes
    BY <1>2
  <2>2. tree[1].calltime \in Nat
    BY <2>1 DEF Nodes
  <2> HIDE DEF last
  <2> QED
    BY <1>2, <2>2
<1>4. /\ walkstack' = [walkstack EXCEPT ![p] = <<>>]
      /\ latencylist' = [latencylist EXCEPT ![p] = Append(@, lat)]
      /\ LATENCYLIST' = Append(LATENCYLIST, lat)
      /\ stacklist' = [stacklist EXCEPT ![p] = Listed(@, last)]
      /\ STACKLIST' = Listed(STACKLIST, last)
      /\ STACKTOP' = Merge(STACKTOP, last)
      /\ state' = IF \/ Raises(STACKTOP')
                     \/ \E i \in DOMAIN STACKLIST' : Raises(STACKLIST'[i])
                     \/ \E i \in DOMAIN stacklist'[p] : Raises(stacklist'[p][i])
                  THEN "raised" ELSE state
      /\ spent' = [n \in Names |-> spent[n] + TimeOf(tree, n)]
      /\ folded' = (folded \/ last # tree)
  BY DEF Commit
<1> HIDE DEF last, lat
<1>5. latencylist' \in [Pids -> Latencies] /\ LATENCYLIST' \in Latencies
  <2>1. \A list \in Latencies : Append(list, lat) \in Latencies
    BY <1>3, DurationsAppend
  <2>2. latencylist \in [Pids -> Latencies] /\ LATENCYLIST \in Latencies
    BY DEF Typed
  <2> QED
    BY <1>4, <2>1, <2>2
<1>6. spent' \in [Names -> Nat]
  <2>1. \A n \in Names : spent[n] \in Nat /\ TimeOf(tree, n) \in Nat
    BY <1>2, TimeType DEF Typed, TimeOf
  <2>2. \A n \in Names : spent[n] + TimeOf(tree, n) \in Nat
    BY <2>1
  <2> QED
    BY <1>4, <2>2
<1>7. folded' \in BOOLEAN
  BY <1>4 DEF Typed
<1>8. /\ STACKTOP \in Seq(Nodes) /\ STACKLIST \in Seq(Seq(Nodes))
      /\ stacklist \in [Pids -> Seq(Seq(Nodes))] /\ stacklist[p] \in Seq(Seq(Nodes))
  BY DEF Typed
<1>9. stacklist'[p] = Listed(stacklist[p], last)
  BY <1>4, <1>8
<1>10. ASSUME state' # "raised"
       PROVE  /\ stacklist' \in [Pids -> Seq(Seq(Nodes))]
              /\ STACKLIST' \in Seq(Seq(Nodes)) /\ STACKTOP' \in Seq(Nodes)
              /\ ~Raises(STACKTOP')
  <2>1. /\ ~Raises(STACKTOP')
        /\ \A i \in DOMAIN STACKLIST' : ~Raises(STACKLIST'[i])
        /\ \A i \in DOMAIN stacklist'[p] : ~Raises(stacklist'[p][i])
    BY <1>4, <1>10
  <2>2. STACKTOP' \in Seq(Nodes)
    BY <1>2, <1>4, <1>8, <2>1, MergeType
  <2>3. STACKLIST' \in Seq(Seq(Nodes))
    BY <1>2, <1>4, <1>8, <2>1, ListedType
  <2>4. stacklist'[p] \in Seq(Seq(Nodes))
    BY <1>2, <1>8, <1>9, <2>1, ListedType
  <2>5. stacklist' \in [Pids -> Seq(Seq(Nodes))]
    BY <1>4, <1>8, <1>9, <2>4
  <2> QED
    BY <2>1, <2>2, <2>3, <2>5
<1>11. ASSUME \A i \in 1..Len(tree) : tree[i].duration # NoTime
       PROVE  state' = state
  <2>1. \A i \in 1..Len(last) : last[i].duration # NoTime
    BY <1>1, <1>11
  <2>2. ~Raises(STACKTOP')
    BY <1>2, <1>4, <1>8, <2>1, MergeType
  <2>3. \A i \in DOMAIN STACKLIST' : ~Raises(STACKLIST'[i])
    BY <1>2, <1>4, <1>8, <2>1, ListedType
  <2>4. \A i \in DOMAIN stacklist'[p] : ~Raises(stacklist'[p][i])
    BY <1>2, <1>8, <1>9, <2>1, ListedType
  <2> QED
    BY <1>4, <2>2, <2>3, <2>4
<1> QED
  BY <1>3, <1>4, <1>5, <1>6, <1>7, <1>10, <1>11

LEMMA CommitTimes ==
  ASSUME NEW p \in Pids, NEW tree, Complete(tree), Typed, state = "reading", TopRooted,
         TimesKept, Commit(p, tree), state' # "raised"
  PROVE  /\ TopRooted'
         /\ HasParents(STACKTOP) /\ HasParents(tree) /\ OneDepth(tree) => HasParents(STACKTOP')
         /\ (Gap => Gap') /\ (~Gap' => Covers(tree)) => TimesKept'
<1> DEFINE last == Fold(tree)
           d == tree[1].duration
           M == Merge(STACKTOP, last)
<1>1. /\ Keeps(tree, last) /\ Timed(last) /\ Rooted(last) /\ last[1].sumtime = last[1].duration
  BY FoldComplete
<1>2. /\ last \in Seq(Nodes) /\ last # <<>> /\ last[1] = tree[1] /\ tree \in Seq(Nodes)
      /\ d \in Nat /\ \A n : TimeOf(last, n) = TimeOf(tree, n)
      /\ OneDepth(tree) /\ HasParents(tree) => HasParents(last)
      /\ Unfolded(tree)
  BY <1>1 DEF Keeps, Complete
<1>3. /\ STACKTOP' = M
      /\ spent' = [n \in Names |-> spent[n] + TimeOf(tree, n)]
      /\ folded' = (folded \/ last # tree)
  BY DEF Commit
<1>4. /\ LATENCYLIST' = Append(LATENCYLIST, <<tree[1].calltime, d>>)
      /\ <<tree[1].calltime, d>> \in Nat \X Nat
      /\ ~Raises(STACKTOP') /\ STACKTOP' \in Seq(Nodes)
  BY CommitTypes
<1>5. STACKTOP \in Seq(Nodes) /\ Rooted(STACKTOP) /\ LATENCYLIST \in Latencies
      /\ spent \in [Names -> Nat] /\ folded \in BOOLEAN
  BY DEF Typed, TopRooted
<1>6. /\ TimeOf(STACKTOP, Root) = Total(Durations(LATENCYLIST))
      /\ \A n \in Names : TimeOf(STACKTOP, n) <= spent[n]
      /\ ~folded => /\ \A n \in Names : TimeOf(STACKTOP, n) = spent[n]
                    /\ Gap \/ Covers(STACKTOP)
  BY DEF TimesKept, Durations
<1> HIDE DEF last, M
<1>7. ~Raises(M) /\ M \in Seq(Nodes)
  BY <1>3, <1>4
<1>8. TopRooted'
  <2>1. Rooted(M)
    BY <1>1, <1>2, <1>5, <1>7, MergeRooted DEF M
  <2> QED
    BY <1>3, <2>1 DEF TopRooted
<1>9. ASSUME HasParents(STACKTOP), HasParents(tree), OneDepth(tree) PROVE HasParents(STACKTOP')
  <2>1. HasParents(last)
    BY <1>2, <1>9
  <2> QED
    BY <1>2, <1>3, <1>5, <1>7, <1>9, <2>1, MergeParents DEF M
<1>10. TimeOf(STACKTOP', Root) = Total(Durations(LATENCYLIST'))
  <2>1. TimeOf(M, Root) = TimeOf(STACKTOP, Root) + last[1].duration
    BY <1>1, <1>2, <1>5, <1>7, MergeRootTime DEF M
  <2> DEFINE y == <<tree[1].calltime, d>>
  <2>2. y[2] = d /\ y \in Nat \X Nat
    BY <1>4
  <2> HIDE DEF y
  <2>3. Total(Durations(Append(LATENCYLIST, y))) = Total(Durations(LATENCYLIST)) + y[2]
    BY <1>5, <2>2, DurationsAppend
  <2>4. LATENCYLIST' = Append(LATENCYLIST, y)
    BY <1>4 DEF y
  <2> QED
    BY <1>2, <1>3, <1>6, <2>1, <2>2, <2>3, <2>4
<1>11. ASSUME NEW n \in Names
       PROVE  /\ TimeOf(STACKTOP', n) <= spent'[n]
              /\ ~folded' => TimeOf(STACKTOP', n) = spent'[n]
  <2>1. /\ TimeOf(M, n) <= TimeOf(STACKTOP, n) + TimeOf(last, n)
        /\ Unfolded(last) => TimeOf(M, n) = TimeOf(STACKTOP, n) + TimeOf(last, n)
    BY <1>1, <1>2, <1>5, <1>7, MergeTimes DEF M
  <2> DEFINE a == TimeOf(M, n)
             b == TimeOf(STACKTOP, n)
             c == TimeOf(tree, n)
             e == spent[n]
  <2>2. a \in Nat /\ b \in Nat /\ c \in Nat /\ e \in Nat
    BY <1>2, <1>5, <1>7, TimeType DEF TimeOf
  <2>3. /\ a <= b + c /\ b <= e
        /\ ~folded' => a = b + c /\ b = e
    <3>1. ~folded' => ~folded /\ last = tree
      BY <1>3
    <3> QED
      BY <1>2, <1>6, <2>1, <3>1
  <2>4. spent'[n] = e + c /\ TimeOf(STACKTOP', n) = a
    BY <1>3
  <2> HIDE DEF a, b, c, e
  <2>5. a <= e + c /\ (~folded' => a = e + c)
    BY <2>2, <2>3
  <2> QED
    BY <2>4, <2>5
<1>12. ASSUME Gap => Gap', ~Gap' => Covers(tree), ~folded', ~Gap'
       PROVE  Covers(STACKTOP')
  <2>1. last = tree /\ ~folded
    BY <1>3, <1>12
  <2>2. Covers(STACKTOP) /\ Covers(tree)
    BY <1>6, <1>12, <2>1
  <2> QED
    BY <1>2, <1>3, <1>5, <1>7, <2>1, <2>2, MergeCovers DEF M
<1>13. ASSUME Gap => Gap', ~Gap' => Covers(tree) PROVE TimesKept'
  <2>1. ~folded' => Gap' \/ Covers(STACKTOP')
    BY <1>12, <1>13
  <2> QED
    BY <1>10, <1>11, <2>1 DEF TimesKept, Durations
<1> QED
  BY <1>8, <1>9, <1>13

-----------------------------------------------------------------------------
(* The steps                                                               *)

\* InWork and Followed of one thread.
Works(tree, cs, lv) ==
  /\ Rooted(tree) /\ Unfolded(tree)
  /\ \A i \in DOMAIN tree : <<tree[i].name, tree[i].depth>> \in lv
  /\ tree # <<>> => tree[1].duration = NoTime
  /\ cs # <<>> /\ cs[1].written => tree # <<>> /\ tree[1].calltime = cs[1].at

Traced(tree, cs, time, ls, ms, ln) ==
  /\ ls = ms
  /\ ln = "yet" => tree = <<>> /\ \A i \in DOMAIN cs : ~cs[i].written
  /\ tree # <<>> => Follows(tree, cs, time)

CallsBelow(cs, time) == \A i \in DOMAIN cs : (cs[i].name = Root <=> i = 1) /\ cs[i].at <= time

LEMMA WorksIs ==
  /\ \A p : InWork(p) <=> Works(walkstack[p], calls[p], levels)
  /\ \A p : Followed(p) <=> Traced(walkstack[p], calls[p], now, latencylist[p], measured[p], line[p])
  /\ CallsRooted <=> \A p \in Pids : CallsBelow(calls[p], now)
<1>1. \A p : InWork(p) <=> Works(walkstack[p], calls[p], levels)
  BY DEF InWork, Works
<1>2. ASSUME NEW p
      PROVE  Followed(p) <=> Traced(walkstack[p], calls[p], now, latencylist[p], measured[p], line[p])
  BY DEF Followed, Traced, Follows, Fits, UntilOf, Until, Lasts
<1>3. CallsRooted <=> \A p \in Pids : CallsBelow(calls[p], now)
  BY DEF CallsRooted, CallsBelow
<1> QED
  BY <1>1, <1>2, <1>3

LEMMA WorksIsNext ==
  /\ \A p : InWork(p)' <=> Works(walkstack'[p], calls'[p], levels')
  /\ \A p : Followed(p)' <=> Traced(walkstack'[p], calls'[p], now', latencylist'[p], measured'[p], line'[p])
  /\ CallsRooted' <=> \A p \in Pids : CallsBelow(calls'[p], now')
<1>1. \A p : InWork(p)' <=> Works(walkstack'[p], calls'[p], levels')
  BY DEF InWork, Works
<1>2. ASSUME NEW p
      PROVE  Followed(p)' <=> Traced(walkstack'[p], calls'[p], now', latencylist'[p], measured'[p], line'[p])
  BY DEF Followed, Traced, Follows, Fits, UntilOf, Until, Lasts
<1>3. CallsRooted' <=> \A p \in Pids : CallsBelow(calls'[p], now')
  BY DEF CallsRooted, CallsBelow
<1> QED
  BY <1>1, <1>2, <1>3

\* What IInv says until a page has failed.
Kept == /\ Typed /\ TimesKept /\ CallsRooted /\ AllMeasured
        /\ TopRooted /\ TopHasParents
        /\ \A p \in Pids : InWork(p) /\ (line[p] # "missing" => Followed(p))

\* A thread makes a step: cs, tree, ms, ls and ln are what it has then.
LEMMA ThreadStep ==
  ASSUME Kept, NEW p \in Pids, NEW cs \in Seq(Calls), NEW tree \in Seq(Nodes),
         NEW ms \in Latencies, NEW ls \in Latencies, NEW ln \in {"yet", "written", "missing"},
         now' = now + 1,
         calls' = [calls EXCEPT ![p] = cs],
         walkstack' = [walkstack EXCEPT ![p] = tree],
         measured' = [measured EXCEPT ![p] = ms],
         latencylist' = [latencylist EXCEPT ![p] = ls],
         line' = [line EXCEPT ![p] = ln],
         levels \subseteq levels', levels' \in SUBSET (Names \X Nat),
         stacklist' \in [Pids -> Seq(Seq(Nodes))],
         STACKLIST' \in Seq(Seq(Nodes)), LATENCYLIST' \in Latencies, STACKTOP' \in Seq(Nodes),
         spent' \in [Names -> Nat], folded' \in BOOLEAN,
         TimesKept', TopRooted', TopHasParents',
         CallsBelow(cs, now + 1), Range(ms) \subseteq Range(ls),
         Works(tree, cs, levels'),
         ln # "missing" => Traced(tree, cs, now + 1, ls, ms, ln)
  PROVE  Kept'
<1>1. /\ calls \in [Pids -> Seq(Calls)] /\ now \in Nat /\ walkstack \in [Pids -> Seq(Nodes)]
      /\ latencylist \in [Pids -> Latencies] /\ measured \in [Pids -> Latencies]
      /\ line \in [Pids -> {"yet", "written", "missing"}]
  BY DEF Kept, Typed
<1>2. /\ calls' \in [Pids -> Seq(Calls)] /\ now' \in Nat /\ walkstack' \in [Pids -> Seq(Nodes)]
      /\ latencylist' \in [Pids -> Latencies] /\ measured' \in [Pids -> Latencies]
      /\ line' \in [Pids -> {"yet", "written", "missing"}]
  BY <1>1
<1>3. Typed'
  BY <1>2 DEF Typed
<1>4. /\ calls'[p] = cs /\ walkstack'[p] = tree /\ latencylist'[p] = ls /\ measured'[p] = ms
      /\ line'[p] = ln
  BY <1>1
<1>5. \A q \in Pids \ {p} :
        /\ calls'[q] = calls[q] /\ walkstack'[q] = walkstack[q] /\ line'[q] = line[q]
        /\ latencylist'[q] = latencylist[q] /\ measured'[q] = measured[q]
  BY <1>1
<1>6. ASSUME NEW q \in Pids PROVE CallsBelow(calls'[q], now')
  <2>1. CASE q = p
    BY <1>4, <2>1
  <2>2. CASE q # p
    <3>1. CallsBelow(calls[q], now)
      BY WorksIs DEF Kept
    <3>2. calls[q] \in Seq(Calls)
      BY <1>1
    <3>3. \A i \in DOMAIN calls[q] : calls[q][i].at \in Nat
      BY <3>2, CallFields
    <3>4. \A i \in DOMAIN calls[q] : calls[q][i].at <= now + 1
      BY <1>1, <3>1, <3>3 DEF CallsBelow
    <3>5. CallsBelow(calls[q], now + 1)
      BY <3>1, <3>4 DEF CallsBelow
    <3> QED
      BY <1>5, <2>2, <3>5
  <2> QED
    BY <2>1, <2>2
<1>7. CallsRooted'
  BY <1>6, WorksIsNext
<1>8. AllMeasured'
  <2>1. \A q \in Pids : Range(measured'[q]) \subseteq Range(latencylist'[q])
    <3> TAKE q \in Pids
    <3>1. CASE q = p
      BY <1>4, <3>1
    <3>2. CASE q # p
      BY <1>5, <3>2 DEF Kept, AllMeasured
    <3> QED
      BY <3>1, <3>2
  <2> QED
    BY <2>1 DEF AllMeasured
<1>9. ASSUME NEW q \in Pids PROVE Works(walkstack'[q], calls'[q], levels')
  <2>1. CASE q = p
    BY <1>4, <2>1
  <2>2. CASE q # p
    <3>1. Works(walkstack[q], calls[q], levels)
      BY WorksIs DEF Kept
    <3>2. Works(walkstack[q], calls[q], levels')
      BY <3>1 DEF Works
    <3> QED
      BY <1>5, <2>2, <3>2
  <2> QED
    BY <2>1, <2>2
<1>10. ASSUME NEW q \in Pids, line'[q] # "missing"
       PROVE  Traced(walkstack'[q], calls'[q], now', latencylist'[q], measured'[q], line'[q])
  <2>1. CASE q = p
    BY <1>4, <1>10, <2>1
  <2>2. CASE q # p
    <3>1. line[q] # "missing"
      BY <1>5, <1>10, <2>2
    <3>2. Traced(walkstack[q], calls[q], now, latencylist[q], measured[q], line[q])
      BY <3>1, WorksIs DEF Kept
    <3>3. walkstack[q] \in Seq(Nodes) /\ calls[q] \in Seq(Calls)
      BY <1>1
    <3>4. walkstack[q] # <<>> => Follows(walkstack[q], calls[q], now + 1)
      <4>1. walkstack[q] # <<>> => Follows(walkstack[q], calls[q], now)
        BY <3>2 DEF Traced
      <4> QED
        BY <1>1, <3>3, <4>1, FollowsLater
    <3>5. Traced(walkstack[q], calls[q], now + 1, latencylist[q], measured[q], line[q])
      BY <3>2, <3>4 DEF Traced
    <3> QED
      BY <1>5, <2>2, <3>5
  <2> QED
    BY <2>1, <2>2
<1>11. \A q \in Pids : InWork(q)' /\ ((line[q] # "missing")' => Followed(q)')
  BY <1>9, <1>10, WorksIsNext
<1> QED
  BY <1>3, <1>7, <1>8, <1>11 DEF Kept

\* A line of thread p is written or missing.
Marks(p, written) ==
  line' = [line EXCEPT ![p] = CASE written /\ @ = "yet" -> "written"
                                [] ~written /\ @ = "written" -> "missing"
                                [] OTHER -> @]

LEMMA MarksIs ==
  ASSUME line \in [Pids -> {"yet", "written", "missing"}], NEW p \in Pids,
         NEW written \in BOOLEAN, Marks(p, written)
  PROVE  /\ line' = [line EXCEPT ![p] = line'[p]]
         /\ line'[p] \in {"yet", "written", "missing"}
         /\ Gap => Gap'
         /\ line'[p] # "missing" => line[p] # "missing" /\ (written \/ line'[p] = "yet")
         /\ line'[p] = "missing" => Gap'
         /\ line'[p] = "yet" => ~written /\ line[p] = "yet"
<1> DEFINE ln == CASE written /\ line[p] = "yet" -> "written"
                   [] ~written /\ line[p] = "written" -> "missing"
                   [] OTHER -> line[p]
<1>1. line' = [line EXCEPT ![p] = ln]
  BY DEF Marks
<1>2. /\ ln \in {"yet", "written", "missing"}
      /\ ln # "missing" => line[p] # "missing" /\ (written \/ ln = "yet")
      /\ ln = "yet" => ~written /\ line[p] = "yet"
      /\ line[p] = "missing" => ln = "missing"
  <2>1. line[p] \in {"yet", "written", "missing"}
    OBVIOUS
  <2> QED
    BY <2>1
<1> HIDE DEF ln
<1>3. line'[p] = ln /\ \A q \in Pids \ {p} : line'[q] = line[q]
  BY <1>1
<1>4. ASSUME Gap PROVE Gap'
  <2>1. PICK q \in Pids : line[q] = "missing"
    BY <1>4 DEF Gap
  <2>2. line'[q] = "missing"
    BY <1>2, <1>3, <2>1
  <2> QED
    BY <2>2 DEF Gap
<1>5. line'[p] = "missing" => Gap'
  BY DEF Gap
<1> QED
  BY <1>1, <1>2, <1>3, <1>4, <1>5

\* Nothing is committed.
LEMMA TreesSame ==
  ASSUME Kept, UNCHANGED trees, Gap => Gap', levels \subseteq levels'
  PROVE  /\ state' = state /\ latencylist' = latencylist
         /\ stacklist' \in [Pids -> Seq(Seq(Nodes))]
         /\ STACKLIST' \in Seq(Seq(Nodes)) /\ LATENCYLIST' \in Latencies /\ STACKTOP' \in Seq(Nodes)
         /\ spent' \in [Names -> Nat] /\ folded' \in BOOLEAN
         /\ TimesKept' /\ TopRooted' /\ TopHasParents'
<1>1. /\ stacklist' = stacklist /\ latencylist' = latencylist /\ STACKLIST' = STACKLIST
      /\ LATENCYLIST' = LATENCYLIST /\ STACKTOP' = STACKTOP /\ state' = state
      /\ spent' = spent /\ folded' = folded
  BY DEF trees
<1>2. TimesKept'
  BY <1>1 DEF Kept, TimesKept
<1>3. Reused => Reused'
  BY DEF Reused
<1>4. TopHasParents'
  BY <1>1, <1>3 DEF Kept, TopHasParents
<1>5. TopRooted'
  BY <1>1 DEF Kept, TopRooted
<1> QED
  BY <1>1, <1>2, <1>4, <1>5 DEF Kept, Typed

\* A step of p without a tree that is complete.
LEMMA QuietStep ==
  ASSUME Kept, NEW p \in Pids, NEW written \in BOOLEAN,
         NEW cs \in Seq(Calls), NEW tree \in Seq(Nodes),
         now' = now + 1, Marks(p, written), UNCHANGED <<trees, measured>>,
         calls' = [calls EXCEPT ![p] = cs],
         walkstack' = [walkstack EXCEPT ![p] = tree],
         levels \subseteq levels', levels' \in SUBSET (Names \X Nat),
         CallsBelow(cs, now + 1), Works(tree, cs, levels'),
         line[p] # "missing" /\ (written \/ line[p] = "yet") =>
           /\ ~written => tree = <<>> /\ \A i \in DOMAIN cs : ~cs[i].written
           /\ tree # <<>> => Follows(tree, cs, now + 1)
  PROVE  Kept'
<1>1. /\ line \in [Pids -> {"yet", "written", "missing"}]
      /\ latencylist \in [Pids -> Latencies] /\ measured \in [Pids -> Latencies]
  BY DEF Kept, Typed
<1>2. /\ line' = [line EXCEPT ![p] = line'[p]]
      /\ line'[p] \in {"yet", "written", "missing"}
      /\ Gap => Gap'
      /\ line'[p] # "missing" => line[p] # "missing" /\ (written \/ line'[p] = "yet")
      /\ line'[p] = "yet" => ~written /\ line[p] = "yet"
  BY <1>1, MarksIs
<1>3. /\ latencylist' = latencylist
      /\ stacklist' \in [Pids -> Seq(Seq(Nodes))]
      /\ STACKLIST' \in Seq(Seq(Nodes)) /\ LATENCYLIST' \in Latencies /\ STACKTOP' \in Seq(Nodes)
      /\ spent' \in [Names -> Nat] /\ folded' \in BOOLEAN
      /\ TimesKept' /\ TopRooted' /\ TopHasParents'
  BY <1>2, TreesSame
<1> DEFINE ms == measured[p]
           ls == latencylist[p]
           ln == line'[p]
<1>4. /\ ms \in Latencies /\ ls \in Latencies /\ ln \in {"yet", "written", "missing"}
      /\ measured' = [measured EXCEPT ![p] = ms]
      /\ latencylist' = [latencylist EXCEPT ![p] = ls]
      /\ line' = [line EXCEPT ![p] = ln]
  BY <1>1, <1>2, <1>3
<1>5. Range(ms) \subseteq Range(ls)
  BY DEF Kept, AllMeasured
<1>6. ASSUME ln # "missing" PROVE Traced(tree, cs, now + 1, ls, ms, ln)
  <2>1. line[p] # "missing" /\ (written \/ line[p] = "yet")
    BY <1>2, <1>6
  <2>2. ls = ms
    BY <2>1, WorksIs DEF Kept, Traced
  <2>3. ln = "yet" => tree = <<>> /\ \A i \in DOMAIN cs : ~cs[i].written
    BY <1>2, <2>1
  <2>4. tree # <<>> => Follows(tree, cs, now + 1)
    BY <2>1
  <2> QED
    BY <2>2, <2>3, <2>4 DEF Traced
<1> HIDE DEF ms, ls, ln
<1> QED
  BY <1>3, <1>4, <1>5, <1>6, ThreadStep

\* The last call in progress of p is over: tree is complete, unless lines of it are
\* missing, and ms are then the calls measured.
LEMMA CommitStep ==
  ASSUME Kept, state = "reading", NEW p \in Pids, NEW tree, Complete(tree), NEW ms,
         now' = now + 1, Marks(p, TRUE), Commit(p, tree),
         calls' = [calls EXCEPT ![p] = <<>>],
         measured' = [measured EXCEPT ![p] = ms],
         levels \subseteq levels', levels' \in SUBSET (Names \X Nat),
         \A i \in DOMAIN tree : <<tree[i].name, tree[i].depth>> \in levels',
         \/ ms = measured[p]
         \/ ms = Append(measured[p], <<tree[1].calltime, tree[1].duration>>),
         line[p] # "missing" =>
           /\ ms = Append(measured[p], <<tree[1].calltime, tree[1].duration>>)
           /\ HasParents(tree) /\ Covers(tree)
           /\ \A i \in 1..Len(tree) : tree[i].duration # NoTime
  PROVE  /\ state' = "raised" => NeverRaises'
         /\ state' # "raised" => Kept'
<1> DEFINE y == <<tree[1].calltime, tree[1].duration>>
           ls == Append(latencylist[p], y)
           ln == line'[p]
<1>1. /\ Typed /\ line \in [Pids -> {"yet", "written", "missing"}]
      /\ latencylist \in [Pids -> Latencies] /\ measured \in [Pids -> Latencies]
      /\ latencylist[p] \in Latencies /\ measured[p] \in Latencies
      /\ TimesKept /\ TopRooted /\ TopHasParents
  BY DEF Kept, Typed
<1>2. /\ line' = [line EXCEPT ![p] = ln] /\ ln \in {"yet", "written", "missing"}
      /\ Gap => Gap'
      /\ ln # "missing" => line[p] # "missing"
      /\ ln = "missing" => Gap'
      /\ ln # "yet"
  BY <1>1, MarksIs
<1>3. /\ walkstack' = [walkstack EXCEPT ![p] = <<>>]
      /\ latencylist' = [latencylist EXCEPT ![p] = ls]
      /\ y \in Nat \X Nat
      /\ LATENCYLIST' \in Latencies
      /\ spent' \in [Names -> Nat] /\ folded' \in BOOLEAN
      /\ state' # "raised" => /\ stacklist' \in [Pids -> Seq(Seq(Nodes))]
                              /\ STACKLIST' \in Seq(Seq(Nodes)) /\ STACKTOP' \in Seq(Nodes)
      /\ (\A i \in 1..Len(tree) : tree[i].duration # NoTime) => state' = state
  BY <1>1, CommitTypes
<1>4. ASSUME line[p] = "missing" PROVE Gap'
  BY <1>2, <1>4
<1>5. ASSUME state' = "raised" PROVE NeverRaises'
  <2>1. line[p] = "missing"
    BY <1>3, <1>5
  <2> QED
    BY <1>4, <2>1 DEF NeverRaises
<1>6. ASSUME state' # "raised" PROVE Kept'
  <2>1. /\ TopRooted'
        /\ HasParents(STACKTOP) /\ HasParents(tree) /\ OneDepth(tree) => HasParents(STACKTOP')
        /\ (Gap => Gap') /\ (~Gap' => Covers(tree)) => TimesKept'
    BY <1>1, <1>6, CommitTimes
  <2>2. TimesKept'
    BY <1>2, <1>4, <2>1
  <2>3. TopHasParents'
    <3> SUFFICES ASSUME ~Gap', ~Reused' PROVE HasParents(STACKTOP')
      BY DEF TopHasParents
    <3>1. ~Reused
      BY DEF Reused
    <3>2. HasParents(STACKTOP)
      BY <1>1, <1>2, <3>1 DEF TopHasParents
    <3>3. HasParents(tree)
      BY <1>4
    <3>4. OneDepth(tree)
      BY DEF Reused, OneDepth
    <3> QED
      BY <2>1, <3>2, <3>3, <3>4
  <2>4. <<>> \in Seq(Calls) /\ <<>> \in Seq(Nodes)
    OBVIOUS
  <2>5. /\ ls \in Latencies /\ Range(ls) = Range(latencylist[p]) \cup {y}
        /\ Append(measured[p], y) \in Latencies
        /\ Range(Append(measured[p], y)) = Range(measured[p]) \cup {y}
    <3> HIDE DEF y
    <3>1. \A s \in Latencies : /\ Append(s, y) \in Latencies
                               /\ Range(Append(s, y)) = Range(s) \cup {y}
      <4> TAKE s \in Latencies
      <4> DEFINE a == Append(s, y)
      <4>1. /\ Len(s) \in Nat /\ DOMAIN s = 1..Len(s) /\ DOMAIN a = 1..Len(s) + 1
            /\ \A i \in 1..Len(s) : a[i] = s[i]
            /\ a[Len(s) + 1] = y /\ a \in Latencies
        BY <1>3, AppendIs DEF Latencies
      <4> HIDE DEF a
      <4>2. Range(a) = Range(s) \cup {y}
        <5>1. \A i \in 1..Len(s) + 1 : i \in 1..Len(s) \/ i = Len(s) + 1
          BY <4>1
        <5>2. \A i \in 1..Len(s) : i \in 1..Len(s) + 1
          BY <4>1
        <5>3. Len(s) + 1 \in 1..Len(s) + 1
          BY <4>1
        <5> QED
          BY <4>1, <5>1, <5>2, <5>3 DEF Range
      <4> QED
        BY <4>1, <4>2 DEF a
    <3> QED
      BY <1>1, <3>1
  <2>6. ms \in Latencies /\ Range(ms) \subseteq Range(ls)
    <3>1. Range(measured[p]) \subseteq Range(latencylist[p])
      BY DEF Kept, AllMeasured
    <3>2. ms = measured[p] \/ ms = Append(measured[p], y)
      OBVIOUS
    <3> HIDE DEF y, ls
    <3> QED
      BY <1>1, <2>5, <3>1, <3>2
  <2>7. CallsBelow(<<>>, now + 1)
    BY DEF CallsBelow
  <2>8. Works(<<>>, <<>>, levels')
    BY DEF Works, Rooted, Unfolded
  <2>9. ASSUME ln # "missing" PROVE Traced(<<>>, <<>>, now + 1, ls, ms, ln)
    <3>1. line[p] # "missing"
      BY <1>2, <2>9
    <3>2. latencylist[p] = measured[p]
      BY <3>1, WorksIs DEF Kept, Traced
    <3>3. ls = ms
      BY <3>1, <3>2
    <3> QED
      BY <1>2, <3>3 DEF Traced
  <2> HIDE DEF ls, ln, y
  <2> QED
    BY <1>2, <1>3, <1>6, <2>1, <2>2, <2>3, <2>4, <2>5, <2>6, <2>7, <2>8, <2>9, ThreadStep
<1> QED
  BY <1>5, <1>6

-----------------------------------------------------------------------------
(* The actions                                                             *)

LEMMA NodeIs ==
  ASSUME NEW n \in Names, NEW depth \in Nat, NEW at \in Nat
  PROVE  /\ LET x == Node(n, depth, at, NoTime)
            IN  /\ x \in Nodes /\ x.name = n /\ x.depth = depth /\ x.calltime = at
                /\ x.duration = NoTime /\ x.sumtime = 0
         /\ LET x == Node(n, depth, at, 1)
            IN  /\ x \in Nodes /\ x.name = n /\ x.depth = depth /\ x.calltime = at
                /\ x.duration = 1 /\ x.sumtime = 1
BY DEF Node, Nodes, NoTime

\* A tree of one call.
LEMMA FirstCall ==
  ASSUME NEW x \in Nodes, x.name = Root, x.depth = 0,
         x.sumtime = IF x.duration = NoTime THEN 0 ELSE x.duration,
         NEW lv, <<Root, 0>> \in lv
  PROVE  LET t == <<x>>
         IN  /\ t \in Seq(Nodes) /\ t # <<>> /\ t[1] = x /\ Len(t) = 1 /\ DOMAIN t = {1}
             /\ Rooted(t) /\ Unfolded(t)
             /\ \A i \in DOMAIN t : <<t[i].name, t[i].depth>> \in lv
<1> DEFINE t == <<x>>
<1>1. t \in Seq(Nodes) /\ t # <<>> /\ t[1] = x /\ Len(t) = 1 /\ DOMAIN t = {1}
  OBVIOUS
<1> HIDE DEF t
<1>2. Rooted(t) /\ Unfolded(t)
  BY <1>1 DEF Rooted, Unfolded
<1>3. \A i \in DOMAIN t : <<t[i].name, t[i].depth>> \in lv
  BY <1>1
<1> QED
  BY <1>1, <1>2, <1>3 DEF t

\* A call below others.
LEMMA InnerCall ==
  ASSUME NEW tree \in Seq(Nodes), tree # <<>>, NEW cs, NEW lv, Works(tree, cs, lv),
         NEW x \in Nodes, x.name # Root, x.depth # 0,
         x.sumtime = IF x.duration = NoTime THEN 0 ELSE x.duration,
         NEW lw, lv \subseteq lw, <<x.name, x.depth>> \in lw,
         NEW es, es # <<>> => cs # <<>> /\ es[1] = cs[1]
  PROVE  Append(tree, x) \in Seq(Nodes) /\ Works(Append(tree, x), es, lw)
<1> DEFINE t == Append(tree, x)
           m == Len(tree)
<1>1. /\ m \in Nat /\ m >= 1 /\ DOMAIN t = 1..m + 1 /\ DOMAIN tree = 1..m
      /\ \A i \in 1..m : t[i] = tree[i]
      /\ t[m + 1] = x /\ t \in Seq(Nodes)
  <2>1. m >= 1
    OBVIOUS
  <2> QED
    BY <2>1, AppendIs
<1>2. /\ Rooted(tree) /\ Unfolded(tree)
      /\ \A i \in DOMAIN tree : <<tree[i].name, tree[i].depth>> \in lv
      /\ tree[1].duration = NoTime
      /\ cs # <<>> /\ cs[1].written => tree[1].calltime = cs[1].at
  BY DEF Works
<1> HIDE DEF t, m
<1>3. \A i \in DOMAIN t : \/ i \in 1..m /\ t[i] = tree[i]
                          \/ i = m + 1 /\ i # 1 /\ t[i] = x
  BY <1>1
<1>4. 1 \in 1..m /\ t[1] = tree[1] /\ t # <<>>
  BY <1>1
<1>5. Rooted(t)
  <2> SUFFICES ASSUME NEW i \in DOMAIN t
               PROVE  (t[i].name = Root <=> i = 1) /\ (t[i].depth = 0 <=> i = 1)
    BY DEF Rooted
  <2> QED
    BY <1>1, <1>2, <1>3 DEF Rooted
<1>6. Unfolded(t)
  BY <1>1, <1>2, <1>3 DEF Unfolded
<1>7. \A i \in DOMAIN t : <<t[i].name, t[i].depth>> \in lw
  BY <1>1, <1>2, <1>3
<1>8. Works(t, es, lw)
  BY <1>2, <1>4, <1>5, <1>6, <1>7 DEF Works
<1> QED
  BY <1>1, <1>8 DEF t

\* Who calls whom.
LEMMA CallableIs ==
  ASSUME NEW p \in Pids, NEW n \in Callable(p)
  PROVE  n \in Names /\ (n = Root <=> Len(calls[p]) = 0)
BY NamesAssumption DEF Callable, Depth, Names

LEMMA SeenIs ==
  ASSUME NEW n \in Names, NEW depth \in Nat, NEW written \in BOOLEAN,
         levels \in SUBSET (Names \X Nat), Seen(written, n, depth)
  PROVE  /\ levels \subseteq levels' /\ levels' \in SUBSET (Names \X Nat)
         /\ written => <<n, depth>> \in levels'
<1>1. <<n, depth>> \in Names \X Nat
  OBVIOUS
<1> DEFINE y == <<n, depth>>
<1>2. levels' = IF written THEN levels \cup {y} ELSE levels
  BY DEF Seen
<1> HIDE DEF y
<1>3. y \in Names \X Nat
  BY <1>1 DEF y
<1>4. /\ levels \subseteq levels' /\ levels' \in SUBSET (Names \X Nat)
      /\ written => y \in levels'
  BY <1>2, <1>3
<1> QED
  BY <1>4 DEF y

\* The calls in progress with a new one.
LEMMA CallsMore ==
  ASSUME NEW cs \in Seq(Calls), NEW c \in Calls, NEW time \in Nat, CallsBelow(cs, time),
         c.name = Root <=> Len(cs) = 0, c.at = time + 1
  PROVE  LET es == Append(cs, c)
         IN  /\ es \in Seq(Calls) /\ es # <<>> /\ CallsBelow(es, time + 1)
             /\ IF cs = <<>> THEN es = <<c>> /\ es[1] = c ELSE es[1] = cs[1]
             /\ (\A i \in DOMAIN cs : ~cs[i].written) /\ ~c.written =>
                  \A i \in DOMAIN es : ~es[i].written
<1> DEFINE es == Append(cs, c)
           m == Len(cs)
<1>1. /\ m \in Nat /\ DOMAIN es = 1..m + 1 /\ DOMAIN cs = 1..m
      /\ \A i \in 1..m : es[i] = cs[i] /\ cs[i].at \in Nat
      /\ es[m + 1] = c /\ es \in Seq(Calls)
  <2>1. \A i \in 1..m : cs[i].at \in Nat
    BY CallFields
  <2> QED
    BY <2>1, AppendIs
<1>2. /\ cs = <<>> => es = <<c>> /\ es[1] = c /\ m = 0
      /\ cs # <<>> => m >= 1
  <2>1. ASSUME cs = <<>> PROVE es = <<c>> /\ es[1] = c /\ m = 0
    BY <2>1
  <2>2. ASSUME cs # <<>> PROVE m >= 1
    BY <2>2
  <2> QED
    BY <2>1, <2>2
<1> HIDE DEF es, m
<1>3. \A i \in DOMAIN es : \/ i \in 1..m /\ es[i] = cs[i]
                           \/ i = m + 1 /\ es[i] = c
  BY <1>1
<1>4. CallsBelow(es, time + 1)
  <2> SUFFICES ASSUME NEW i \in DOMAIN es
               PROVE  (es[i].name = Root <=> i = 1) /\ es[i].at <= time + 1
    BY DEF CallsBelow
  <2>1. CASE i \in 1..m /\ es[i] = cs[i]
    <3>1. (cs[i].name = Root <=> i = 1) /\ cs[i].at <= time /\ cs[i].at \in Nat
      BY <1>1, <2>1 DEF CallsBelow
    <3> QED
      BY <2>1, <3>1
  <2>2. CASE i = m + 1 /\ es[i] = c
    BY <1>1, <2>2 DEF m
  <2> QED
    BY <1>3, <2>1, <2>2
<1>5. es # <<>> /\ (cs # <<>> => es[1] = cs[1])
  <2>1. 1 \in 1..m + 1 /\ (m >= 1 => 1 \in 1..m)
    BY <1>1
  <2> QED
    BY <1>1, <1>2, <2>1
<1>6. (\A i \in DOMAIN cs : ~cs[i].written) /\ ~c.written => \A i \in DOMAIN es : ~es[i].written
  BY <1>1, <1>3
<1> QED
  BY <1>1, <1>2, <1>4, <1>5, <1>6 DEF es

LEMMA EnterKeeps ==
  ASSUME Kept, NEW p \in Pids, Enter(p)
  PROVE  state' = state /\ Kept'
<1> DEFINE D == Len(calls[p])
           cs == calls[p]
           old == walkstack[p]
<1>1. PICK n \in Callable(p), written \in BOOLEAN :
        /\ Line(p, written, Add(p, Node(n, D, now + 1, NoTime)))
        /\ Seen(written, n, D)
        /\ calls' = [calls EXCEPT ![p] = Append(@, [name |-> n, at |-> now + 1, written |-> written])]
        /\ UNCHANGED measured
  BY DEF Enter, Depth
<1> DEFINE x == Node(n, D, now + 1, NoTime)
           c == [name |-> n, at |-> now + 1, written |-> written]
           es == Append(cs, c)
           tree == IF ~written THEN old
                   ELSE IF D = 0 THEN <<x>> ELSE IF old = <<>> THEN <<>> ELSE Append(old, x)
<1>2. /\ calls \in [Pids -> Seq(Calls)] /\ walkstack \in [Pids -> Seq(Nodes)]
      /\ cs \in Seq(Calls) /\ old \in Seq(Nodes) /\ now \in Nat /\ now + 1 \in Nat /\ D \in Nat
      /\ levels \in SUBSET (Names \X Nat)
  BY DEF Kept, Typed
<1>3. n \in Names /\ (n = Root <=> D = 0)
  BY CallableIs
<1>4. /\ levels \subseteq levels' /\ levels' \in SUBSET (Names \X Nat)
      /\ written => <<n, D>> \in levels'
  BY <1>1, <1>2, <1>3, SeenIs
<1>5. /\ x \in Nodes /\ x.name = n /\ x.depth = D /\ x.calltime = now + 1
      /\ x.duration = NoTime /\ x.sumtime = 0
  <2> DEFINE at == now + 1
  <2>1. at \in Nat
    BY <1>2
  <2> HIDE DEF D, at
  <2>2. n \in Names /\ D \in Nat
    BY <1>2, <1>3
  <2> QED
    BY <2>1, <2>2, NodeIs DEF at
<1>6. c \in Calls /\ c.name = n /\ c.at = now + 1 /\ c.written = written
  BY <1>2, <1>3 DEF Calls
<1>7. /\ now' = now + 1 /\ Marks(p, written)
      /\ IF written THEN Add(p, x) ELSE UNCHANGED <<walkstack, trees>>
  BY <1>1 DEF Line, Marks
<1>8. calls' = [calls EXCEPT ![p] = es] /\ UNCHANGED measured
  BY <1>1
<1> HIDE DEF x, c
<1>9. walkstack' = [walkstack EXCEPT ![p] = tree] /\ UNCHANGED trees
  <2>1. CASE ~written
    BY <1>2, <1>7, <2>1
  <2>2. CASE written
    BY <1>2, <1>5, <1>7, <2>2 DEF Add
  <2> QED
    BY <2>1, <2>2
<1>10. /\ Works(old, cs, levels) /\ CallsBelow(cs, now)
       /\ line[p] # "missing" => /\ line[p] = "yet" => /\ old = <<>>
                                                       /\ \A i \in DOMAIN cs : ~cs[i].written
                                 /\ old # <<>> => Follows(old, cs, now)
  BY WorksIs DEF Kept, Traced
<1> HIDE DEF cs, old
<1>11. /\ es \in Seq(Calls) /\ es # <<>> /\ CallsBelow(es, now + 1)
       /\ IF cs = <<>> THEN es = <<c>> /\ es[1] = c ELSE es[1] = cs[1]
       /\ (\A i \in DOMAIN cs : ~cs[i].written) /\ ~c.written =>
            \A i \in DOMAIN es : ~es[i].written
  BY <1>2, <1>3, <1>6, <1>10, CallsMore DEF cs
<1>12. D = 0 <=> cs = <<>>
  BY <1>2 DEF cs
<1> HIDE DEF es, D
<1>13. /\ tree \in Seq(Nodes) /\ Works(tree, es, levels')
       /\ line[p] # "missing" /\ (written \/ line[p] = "yet") =>
            /\ ~written => tree = <<>> /\ \A i \in DOMAIN es : ~es[i].written
            /\ tree # <<>> => Follows(tree, es, now + 1)
  <2>1. CASE ~written
    <3>1. tree = old
      BY <2>1
    <3>2. Works(old, es, levels')
      BY <1>4, <1>6, <1>10, <1>11, <2>1 DEF Works
    <3> HIDE DEF tree
    <3>3. line[p] = "yet" => old = <<>> /\ \A i \in DOMAIN es : ~es[i].written
      BY <1>6, <1>10, <1>11, <2>1
    <3> QED
      BY <1>2, <2>1, <3>1, <3>2, <3>3
  <2>2. CASE written /\ D = 0
    <3>1. tree = <<x>>
      BY <2>2
    <3>2. x.name = Root /\ <<Root, 0>> \in levels'
      BY <1>3, <1>4, <1>5, <2>2
    <3>3. /\ <<x>> \in Seq(Nodes) /\ <<x>> # <<>> /\ <<x>>[1] = x
          /\ Rooted(<<x>>) /\ Unfolded(<<x>>)
          /\ \A i \in DOMAIN <<x>> : <<(<<x>>)[i].name, (<<x>>)[i].depth>> \in levels'
      BY <1>5, <2>2, <3>2, FirstCall
    <3>4. es = <<c>> /\ es[1] = c
      BY <1>11, <1>12, <2>2
    <3>5. Works(<<x>>, es, levels')
      BY <1>5, <1>6, <3>3, <3>4 DEF Works
    <3>6. Follows(<<x>>, <<c>>, c.at)
      BY <1>5, <1>6, <2>2, FollowsFirst
    <3> HIDE DEF tree
    <3> QED
      BY <1>6, <2>2, <3>1, <3>3, <3>4, <3>5, <3>6
  <2>3. CASE written /\ D # 0 /\ old = <<>>
    <3>1. tree = <<>> /\ tree \in Seq(Nodes)
      BY <2>3
    <3>2. Works(<<>>, es, levels')
      BY <1>10, <1>11, <1>12, <2>3 DEF Works, Rooted, Unfolded
    <3> HIDE DEF tree
    <3> QED
      BY <2>3, <3>1, <3>2
  <2>4. CASE written /\ D # 0 /\ old # <<>>
    <3>1. tree = Append(old, x)
      BY <2>4
    <3> HIDE DEF tree
    <3>2. x.name # Root /\ <<x.name, x.depth>> \in levels'
      BY <1>3, <1>4, <1>5, <2>4
    <3>3. cs # <<>> /\ es[1] = cs[1]
      BY <1>11, <1>12, <2>4
    <3>4. tree \in Seq(Nodes) /\ Works(tree, es, levels')
      BY <1>2, <1>4, <1>5, <1>10, <2>4, <3>1, <3>2, <3>3, InnerCall
    <3>5. ASSUME line[p] # "missing" PROVE Follows(tree, es, now + 1)
      <4>1. Follows(old, cs, now)
        BY <1>10, <2>4, <3>5
      <4>2. \A i \in DOMAIN cs : cs[i].at <= now
        BY <1>10 DEF CallsBelow
      <4>3. c.written = TRUE /\ es = Append(cs, c)
        BY <1>6, <2>4 DEF es
      <4>4. x.depth = Len(cs)
        BY <1>5 DEF D, cs
      <4> QED
        BY <1>2, <1>5, <1>6, <1>11, <2>4, <3>1, <4>1, <4>2, <4>3, <4>4, FollowsCall
    <3> QED
      BY <2>4, <3>4, <3>5
  <2> QED
    BY <2>1, <2>2, <2>3, <2>4
<1> HIDE DEF tree
<1>14. Kept'
  BY <1>4, <1>7, <1>8, <1>9, <1>11, <1>13, QuietStep
<1>15. state' = state
  BY <1>9 DEF trees
<1> QED
  BY <1>14, <1>15

LEMMA LeafKeeps ==
  ASSUME Kept, state = "reading", NEW p \in Pids, Leaf(p)
  PROVE  /\ state' = "raised" => NeverRaises'
         /\ state' # "raised" => Kept'
<1> DEFINE D == Len(calls[p])
           cs == calls[p]
           old == walkstack[p]
<1>1. PICK n \in Callable(p), written \in BOOLEAN :
        /\ Line(p, written, Add(p, Node(n, D, now + 1, 1)))
        /\ Seen(written, n, D)
        /\ measured' = [measured EXCEPT ![p] = IF written /\ n = Root THEN Append(@, <<now + 1, 1>>) ELSE @]
        /\ UNCHANGED calls
  BY DEF Leaf, Depth
<1> DEFINE x == Node(n, D, now + 1, 1)
<1>2. /\ calls \in [Pids -> Seq(Calls)] /\ walkstack \in [Pids -> Seq(Nodes)]
      /\ cs \in Seq(Calls) /\ old \in Seq(Nodes) /\ now \in Nat /\ now + 1 \in Nat /\ D \in Nat
      /\ levels \in SUBSET (Names \X Nat) /\ measured \in [Pids -> Latencies]
  BY DEF Kept, Typed
<1>3. n \in Names /\ (n = Root <=> D = 0)
  BY CallableIs
<1>4. /\ levels \subseteq levels' /\ levels' \in SUBSET (Names \X Nat)
      /\ written => <<n, D>> \in levels'
  BY <1>1, <1>2, <1>3, SeenIs
<1>5. /\ x \in Nodes /\ x.name = n /\ x.depth = D /\ x.calltime = now + 1
      /\ x.duration = 1 /\ x.sumtime = 1
  <2> DEFINE at == now + 1
  <2>1. at \in Nat
    BY <1>2
  <2> HIDE DEF D, at
  <2>2. n \in Names /\ D \in Nat
    BY <1>2, <1>3
  <2> QED
    BY <2>1, <2>2, NodeIs DEF at
<1>6. x.duration # NoTime /\ x.sumtime = IF x.duration = NoTime THEN 0 ELSE x.duration
  BY <1>5 DEF NoTime
<1>7. /\ now' = now + 1 /\ Marks(p, written)
      /\ IF written THEN Add(p, x) ELSE UNCHANGED <<walkstack, trees>>
  BY <1>1 DEF Line, Marks
<1>8. calls' = [calls EXCEPT ![p] = cs]
  BY <1>1, <1>2
<1>9. /\ Works(old, cs, levels) /\ CallsBelow(cs, now)
      /\ line[p] # "missing" => /\ line[p] = "yet" => /\ old = <<>>
                                                      /\ \A i \in DOMAIN cs : ~cs[i].written
                                /\ old # <<>> => Follows(old, cs, now)
  BY WorksIs DEF Kept, Traced
<1>10. D = 0 <=> cs = <<>>
  BY <1>2
<1>11. \A i \in DOMAIN cs : cs[i].at \in Nat
  BY <1>2, CallFields
<1> HIDE DEF x
<1>12. CASE written /\ D = 0
  <2> DEFINE tree == <<x>>
  <2>1. x.name = Root /\ <<Root, 0>> \in levels' /\ x.depth = 0
    BY <1>3, <1>4, <1>5, <1>12
  <2>2. Commit(p, tree)
    BY <1>5, <1>6, <1>7, <1>12 DEF Add
  <2>3. /\ tree \in Seq(Nodes) /\ tree # <<>> /\ tree[1] = x /\ Len(tree) = 1 /\ DOMAIN tree = {1}
        /\ Rooted(tree) /\ Unfolded(tree)
        /\ \A i \in DOMAIN tree : <<tree[i].name, tree[i].depth>> \in levels'
    BY <1>5, <1>6, <2>1, FirstCall
  <2>4. measured' = [measured EXCEPT ![p] = Append(@, <<now + 1, 1>>)]
    BY <1>1, <1>3, <1>12
  <2> DEFINE y == <<now + 1, 1>>
             ms == Append(measured[p], y)
  <2>5. measured' = [measured EXCEPT ![p] = ms]
    BY <1>2, <2>4
  <2> HIDE DEF tree, y
  <2>6. y = <<tree[1].calltime, tree[1].duration>>
    BY <1>5, <2>3 DEF y
  <2>7. Complete(tree)
    BY <1>5, <2>3 DEF Complete
  <2>8. HasParents(tree) /\ \A i \in 1..Len(tree) : tree[i].duration # NoTime
    BY <1>6, <2>1, <2>3 DEF HasParents
  <2>9. Covers(tree)
    <3>1. \A h \in 1..Len(tree) : h \notin Children(tree, 1)
      BY <2>3 DEF Children
    <3>2. Time(tree, Children(tree, 1)) = 0
      BY <2>3, <3>1, TimeOfNone
    <3> QED
      BY <1>5, <2>3, <3>2 DEF Covers
  <2>10. calls' = [calls EXCEPT ![p] = <<>>]
    BY <1>8, <1>10, <1>12
  <2>11. Marks(p, TRUE)
    BY <1>7, <1>12
  <2>12. ms = Append(measured[p], <<tree[1].calltime, tree[1].duration>>)
    BY <2>6
  <2> HIDE DEF ms
  <2> QED
    BY <1>4, <1>7, <2>2, <2>3, <2>5, <2>7, <2>8, <2>9, <2>10, <2>11, <2>12, CommitStep
<1>13. CASE ~(written /\ D = 0)
  <2> DEFINE tree == IF ~written \/ old = <<>> THEN old ELSE Append(old, x)
  <2>1. walkstack' = [walkstack EXCEPT ![p] = tree] /\ UNCHANGED trees
    <3>1. CASE ~written
      BY <1>2, <1>7, <3>1
    <3>2. CASE written
      BY <1>2, <1>5, <1>7, <1>13, <3>2 DEF Add
    <3> QED
      BY <3>1, <3>2
  <2>2. UNCHANGED measured
    BY <1>1, <1>2, <1>3, <1>13
  <2> HIDE DEF cs, old, D
  <2>3. CallsBelow(cs, now + 1)
    <3>1. \A i \in DOMAIN cs : cs[i].at <= now + 1
      BY <1>2, <1>9, <1>11 DEF CallsBelow
    <3> QED
      BY <1>9, <3>1 DEF CallsBelow
  <2>4. /\ tree \in Seq(Nodes) /\ Works(tree, cs, levels')
        /\ line[p] # "missing" /\ (written \/ line[p] = "yet") =>
             /\ ~written => tree = <<>> /\ \A i \in DOMAIN cs : ~cs[i].written
             /\ tree # <<>> => Follows(tree, cs, now + 1)
    <3>1. CASE ~written \/ old = <<>>
      <4>1. tree = old
        BY <3>1
      <4>2. Works(old, cs, levels')
        BY <1>4, <1>9 DEF Works
      <4> HIDE DEF tree
      <4> QED
        BY <1>2, <1>9, <3>1, <4>1, <4>2
    <3>2. CASE written /\ old # <<>>
      <4>1. tree = Append(old, x)
        BY <3>2
      <4> HIDE DEF tree
      <4>2. x.name # Root /\ x.depth # 0 /\ <<x.name, x.depth>> \in levels'
        BY <1>3, <1>4, <1>5, <1>13, <3>2
      <4>3. cs # <<>>
        BY <1>10, <1>13, <3>2
      <4>4. tree \in Seq(Nodes) /\ Works(tree, cs, levels')
        BY <1>2, <1>4, <1>5, <1>6, <1>9, <3>2, <4>1, <4>2, <4>3, InnerCall
      <4>5. ASSUME line[p] # "missing" PROVE Follows(tree, cs, now + 1)
        <5>1. Follows(old, cs, now)
          BY <1>9, <3>2, <4>5
        <5>2. \A i \in DOMAIN cs : cs[i].at <= now
          BY <1>9 DEF CallsBelow
        <5>3. x.depth = Len(cs)
          BY <1>5 DEF D, cs
        <5>4. cs = cs
          OBVIOUS
        <5> QED
          BY <1>2, <1>5, <3>2, <4>1, <5>1, <5>2, <5>3, <5>4, FollowsCall
      <4> QED
        BY <3>2, <4>4, <4>5
    <3> QED
      BY <3>1, <3>2
  <2>5. state' = "reading"
    BY <2>1 DEF trees
  <2> HIDE DEF tree
  <2>6. Kept'
    BY <1>2, <1>4, <1>7, <1>8, <2>1, <2>2, <2>3, <2>4, QuietStep
  <2> QED
    BY <2>5, <2>6
<1> QED
  BY <1>12, <1>13

\* The end of a call: what all trees in work are.
LEMMA EndWorks ==
  ASSUME NEW tree \in Seq(Nodes), Rooted(tree), Unfolded(tree),
         NEW lv, \A i \in DOMAIN tree : <<tree[i].name, tree[i].depth>> \in lv,
         NEW o \in 1..Len(tree), tree[o].duration = NoTime, NEW duration \in Nat
  PROVE  LET t == Ends(tree, o, duration)
         IN  /\ t \in Seq(Nodes) /\ t # <<>> /\ Rooted(t) /\ Unfolded(t)
             /\ \A i \in DOMAIN t : <<t[i].name, t[i].depth>> \in lv
             /\ t[1].calltime = tree[1].calltime
             /\ IF o = 1 THEN t[1].duration = duration ELSE t[1] = tree[1]
<1> DEFINE t == Ends(tree, o, duration)
<1>1. /\ t \in Seq(Nodes) /\ Len(t) = Len(tree) /\ DOMAIN t = 1..Len(tree)
      /\ \A i \in 1..Len(tree) :
           /\ i # o => t[i] = tree[i]
           /\ t[i].name = tree[i].name /\ t[i].depth = tree[i].depth
           /\ t[i].calltime = tree[i].calltime
      /\ t[o].duration = duration /\ t[o].sumtime = tree[o].sumtime + duration
  BY EndsIs
<1>2. Len(tree) \in Nat /\ DOMAIN tree = 1..Len(tree) /\ 1 \in 1..Len(tree)
  OBVIOUS
<1> HIDE DEF t
<1>3. t # <<>>
  BY <1>1, <1>2
<1>4. Rooted(t)
  BY <1>1, <1>2 DEF Rooted
<1>5. Unfolded(t)
  <2> SUFFICES ASSUME NEW i \in 1..Len(tree)
               PROVE  t[i].sumtime = IF t[i].duration = NoTime THEN 0 ELSE t[i].duration
    BY <1>1 DEF Unfolded
  <2>1. CASE i = o
    <3>1. tree[o].sumtime = 0
      BY <1>2 DEF Unfolded
    <3>2. t[o].sumtime = duration /\ t[o].duration = duration
      BY <1>1, <3>1
    <3>3. duration # NoTime
      BY DEF NoTime
    <3> QED
      BY <2>1, <3>2, <3>3
  <2>2. CASE i # o
    BY <1>1, <1>2, <2>2 DEF Unfolded
  <2> QED
    BY <2>1, <2>2
<1>6. \A i \in DOMAIN t : <<t[i].name, t[i].depth>> \in lv
  BY <1>1, <1>2
<1> QED
  BY <1>1, <1>2, <1>3, <1>4, <1>5, <1>6 DEF t

\* The calls in progress without the last.
LEMMA CallsFewer ==
  ASSUME NEW cs \in Seq(Calls), cs # <<>>, NEW time \in Nat, CallsBelow(cs, time)
  PROVE  /\ Front(cs) \in Seq(Calls) /\ CallsBelow(Front(cs), time + 1)
         /\ Last(cs) = cs[Len(cs)]
         /\ IF Len(cs) = 1 THEN Front(cs) = <<>> ELSE Front(cs) # <<>> /\ Front(cs)[1] = cs[1]
         /\ (\A i \in DOMAIN cs : ~cs[i].written) => \A i \in DOMAIN Front(cs) : ~Front(cs)[i].written
         /\ cs[Len(cs)].name = Root <=> Len(cs) = 1
         /\ cs[Len(cs)].at \in Nat /\ cs[Len(cs)].at <= time
<1> DEFINE rs == Front(cs)
           D == Len(cs)
<1>1. D \in Nat /\ D >= 1 /\ DOMAIN cs = 1..D /\ D \in 1..D /\ \A i \in 1..D : cs[i].at \in Nat
  <2>1. \A i \in 1..D : cs[i].at \in Nat
    BY CallFields
  <2>2. D \in Nat /\ D >= 1 /\ DOMAIN cs = 1..D
    OBVIOUS
  <2> HIDE DEF D
  <2> QED
    BY <2>1, <2>2
<1>2. rs \in Seq(Calls) /\ DOMAIN rs = 1..D - 1 /\ \A i \in 1..D - 1 : rs[i] = cs[i]
  BY DEF Front
<1>3. D = 1 => rs = <<>>
  BY DEF Front
<1>4. Last(cs) = cs[D]
  BY DEF Last
<1> HIDE DEF rs, D
<1>5. \A i \in DOMAIN rs : i \in 1..D /\ rs[i] = cs[i]
  BY <1>1, <1>2
<1>6. CallsBelow(rs, time + 1)
  <2> SUFFICES ASSUME NEW i \in DOMAIN rs
               PROVE  (rs[i].name = Root <=> i = 1) /\ rs[i].at <= time + 1
    BY DEF CallsBelow
  <2>1. (cs[i].name = Root <=> i = 1) /\ cs[i].at <= time /\ cs[i].at \in Nat
    BY <1>1, <1>5 DEF CallsBelow
  <2> QED
    BY <1>5, <2>1
<1>7. D # 1 => rs # <<>> /\ rs[1] = cs[1]
  <2> SUFFICES ASSUME D # 1 PROVE rs # <<>> /\ rs[1] = cs[1]
    OBVIOUS
  <2>1. 1 \in 1..D - 1
    BY <1>1
  <2>2. rs[1] = cs[1]
    BY <1>2, <2>1
  <2>3. rs # <<>>
    <3>1. DOMAIN rs # {}
      BY <1>2, <2>1
    <3>2. \A s : s = <<>> => DOMAIN s = {}
      OBVIOUS
    <3> QED
      BY <3>1, <3>2
  <2> QED
    BY <2>2, <2>3
<1>8. (cs[D].name = Root <=> D = 1) /\ cs[D].at \in Nat /\ cs[D].at <= time
  BY <1>1 DEF CallsBelow
<1>9. (\A i \in DOMAIN cs : ~cs[i].written) => \A i \in DOMAIN rs : ~rs[i].written
  BY <1>1, <1>5
<1> QED
  BY <1>2, <1>3, <1>4, <1>6, <1>7, <1>8, <1>9 DEF rs, D

\* The tree of p with the end of its last open call of that depth.
ReturnTree(tree, depth, duration) ==
  IF Open(tree, depth) = {} THEN tree ELSE Ends(tree, Max(Open(tree, depth)), duration)

LEMMA AddEndIs ==
  ASSUME NEW p \in Pids, NEW depth, NEW duration, AddEnd(p, depth, duration)
  PROVE  LET tree == ReturnTree(walkstack[p], depth, duration)
         IN  IF depth = 0 /\ tree # <<>> THEN Commit(p, tree)
             ELSE walkstack' = [walkstack EXCEPT ![p] = tree] /\ UNCHANGED trees
BY DEF AddEnd, ReturnTree, Ends, Ended

\* The last open call of a depth.
LEMMA OpenIs ==
  ASSUME NEW tree \in Seq(Nodes), NEW depth, Open(tree, depth) # {}
  PROVE  LET o == Max(Open(tree, depth))
         IN  o \in 1..Len(tree) /\ tree[o].depth = depth /\ tree[o].duration = NoTime
<1> DEFINE S == Open(tree, depth)
<1>1. Len(tree) \in Nat /\ DOMAIN tree = 1..Len(tree)
  OBVIOUS
<1>2. S \in SUBSET (1..Len(tree)) /\ \A o \in S : tree[o].depth = depth /\ tree[o].duration = NoTime
  BY DEF Open
<1>3. S # {}
  OBVIOUS
<1> HIDE DEF S
<1>4. Max(S) \in S
  BY <1>1, <1>2, <1>3, MaxOf
<1> QED
  BY <1>2, <1>4 DEF S

\* A tree in work after the end of a call below its first.
LEMMA ReturnWorks ==
  ASSUME NEW tree \in Seq(Nodes), NEW cs, NEW lv, Works(tree, cs, lv),
         NEW rs, rs # <<>> => cs # <<>> /\ rs[1] = cs[1],
         NEW depth \in Nat, depth # 0, NEW duration \in Nat
  PROVE  /\ ReturnTree(tree, depth, duration) \in Seq(Nodes)
         /\ Works(ReturnTree(tree, depth, duration), rs, lv)
         /\ tree = <<>> => ReturnTree(tree, depth, duration) = <<>>
<1>1. CASE Open(tree, depth) = {}
  <2>1. ReturnTree(tree, depth, duration) = tree
    BY <1>1 DEF ReturnTree
  <2>2. Works(tree, rs, lv)
    BY DEF Works
  <2> QED
    BY <2>1, <2>2
<1>2. CASE Open(tree, depth) # {}
  <2> DEFINE o == Max(Open(tree, depth))
             t == Ends(tree, o, duration)
  <2>1. ReturnTree(tree, depth, duration) = t
    BY <1>2 DEF ReturnTree
  <2>2. o \in 1..Len(tree) /\ tree[o].depth = depth /\ tree[o].duration = NoTime
    BY <1>2, OpenIs
  <2> HIDE DEF o
  <2>3. /\ Rooted(tree) /\ Unfolded(tree)
        /\ \A i \in DOMAIN tree : <<tree[i].name, tree[i].depth>> \in lv
        /\ tree # <<>> => tree[1].duration = NoTime
        /\ cs # <<>> /\ cs[1].written => tree # <<>> /\ tree[1].calltime = cs[1].at
    BY DEF Works
  <2>4. /\ t \in Seq(Nodes) /\ t # <<>> /\ Rooted(t) /\ Unfolded(t)
        /\ \A i \in DOMAIN t : <<t[i].name, t[i].depth>> \in lv
        /\ t[1].calltime = tree[1].calltime
        /\ IF o = 1 THEN t[1].duration = duration ELSE t[1] = tree[1]
    <3>1. o \in 1..Len(tree) /\ tree[o].duration = NoTime
      BY <2>2
    <3>2. /\ Rooted(tree) /\ Unfolded(tree)
          /\ \A i \in DOMAIN tree : <<tree[i].name, tree[i].depth>> \in lv
      BY <2>3
    <3> QED
      BY <3>1, <3>2, EndWorks
  <2>5. o # 1 /\ tree # <<>>
    <3>1. o \in DOMAIN tree
      BY <2>2
    <3>2. tree[o].depth = 0 <=> o = 1
      BY <2>3, <3>1 DEF Rooted
    <3> QED
      BY <2>2, <3>1, <3>2
  <2> HIDE DEF t
  <2>6. Works(t, rs, lv)
    BY <2>3, <2>4, <2>5 DEF Works
  <2> QED
    BY <2>1, <2>4, <2>5, <2>6
<1> QED
  BY <1>1, <1>2

\* The end of the first call of a tree.
LEMMA ReturnRoot ==
  ASSUME NEW tree \in Seq(Nodes), tree # <<>>, NEW cs, NEW lv, Works(tree, cs, lv),
         NEW duration \in Nat
  PROVE  LET t == ReturnTree(tree, 0, duration)
         IN  /\ Complete(t) /\ t[1].duration = duration /\ t[1].calltime = tree[1].calltime
             /\ \A i \in DOMAIN t : <<t[i].name, t[i].depth>> \in lv
<1> DEFINE o == Max(Open(tree, 0))
           t == Ends(tree, o, duration)
<1>1. /\ Rooted(tree) /\ Unfolded(tree)
      /\ \A i \in DOMAIN tree : <<tree[i].name, tree[i].depth>> \in lv
      /\ tree[1].duration = NoTime
  BY DEF Works
<1>2. 1 \in DOMAIN tree
  OBVIOUS
<1>3. 1 \in Open(tree, 0)
  BY <1>1, <1>2 DEF Rooted, Open
<1>4. o \in 1..Len(tree) /\ tree[o].depth = 0 /\ tree[o].duration = NoTime
  BY <1>3, OpenIs
<1> HIDE DEF o
<1>5. o = 1
  <2>1. o \in DOMAIN tree
    BY <1>4
  <2> QED
    BY <1>1, <1>4, <2>1 DEF Rooted
<1>6. /\ t \in Seq(Nodes) /\ t # <<>> /\ Rooted(t) /\ Unfolded(t)
      /\ \A i \in DOMAIN t : <<t[i].name, t[i].depth>> \in lv
      /\ t[1].calltime = tree[1].calltime
      /\ IF o = 1 THEN t[1].duration = duration ELSE t[1] = tree[1]
  BY <1>1, <1>4, EndWorks
<1>7. ReturnTree(tree, 0, duration) = t
  BY <1>3 DEF ReturnTree, o
<1> HIDE DEF t
<1>8. Complete(t) /\ t[1].duration = duration
  BY <1>5, <1>6 DEF Complete
<1> QED
  BY <1>6, <1>7, <1>8

\* The end of a tree that was followed: it is complete.
LEMMA FollowsEnd ==
  ASSUME NEW tree \in Seq(Nodes), Unfolded(tree), NEW cs \in Seq(Calls), NEW time \in Nat,
         \A i \in DOMAIN cs : cs[i].at <= time, Follows(tree, cs, time),
         NEW duration, duration = time + 1 - cs[Len(cs)].at
  PROVE  LET t == ReturnTree(tree, Len(cs) - 1, duration)
         IN  /\ HasParents(t)
             /\ Len(cs) = 1 => Covers(t) /\ \A i \in 1..Len(t) : t[i].duration # NoTime
<1> DEFINE o == Max(Open(tree, Len(cs) - 1))
           t == Ends(tree, o, duration)
<1>1. o = Max(Open(tree, Len(cs) - 1))
  OBVIOUS
<1> HIDE DEF o
<1>2. /\ Open(tree, Len(cs) - 1) # {} /\ o \in 1..Len(tree) /\ duration \in Nat
      /\ tree[o].depth = Len(cs) - 1 /\ tree[o].duration = NoTime
      /\ HasParents(t)
      /\ Len(cs) > 1 => Follows(t, Front(cs), time + 1)
      /\ Len(cs) = 1 => Covers(t) /\ \A i \in 1..Len(t) : t[i].duration # NoTime
  BY <1>1, FollowsReturn
<1> HIDE DEF t
<1>3. t = ReturnTree(tree, Len(cs) - 1, duration)
  BY <1>1, <1>2 DEF ReturnTree, t
<1> QED
  BY <1>2, <1>3

LEMMA ReturnKeeps ==
  ASSUME Kept, state = "reading", NEW p \in Pids, Return(p)
  PROVE  /\ state' = "raised" => NeverRaises'
         /\ state' # "raised" => Kept'
<1> DEFINE cs == calls[p]
           D == Len(cs)
           old == walkstack[p]
           call == Last(cs)
           duration == now + 1 - call.at
           rs == Front(cs)
<1>1. PICK written \in BOOLEAN :
        /\ cs # <<>>
        /\ Line(p, written, AddEnd(p, D - 1, duration))
        /\ calls' = [calls EXCEPT ![p] = Front(@)]
        /\ measured' = [measured EXCEPT ![p] =
                          IF written /\ call.written /\ call.name = Root
                          THEN Append(@, <<call.at, duration>>) ELSE @]
        /\ UNCHANGED levels
  BY DEF Return, Depth
<1>2. /\ calls \in [Pids -> Seq(Calls)] /\ walkstack \in [Pids -> Seq(Nodes)]
      /\ cs \in Seq(Calls) /\ old \in Seq(Nodes) /\ now \in Nat
      /\ levels \in SUBSET (Names \X Nat) /\ measured \in [Pids -> Latencies]
  BY DEF Kept, Typed
<1>3. levels \subseteq levels' /\ levels' \in SUBSET (Names \X Nat) /\ levels' = levels
  BY <1>1, <1>2
<1> DEFINE tree == ReturnTree(old, D - 1, duration)
<1>4. /\ now' = now + 1 /\ Marks(p, written)
      /\ IF written
         THEN IF D - 1 = 0 /\ tree # <<>> THEN Commit(p, tree)
              ELSE walkstack' = [walkstack EXCEPT ![p] = tree] /\ UNCHANGED trees
         ELSE UNCHANGED <<walkstack, trees>>
  <2>1. /\ now' = now + 1 /\ Marks(p, written)
        /\ IF written THEN AddEnd(p, D - 1, duration) ELSE UNCHANGED <<walkstack, trees>>
    BY <1>1 DEF Line, Marks
  <2> HIDE DEF duration, D
  <2> QED
    BY <2>1, AddEndIs
<1>5. calls' = [calls EXCEPT ![p] = rs] /\ cs # <<>>
  BY <1>1, <1>2
<1>6. /\ Works(old, cs, levels) /\ CallsBelow(cs, now)
      /\ line[p] # "missing" => /\ line[p] = "yet" => /\ old = <<>>
                                                      /\ \A i \in DOMAIN cs : ~cs[i].written
                                /\ old # <<>> => Follows(old, cs, now)
  BY WorksIs DEF Kept, Traced
<1> DEFINE ms == IF written /\ call.written /\ call.name = Root
                 THEN Append(measured[p], <<call.at, duration>>) ELSE measured[p]
<1>7. measured' = [measured EXCEPT ![p] = ms]
  BY <1>1, <1>2
<1> HIDE DEF cs, old, ms, tree, call, duration, rs, D
<1>8. /\ rs \in Seq(Calls) /\ CallsBelow(rs, now + 1)
      /\ call = cs[D]
      /\ IF D = 1 THEN rs = <<>> ELSE rs # <<>> /\ rs[1] = cs[1]
      /\ (\A i \in DOMAIN cs : ~cs[i].written) => \A i \in DOMAIN rs : ~rs[i].written
      /\ call.name = Root <=> D = 1
      /\ call.at \in Nat /\ call.at <= now
  BY <1>2, <1>5, <1>6, CallsFewer DEF rs, D, call
<1>9. D \in Nat /\ D >= 1 /\ D - 1 \in Nat /\ duration \in Nat
  <2>1. D \in Nat /\ D >= 1
    BY <1>2, <1>5 DEF D
  <2> DEFINE at == call.at
  <2>2. at \in Nat /\ at <= now
    BY <1>8
  <2> HIDE DEF at
  <2>3. now + 1 - at \in Nat
    BY <1>2, <2>2
  <2> QED
    BY <2>1, <2>3 DEF duration, at
<1>10. CASE written /\ D = 1 /\ old # <<>>
  <2>1. tree = ReturnTree(old, 0, duration)
    BY <1>10 DEF tree
  <2>2. /\ Complete(tree) /\ tree[1].duration = duration /\ tree[1].calltime = old[1].calltime
        /\ \A i \in DOMAIN tree : <<tree[i].name, tree[i].depth>> \in levels
    BY <1>2, <1>6, <1>9, <1>10, <2>1, ReturnRoot
  <2>3. Commit(p, tree)
    BY <1>4, <1>9, <1>10, <2>2 DEF Complete
  <2>4. Marks(p, TRUE)
    BY <1>4, <1>10
  <2>5. calls' = [calls EXCEPT ![p] = <<>>]
    BY <1>5, <1>8, <1>10
  <2>6. call = cs[1] /\ call.name = Root
    BY <1>8, <1>10
  <2>7. ms = IF call.written THEN Append(measured[p], <<tree[1].calltime, tree[1].duration>>)
             ELSE measured[p]
    <3>1. call.written => tree[1].calltime = call.at
      BY <1>5, <1>6, <2>2, <2>6 DEF Works
    <3> QED
      BY <1>10, <2>2, <2>6, <3>1 DEF ms
  <2>8. ASSUME line[p] # "missing"
        PROVE  /\ ms = Append(measured[p], <<tree[1].calltime, tree[1].duration>>)
               /\ HasParents(tree) /\ Covers(tree)
               /\ \A i \in 1..Len(tree) : tree[i].duration # NoTime
    <3>1. Follows(old, cs, now)
      BY <1>6, <1>10, <2>8
    <3>2. call.written
      BY <1>8, <1>9, <3>1 DEF Follows, D
    <3>3. \A i \in DOMAIN cs : cs[i].at <= now
      BY <1>6 DEF CallsBelow
    <3>4. Unfolded(old) /\ duration = now + 1 - cs[Len(cs)].at /\ Len(cs) = 1
      BY <1>6, <1>8, <1>10 DEF Works, duration, D
    <3>5. HasParents(tree) /\ Covers(tree) /\ \A i \in 1..Len(tree) : tree[i].duration # NoTime
      <4> DEFINE depth == Len(cs) - 1
      <4>1. LET t == ReturnTree(old, depth, duration)
            IN  /\ HasParents(t)
                /\ Len(cs) = 1 => Covers(t) /\ \A i \in 1..Len(t) : t[i].duration # NoTime
        BY <1>2, <3>1, <3>3, <3>4, FollowsEnd
      <4>2. depth = 0
        BY <3>4
      <4> HIDE DEF depth
      <4> QED
        BY <2>1, <3>4, <4>1, <4>2
    <3> QED
      BY <2>7, <3>2, <3>5
  <2>9. \/ ms = measured[p]
        \/ ms = Append(measured[p], <<tree[1].calltime, tree[1].duration>>)
    BY <2>7
  <2> QED
    BY <1>3, <1>4, <1>7, <2>2, <2>3, <2>4, <2>5, <2>8, <2>9, CommitStep
<1>11. CASE ~(written /\ D = 1 /\ old # <<>>)
  <2> DEFINE new == IF written THEN tree ELSE old
  <2>1. D = 1 /\ old = <<>> => tree = <<>>
    <3>1. old = <<>> => Open(old, D - 1) = {}
      BY DEF Open
    <3> QED
      BY <3>1 DEF tree, ReturnTree
  <2>2. walkstack' = [walkstack EXCEPT ![p] = new] /\ UNCHANGED trees
    <3>1. CASE written
      <4>1. ~(D - 1 = 0 /\ tree # <<>>)
        BY <1>9, <1>11, <2>1, <3>1
      <4> QED
        BY <1>4, <3>1, <4>1
    <3>2. CASE ~written
      BY <1>2, <1>4, <3>2 DEF old
    <3> QED
      BY <3>1, <3>2
  <2>3. ms = measured[p]
    <3>1. CASE D # 1 \/ ~written
      BY <1>8, <3>1 DEF ms
    <3>2. CASE D = 1 /\ old = <<>>
      <4>1. ~call.written
        BY <1>5, <1>6, <1>8, <3>2 DEF Works
      <4> QED
        BY <4>1 DEF ms
    <3> QED
      BY <1>11, <3>1, <3>2
  <2>4. UNCHANGED measured
    BY <1>2, <1>7, <2>3
  <2>5. rs # <<>> => cs # <<>> /\ rs[1] = cs[1]
    BY <1>5, <1>8
  <2>6. /\ new \in Seq(Nodes) /\ Works(new, rs, levels')
        /\ line[p] # "missing" /\ (written \/ line[p] = "yet") =>
             /\ ~written => new = <<>> /\ \A i \in DOMAIN rs : ~rs[i].written
             /\ new # <<>> => Follows(new, rs, now + 1)
    <3>1. CASE ~written
      <4>1. new = old
        BY <3>1
      <4>2. Works(old, rs, levels')
        BY <1>3, <1>6, <2>5 DEF Works
      <4> HIDE DEF new
      <4> QED
        BY <1>2, <1>6, <1>8, <3>1, <4>1, <4>2
    <3>2. CASE written /\ D = 1
      <4>1. new = <<>> /\ new \in Seq(Nodes) /\ rs = <<>>
        BY <1>8, <1>11, <2>1, <3>2
      <4> HIDE DEF new
      <4>2. Works(new, rs, levels')
        BY <4>1 DEF Works, Rooted, Unfolded
      <4> QED
        BY <3>2, <4>1, <4>2
    <3>3. CASE written /\ D # 1
      <4>1. new = tree
        BY <3>3
      <4> HIDE DEF new
      <4>2. D - 1 # 0
        BY <1>9, <3>3
      <4>3. tree \in Seq(Nodes) /\ Works(tree, rs, levels) /\ (old = <<>> => tree = <<>>)
        <5> DEFINE depth == D - 1
        <5>1. depth \in Nat /\ depth # 0
          BY <1>9, <4>2
        <5> HIDE DEF depth
        <5>2. LET t == ReturnTree(old, depth, duration)
              IN  t \in Seq(Nodes) /\ Works(t, rs, levels) /\ (old = <<>> => t = <<>>)
          BY <1>2, <1>6, <1>9, <2>5, <5>1, ReturnWorks
        <5> QED
          BY <5>2 DEF tree, depth
      <4>4. ASSUME line[p] # "missing", old # <<>> PROVE Follows(tree, rs, now + 1)
        <5>1. Follows(old, cs, now)
          BY <1>6, <4>4
        <5>2. \A i \in DOMAIN cs : cs[i].at <= now
          BY <1>6 DEF CallsBelow
        <5>3. Unfolded(old) /\ duration = now + 1 - cs[Len(cs)].at
          BY <1>6, <1>8 DEF Works, duration, D
        <5>4. Len(cs) > 1
          <6>1. D \in Nat /\ D >= 1 /\ D # 1
            BY <1>9, <3>3
          <6>2. D > 1
            BY <6>1
          <6> QED
            BY <6>2 DEF D
        <5> DEFINE o == Max(Open(old, Len(cs) - 1))
                   t == Ends(old, o, duration)
        <5>5. Open(old, Len(cs) - 1) # {} /\ Follows(t, Front(cs), now + 1)
          BY <1>2, <5>1, <5>2, <5>3, <5>4, FollowsReturn
        <5>6. tree = t
          BY <5>5 DEF tree, ReturnTree, D
        <5> QED
          BY <5>5, <5>6 DEF rs
      <4> QED
        BY <1>3, <3>3, <4>1, <4>3, <4>4
    <3> QED
      BY <3>1, <3>2, <3>3
  <2>7. state' = "reading"
    BY <2>2 DEF trees
  <2> HIDE DEF new
  <2>8. Kept'
    BY <1>3, <1>4, <1>5, <1>8, <2>2, <2>4, <2>6, QuietStep
  <2> QED
    BY <2>7, <2>8
<1> QED
  BY <1>10, <1>11

\* Calls that end in the order in which they began have places on the heat map.
LEMMA OnTheMap ==
  ASSUME LATENCYLIST \in Latencies, LATENCYLIST # <<>>, OffTheMap
  PROVE  Overlapping
<1> DEFINE L == LATENCYLIST
           n == Len(L)
           Side(width, first, t) == IF width < 0 THEN -(t - first) ELSE t - first
<1>1. n \in Nat /\ n >= 1 /\ DOMAIN L = 1..n /\ \A i \in 1..n : L[i][1] \in Nat
  BY DEF Latencies
<1>2. Last(L) = L[n]
  BY DEF Last
<1> DEFINE first == L[1][1]
           end == Last(L)[1]
           width == end - first
<1>3. /\ width # 0
      /\ \E i \in DOMAIN L : Side(width, first, L[i][1]) * 50 <= -51 * Side(width, first, end)
  BY DEF OffTheMap, Columns
<1> SUFFICES ASSUME ~Overlapping PROVE FALSE
  OBVIOUS
<1>4. \A i, j \in DOMAIN L : i < j => ~(L[i][1] > L[j][1])
  BY DEF Overlapping
<1> HIDE DEF L, n
<1>5. \A i, j \in 1..n : i <= j => L[i][1] <= L[j][1]
  <2> SUFFICES ASSUME NEW i \in 1..n, NEW j \in 1..n, i <= j PROVE L[i][1] <= L[j][1]
    OBVIOUS
  <2>1. L[i][1] \in Nat /\ L[j][1] \in Nat
    BY <1>1
  <2>2. CASE i = j
    BY <2>1, <2>2
  <2>3. CASE i # j
    <3>1. i < j
      BY <2>3
    <3>2. ~(L[i][1] > L[j][1])
      BY <1>1, <1>4, <3>1
    <3> QED
      BY <2>1, <3>2
  <2> QED
    BY <2>2, <2>3
<1>6. PICK i \in 1..n : Side(width, first, L[i][1]) * 50 <= -51 * Side(width, first, end)
  BY <1>1, <1>3
<1> DEFINE t == L[i][1]
<1>7. first \in Nat /\ end \in Nat /\ t \in Nat /\ first <= t /\ first <= end
  <2>1. 1 \in 1..n /\ n \in 1..n /\ 1 <= i /\ 1 <= n
    BY <1>1
  <2> QED
    BY <1>1, <1>2, <1>5, <2>1
<1> HIDE DEF first, end, t
<1>8. width > 0 /\ Side(width, first, t) = t - first /\ Side(width, first, end) = end - first
  BY <1>3, <1>7
<1>9. (t - first) * 50 <= -51 * (end - first) /\ end - first > 0
  BY <1>6, <1>8 DEF t
<1> QED
  BY <1>7, <1>9

\* Nothing but the state of the analysis changes.
LEMMA SameKept ==
  ASSUME Kept, state # "raised",
         UNCHANGED <<calls, now, walkstack, stacklist, latencylist, STACKLIST,
                     LATENCYLIST, STACKTOP, spent, folded, line, measured, levels>>
  PROVE  Kept' /\ Gap' = Gap /\ Reused' = Reused /\ Overlapping' = Overlapping
<1>1. UNCHANGED <<calls, now, walkstack, stacklist, latencylist, STACKLIST,
                  LATENCYLIST, STACKTOP, spent, folded, line, measured, levels>>
  OBVIOUS
<1>2. Gap' = Gap /\ Reused' = Reused /\ Overlapping' = Overlapping
  BY <1>1 DEF Gap, Reused, Overlapping
<1>3. Typed'
  BY <1>1 DEF Kept, Typed
<1>4. TimesKept'
  BY <1>1, <1>2 DEF Kept, TimesKept
<1>5. CallsRooted' /\ AllMeasured' /\ TopRooted' /\ TopHasParents'
  BY <1>1, <1>2 DEF Kept, CallsRooted, AllMeasured, TopRooted, TopHasParents
<1>6. ASSUME NEW p \in Pids PROVE InWork(p)' /\ ((line[p] # "missing")' => Followed(p)')
  <2>1. InWork(p) /\ (line[p] # "missing" => Followed(p))
    BY DEF Kept
  <2>2. InWork(p)'
    BY <1>1, <2>1, WorksIs, WorksIsNext
  <2>3. (line[p] # "missing")' => Followed(p)'
    BY <1>1, <2>1, WorksIs, WorksIsNext
  <2> QED
    BY <2>2, <2>3
<1>7. Kept'
  BY <1>3, <1>4, <1>5, <1>6 DEF Kept
<1> QED
  BY <1>2, <1>7

LEMMA DrawKeeps ==
  ASSUME Kept, Draw
  PROVE  /\ state' = "raised" => NeverRaises'
         /\ state' # "raised" => Kept'
<1>1. /\ state = "reading"
      /\ state' = IF NoParent \/ (LATENCYLIST # <<>> /\ OffTheMap) THEN "raised" ELSE "drawn"
      /\ UNCHANGED <<calls, now, cost, walkstack, stacklist, latencylist, STACKLIST,
                     LATENCYLIST, STACKTOP, spent, folded, line, measured, levels>>
  BY DEF Draw
<1>2. LATENCYLIST \in Latencies /\ TopHasParents
  BY DEF Kept, Typed
<1>3. Kept' /\ Gap' = Gap /\ Reused' = Reused /\ Overlapping' = Overlapping
  BY <1>1, SameKept
<1>4. ASSUME state' = "raised" PROVE NeverRaises'
  <2>1. CASE NoParent
    <3>1. ~HasParents(STACKTOP)
      BY <2>1 DEF NoParent, HasParents
    <3> QED
      BY <1>2, <1>3, <3>1 DEF TopHasParents, NeverRaises
  <2>2. CASE LATENCYLIST # <<>> /\ OffTheMap
    <3>1. Overlapping
      BY <1>2, <2>2, OnTheMap
    <3> QED
      BY <1>3, <3>1 DEF NeverRaises
  <2> QED
    BY <1>1, <1>4, <2>1, <2>2
<1> QED
  BY <1>3, <1>4

-----------------------------------------------------------------------------
(* The theorems                                                            *)

LEMMA IInvIs == IInv <=> NeverRaises /\ (state # "raised" => Kept)
BY DEF IInv, Kept

LEMMA IInvIsNext == IInv' <=> NeverRaises' /\ (state' # "raised" => Kept')
BY DEF IInv, Kept

\* The inductive invariant of the walk (tostack) holds at its beginning.
THEOREM InvariantInitially == Init => IInv
<1> SUFFICES ASSUME Init PROVE IInv
  OBVIOUS
<1>1. /\ calls = [p \in Pids |-> <<>>] /\ now = 0 /\ walkstack = [p \in Pids |-> <<>>]
      /\ stacklist = [p \in Pids |-> <<>>] /\ latencylist = [p \in Pids |-> <<>>]
      /\ STACKLIST = <<>> /\ LATENCYLIST = <<>> /\ STACKTOP = <<>> /\ state = "reading"
      /\ line = [p \in Pids |-> "yet"] /\ measured = [p \in Pids |-> <<>>]
      /\ levels = {} /\ spent = [n \in Names |-> 0] /\ folded = FALSE
  BY DEF Init
<1>2. /\ <<>> \in Seq(Calls) /\ <<>> \in Seq(Nodes) /\ <<>> \in Seq(Seq(Nodes))
      /\ <<>> \in Latencies /\ DOMAIN <<>> = {} /\ Len(<<>>) = 0
  BY DEF Latencies
<1>3. Typed
  BY <1>1, <1>2 DEF Typed
<1>4. \A n \in Names : TimeOf(STACKTOP, n) = 0
  <2>1. \A n \in Names : TimeOf(<<>>, n) = 0
    BY <1>2, TimeOfNone DEF TimeOf
  <2> QED
    BY <1>1, <2>1
<1>5. Total([i \in DOMAIN LATENCYLIST |-> LATENCYLIST[i][2]]) = 0
  <2> DEFINE w == [i \in DOMAIN LATENCYLIST |-> LATENCYLIST[i][2]]
  <2>1. w = <<>>
    BY <1>1
  <2> HIDE DEF w
  <2>2. Len(w) = 0 /\ 1..0 = {}
    BY <2>1
  <2>3. Total(w) = 0
    <3>1. 0 \in Nat /\ \A i \in 1..0 : w[i] \in Int /\ w[i] = 0
      BY <2>2
    <3> QED
      BY <2>2, <3>1, TotalType
  <2> QED
    BY <2>3 DEF w
<1>6. Root \in Names
  BY DEF Names
<1>7. Covers(STACKTOP) /\ Rooted(STACKTOP) /\ HasParents(STACKTOP)
  BY <1>1, <1>2 DEF Covers, Rooted, HasParents
<1>8. TimesKept
  BY <1>1, <1>4, <1>5, <1>6, <1>7 DEF TimesKept
<1>9. CallsRooted /\ AllMeasured
  BY <1>1, <1>2 DEF CallsRooted, AllMeasured
<1>10. ASSUME NEW p \in Pids PROVE InWork(p) /\ Followed(p)
  <2>1. /\ calls[p] = <<>> /\ walkstack[p] = <<>> /\ latencylist[p] = measured[p]
    BY <1>1
  <2>2. InWork(p)
    BY <1>2, <2>1 DEF InWork, Rooted, Unfolded
  <2>3. Followed(p)
    BY <1>2, <2>1 DEF Followed
  <2> QED
    BY <2>2, <2>3
<1>11. Kept
  BY <1>3, <1>7, <1>8, <1>9, <1>10 DEF Kept, TopRooted, TopHasParents
<1> QED
  BY <1>1, <1>11, IInvIs DEF NeverRaises

\* Each line that is handled or missing, and the end of the trace, keep it.
THEOREM InvariantKept == IInv /\ [Next]_vars => IInv'
<1> SUFFICES ASSUME IInv, [Next]_vars PROVE IInv'
  OBVIOUS
<1>1. NeverRaises /\ (state # "raised" => Kept)
  BY IInvIs
<1>2. ASSUME state = "reading", (state' = "raised" => NeverRaises'), (state' # "raised" => Kept')
      PROVE  IInv'
  <2>1. NeverRaises'
    BY <1>2 DEF NeverRaises
  <2> QED
    BY <1>2, <2>1, IInvIsNext
<1>3. ASSUME NEW p \in Pids, Enter(p) PROVE IInv'
  <2>1. state = "reading" /\ Kept
    BY <1>1, <1>3 DEF Enter, Line
  <2>2. state' = state /\ Kept'
    BY <1>3, <2>1, EnterKeeps
  <2> QED
    BY <1>2, <2>1, <2>2
<1>4. ASSUME NEW p \in Pids, Leaf(p) PROVE IInv'
  <2>1. state = "reading" /\ Kept
    BY <1>1, <1>4 DEF Leaf, Line
  <2> QED
    BY <1>2, <1>4, <2>1, LeafKeeps
<1>5. ASSUME NEW p \in Pids, Return(p) PROVE IInv'
  <2>1. state = "reading" /\ Kept
    BY <1>1, <1>5 DEF Return, Line
  <2> QED
    BY <1>2, <1>5, <2>1, ReturnKeeps
<1>6. CASE Draw
  <2>1. state = "reading" /\ Kept
    BY <1>1, <1>6 DEF Draw
  <2> QED
    BY <1>2, <1>6, <2>1, DrawKeeps
<1>7. CASE UNCHANGED vars
  <2>1. /\ UNCHANGED <<calls, now, walkstack, stacklist, latencylist, STACKLIST,
                       LATENCYLIST, STACKTOP, spent, folded, line, measured, levels>>
        /\ state' = state
    BY <1>7 DEF vars, trees
  <2>2. NeverRaises'
    <3>1. Gap' = Gap /\ Reused' = Reused /\ Overlapping' = Overlapping
      BY <2>1 DEF Gap, Reused, Overlapping
    <3> QED
      BY <1>1, <2>1, <3>1 DEF NeverRaises
  <2>3. state' # "raised" => Kept'
    BY <1>1, <2>1, SameKept
  <2> QED
    BY <2>2, <2>3, IInvIsNext
<1> QED
  BY <1>3, <1>4, <1>5, <1>6, <1>7 DEF Next

\* The inductive invariant of the walk (tostack), for all threads, functions and
\* bounds and whatever lines are missing.
THEOREM Invariance == Spec => []IInv
<1>1. Init => IInv
  BY InvariantInitially
<1>2. IInv /\ [Next]_vars => IInv'
  BY InvariantKept
<1> QED
  BY <1>1, <1>2, PTL DEF Spec

\* Every call of the traced function of which both ends have a line is measured
\* with its own time and duration, and nothing else is while no line of its thread
\* is missing between two others (add, addend and commit in tostack).
THEOREM CallsMeasuredAlways == Spec => []CallsMeasured
<1>1. IInv => CallsMeasured
  <2> SUFFICES ASSUME IInv, state # "raised", NEW p \in Pids
               PROVE  /\ Range(measured[p]) \subseteq Range(latencylist[p])
                      /\ line[p] # "missing" => latencylist[p] = measured[p]
    BY DEF CallsMeasured
  <2> QED
    BY DEF IInv, AllMeasured, Followed
<1> QED
  BY <1>1, Invariance, PTL

\* The merged tree keeps the times of the trees that were folded and merged, and no
\* call in it has less time than the calls below it (foldstack, merge, addtotop).
THEOREM TimesKeptAlways == Spec => []TimesKept
<1>1. IInv => TimesKept
  BY DEF IInv, TimesKept
<1> QED
  BY <1>1, Invariance, PTL

\* tostack and the pages fail only if a function was called at several depths,
\* calls overlapped, or lines of a thread are missing between others.
THEOREM FailsForAReason == Spec => []NeverRaises
<1>1. IInv => NeverRaises
  BY DEF IInv
<1> QED
  BY <1>1, Invariance, PTL
=============================================================================
