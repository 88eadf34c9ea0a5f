---------------------------- MODULE Lists_proofs ----------------------------
(* What the operations on lists keep.  They are proved by induction over   *)
(* the length; the induction principle is stated for sets of numbers, for  *)
(* the provers do not instantiate one that is stated for predicates.       *)
EXTENDS Lists, NaturalsInduction, WellFoundedInduction, TLAPS

LEMMA LeastNumber ==
  ASSUME NEW T, T \subseteq Nat, T # {}
  PROVE  \E n \in T : \A m \in T : n <= m
<1> DEFINE R == {ss \in Nat \X Nat : ss[1] < ss[2]}
<1>1. IsWellFoundedOn(R, Nat)
  BY NatLessThanWellFounded, Zenon DEF OpToRel
<1>2. \A m, n \in Nat : m < n => <<m, n>> \in R
  OBVIOUS
<1> HIDE DEF R
<1>3. PICK n \in T : \A m \in T : ~(<<m, n>> \in R)
  BY <1>1, WFMin
<1>4. ASSUME NEW m \in T PROVE n <= m
  <2>1. m \in Nat /\ n \in Nat
    OBVIOUS
  <2>2. ~(m < n)
    BY <1>2, <1>3, <2>1
  <2> QED
    BY <2>1, <2>2
<1> QED
  BY <1>4

(* Induction for sets: one that has 0 and the successors has all numbers.  *)
LEMMA SetInduction ==
  ASSUME NEW T, 0 \in T, \A n \in Nat : n \in T => n + 1 \in T
  PROVE  Nat \subseteq T
<1> SUFFICES ASSUME Nat \ T # {} PROVE FALSE
  OBVIOUS
<1>1. PICK n \in Nat \ T : \A m \in Nat \ T : n <= m
  BY LeastNumber
<1>2. n - 1 \in Nat /\ n - 1 \in T
  BY <1>1
<1> QED
  BY <1>1, <1>2

(* The same for sequences, which grow at their end.                        *)
LEMMA SeqInduction ==
  ASSUME NEW S, NEW T, <<>> \in T,
         \A q \in Seq(S), x \in S : q \in T => Append(q, x) \in T
  PROVE  Seq(S) \subseteq T
<1> DEFINE N == {n \in Nat : \A s \in Seq(S) : Len(s) = n => s \in T}
<1>1. 0 \in N
  <2>1. \A s \in Seq(S) : Len(s) = 0 => s = <<>>
    OBVIOUS
  <2> QED
    BY <2>1
<1>2. ASSUME NEW n \in Nat, n \in N PROVE n + 1 \in N
  <2> SUFFICES ASSUME NEW s \in Seq(S), Len(s) = n + 1 PROVE s \in T
    OBVIOUS
  <2> DEFINE q == SubSeq(s, 1, n)
  <2>1. q \in Seq(S) /\ Len(q) = n /\ s[n + 1] \in S
    OBVIOUS
  <2>2. s = Append(q, s[n + 1])
    OBVIOUS
  <2>3. q \in T
    BY <1>2, <2>1
  <2> HIDE DEF q
  <2> QED
    BY <2>1, <2>2, <2>3
<1> HIDE DEF N
<1>3. Nat \subseteq N
  BY <1>1, <1>2, SetInduction
<1> QED
  BY <1>3 DEF N

(* A function that is defined by what it is at 0 and by its steps exists,  *)
(* and there is no other one.                                              *)
Iterates(f, n, A, base, step) ==
  /\ f \in [0 .. n -> A] /\ f[0] = base
  /\ \A i \in 1 .. n : f[i] = step[i][f[i - 1]]

LEMMA Recursion ==
  ASSUME NEW n \in Nat, NEW A, NEW base \in A, NEW step,
         \A i \in 1 .. n, a \in A : step[i][a] \in A
  PROVE  \E f : Iterates(f, n, A, base, step)
<1> DEFINE Good == {m \in Nat : m <= n => \E f \in [0 .. m -> A] :
                      f[0] = base /\ \A i \in 1 .. m : f[i] = step[i][f[i - 1]]}
<1>1. 0 \in Good
  <2> DEFINE f == [i \in 0 .. 0 |-> base]
  <2>1. f \in [0 .. 0 -> A] /\ f[0] = base /\ \A i \in 1 .. 0 : f[i] = step[i][f[i - 1]]
    OBVIOUS
  <2> HIDE DEF f
  <2>2. \E h \in [0 .. 0 -> A] :
          h[0] = base /\ \A i \in 1 .. 0 : h[i] = step[i][h[i - 1]]
    BY <2>1
  <2> QED
    BY <2>2
<1>2. ASSUME NEW m \in Nat, m \in Good PROVE m + 1 \in Good
  <2> SUFFICES ASSUME m + 1 <= n
               PROVE  \E f \in [0 .. m + 1 -> A] :
                        f[0] = base /\ \A i \in 1 .. m + 1 : f[i] = step[i][f[i - 1]]
    OBVIOUS
  <2>1. PICK f \in [0 .. m -> A] :
          f[0] = base /\ \A i \in 1 .. m : f[i] = step[i][f[i - 1]]
    BY <1>2
  <2> DEFINE g == [i \in 0 .. m + 1 |-> IF i = m + 1 THEN step[m + 1][f[m]] ELSE f[i]]
  <2>2. step[m + 1][f[m]] \in A
    <3>1. m + 1 \in 1 .. n /\ f[m] \in A
      OBVIOUS
    <3> QED
      BY <3>1
  <2>3. g \in [0 .. m + 1 -> A] /\ g[0] = base
    BY <2>1, <2>2
  <2>4. ASSUME NEW i \in 1 .. m + 1 PROVE g[i] = step[i][g[i - 1]]
    <3>1. g[i - 1] = f[i - 1]
      OBVIOUS
    <3>2. g[i] = IF i = m + 1 THEN step[m + 1][f[m]] ELSE f[i]
      OBVIOUS
    <3> HIDE DEF g
    <3>3. CASE i = m + 1
      BY <3>1, <3>2, <3>3
    <3>4. CASE i # m + 1
      BY <2>1, <3>1, <3>2, <3>4
    <3> QED
      BY <3>3, <3>4
  <2> HIDE DEF g
  <2> QED
    BY <2>3, <2>4
<1> HIDE DEF Good
<1>3. n \in Good
  BY <1>1, <1>2, SetInduction
<1>4. PICK f \in [0 .. n -> A] :
        f[0] = base /\ \A i \in 1 .. n : f[i] = step[i][f[i - 1]]
  BY <1>3 DEF Good
<1> QED
  BY <1>4 DEF Iterates

LEMMA OneRecursion ==
  ASSUME NEW n \in Nat, NEW f, NEW g, f[0] = g[0],
         \A i \in 1 .. n : f[i - 1] = g[i - 1] => f[i] = g[i]
  PROVE  f[n] = g[n]
<1> DEFINE Good == {m \in Nat : m <= n => f[m] = g[m]}
<1>1. 0 \in Good
  OBVIOUS
<1>2. ASSUME NEW m \in Nat, m \in Good PROVE m + 1 \in Good
  <2>1. m + 1 <= n => m + 1 \in 1 .. n /\ (m + 1) - 1 = m
    OBVIOUS
  <2> QED
    BY <1>2, <2>1
<1> HIDE DEF Good
<1>3. n \in Good
  BY <1>1, <1>2, SetInduction
<1> QED
  BY <1>3 DEF Good

(* One step of Kept.                                                       *)
Step(f, s, T, n) ==
  IF n = 0 THEN <<>>
  ELSE IF s[n] \in T THEN Append(f[n - 1], s[n]) ELSE f[n - 1]

(* The function that defines Kept exists.                                  *)
LEMMA KeptDef ==
  ASSUME NEW S, NEW s \in Seq(S), NEW T
  PROVE  \E f : /\ f = [n \in 0 .. Len(s) |-> Step(f, s, T, n)]
                /\ Kept(s, T) = f[Len(s)]
<1> DEFINE Def(f, m) == f = [n \in 0 .. m |-> Step(f, s, T, n)]
           Good == {m \in Nat : \E f : Def(f, m)}
<1>1. 0 \in Good
  <2>1. Def([n \in 0 .. 0 |-> <<>>], 0)
    BY DEF Step
  <2> QED
    BY <2>1
<1>2. ASSUME NEW m \in Nat, m \in Good PROVE m + 1 \in Good
  <2>1. PICK g : Def(g, m)
    BY <1>2
  <2> DEFINE h == [n \in 0 .. m + 1 |-> IF n = m + 1 THEN Step(g, s, T, n) ELSE g[n]]
  <2>2. ASSUME NEW n \in 0 .. m + 1 PROVE h[n] = Step(h, s, T, n)
    <3>1. CASE n = m + 1
      BY <3>1 DEF Step
    <3>2. CASE n \in 0 .. m
      <4>1. h[n] = g[n] /\ g[n] = Step(g, s, T, n)
        BY <2>1, <3>2
      <4>2. n # 0 => h[n - 1] = g[n - 1]
        BY <3>2
      <4> HIDE DEF h
      <4> QED
        BY <4>1, <4>2 DEF Step
    <3> QED
      BY <3>1, <3>2
  <2>3. h = [n \in 0 .. m + 1 |-> Step(h, s, T, n)]
    BY <2>2
  <2> HIDE DEF h
  <2> QED
    BY <2>3
<1>3. Len(s) \in Good
  <2> HIDE DEF Good
  <2> QED
    BY <1>1, <1>2, SetInduction
<1> DEFINE g == CHOOSE f : Def(f, Len(s))
<1>4. Kept(s, T) = g[Len(s)]
  BY Zenon DEF Kept, Step
<1>5. Def(g, Len(s))
  BY <1>3
<1> QED
  BY <1>4, <1>5

(* The list k has the elements of s up to n that are in T, in their order: *)
(* its i-th is the h[i]-th of s.                                           *)
Picks(k, s, n, T, h) ==
  /\ h \in [1 .. Len(k) -> 1 .. n]
  /\ \A i \in 1 .. Len(k) : k[i] = s[h[i]] /\ s[h[i]] \in T /\ i <= h[i]
  /\ \A i, j \in 1 .. Len(k) : i < j => h[i] < h[j]
  /\ \A j \in 1 .. n : s[j] \in T => \E i \in 1 .. Len(k) : h[i] = j

LEMMA KeptPicks ==
  ASSUME NEW S, NEW s \in Seq(S), NEW T
  PROVE  Kept(s, T) \in Seq(S) /\ \E h : Picks(Kept(s, T), s, Len(s), T, h)
<1>1. PICK f : /\ f = [n \in 0 .. Len(s) |-> Step(f, s, T, n)]
               /\ Kept(s, T) = f[Len(s)]
  BY KeptDef
<1>2. f[0] = <<>>
  BY <1>1 DEF Step
<1>3. ASSUME NEW n \in Nat, n + 1 <= Len(s)
      PROVE  f[n + 1] = IF s[n + 1] \in T THEN Append(f[n], s[n + 1]) ELSE f[n]
  <2>1. n + 1 \in 0 .. Len(s) /\ (n + 1) - 1 = n /\ n + 1 # 0
    BY <1>3
  <2>2. f[n + 1] = Step(f, s, T, n + 1)
    BY <1>1, <2>1
  <2> QED
    BY <2>1, <2>2 DEF Step
<1> DEFINE Good == {n \in Nat : n <= Len(s) =>
                      f[n] \in Seq(S) /\ \E h : Picks(f[n], s, n, T, h)}
<1>4. 0 \in Good
  <2>1. Picks(<<>>, s, 0, T, <<>>)
    BY DEF Picks
  <2>2. f[0] \in Seq(S) /\ \E h : Picks(f[0], s, 0, T, h)
    BY <1>2, <2>1
  <2> QED
    BY <2>2
<1>5. ASSUME NEW n \in Nat, n \in Good PROVE n + 1 \in Good
  <2> SUFFICES ASSUME n + 1 <= Len(s)
               PROVE  f[n + 1] \in Seq(S) /\ \E h : Picks(f[n + 1], s, n + 1, T, h)
    OBVIOUS
  <2>1. f[n] \in Seq(S)
    BY <1>5
  <2>2. PICK h : Picks(f[n], s, n, T, h)
    BY <1>5
  <2>3. s[n + 1] \in S
    OBVIOUS
  <2>4. CASE s[n + 1] \notin T
    <3>1. f[n + 1] = f[n]
      BY <1>3, <2>4
    <3>2. Picks(f[n], s, n + 1, T, h)
      <4>1. h \in [1 .. Len(f[n]) -> 1 .. n + 1]
        BY <2>1, <2>2 DEF Picks
      <4>2. \A j \in 1 .. n + 1 : s[j] \in T => j \in 1 .. n
        BY <2>4
      <4> QED
        BY <2>2, <4>1, <4>2 DEF Picks
    <3> QED
      BY <2>1, <3>1, <3>2
  <2>5. CASE s[n + 1] \in T
    <3> DEFINE k == f[n]
               q == Append(k, s[n + 1])
               g == [i \in 1 .. Len(k) + 1 |-> IF i = Len(k) + 1 THEN n + 1 ELSE h[i]]
    <3>1. f[n + 1] = q
      BY <1>3, <2>5
    <3>2. /\ q \in Seq(S) /\ Len(q) = Len(k) + 1 /\ q[Len(k) + 1] = s[n + 1]
          /\ Len(k) \in Nat
          /\ \A i \in 1 .. Len(k) : q[i] = k[i]
      BY <2>1, <2>3
    <3>3. g \in [1 .. Len(k) + 1 -> 1 .. n + 1]
      <4>1. ASSUME NEW i \in 1 .. Len(k) + 1, i # Len(k) + 1 PROVE h[i] \in 1 .. n + 1
        <5>1. h[i] \in 1 .. n
          <6>1. i \in 1 .. Len(k)
            BY <3>2, <4>1
          <6>2. h \in [1 .. Len(k) -> 1 .. n]
            BY <2>2 DEF Picks
          <6> QED
            BY <6>1, <6>2
        <5> QED
          BY <5>1
      <4>2. n + 1 \in 1 .. n + 1
        BY <3>2
      <4> QED
        BY <4>1, <4>2
    <3>4. Len(k) <= n
      <4>1. CASE Len(k) = 0
        BY <4>1
      <4>2. CASE Len(k) # 0
        <5>1. Len(k) \in 1 .. Len(k)
          BY <3>2, <4>2
        <5>2. Len(k) <= h[Len(k)] /\ h[Len(k)] \in 1 .. n
          BY <2>2, <5>1 DEF Picks
        <5> QED
          BY <3>2, <5>2
      <4> QED
        BY <4>1, <4>2
    <3>5. \A i \in 1 .. Len(k) + 1 : q[i] = s[g[i]] /\ s[g[i]] \in T /\ i <= g[i]
      BY <2>2, <2>5, <3>2, <3>4 DEF Picks
    <3>6. \A i, j \in 1 .. Len(k) + 1 : i < j => g[i] < g[j]
      <4> SUFFICES ASSUME NEW i \in 1 .. Len(k) + 1, NEW j \in 1 .. Len(k) + 1, i < j
                   PROVE  g[i] < g[j]
        OBVIOUS
      <4>0. i \in 1 .. Len(k)
        BY <3>2
      <4>1. h[i] \in 1 .. n
        BY <2>2, <4>0 DEF Picks
      <4>2. g[i] = h[i]
        BY <3>2, <4>0
      <4>3. CASE j = Len(k) + 1
        BY <4>1, <4>2, <4>3
      <4>4. CASE j \in 1 .. Len(k)
        <5>1. g[j] = h[j] /\ h[i] < h[j]
          BY <2>2, <3>2, <4>0, <4>4 DEF Picks
        <5> QED
          BY <4>2, <5>1
      <4> QED
        BY <3>2, <4>3, <4>4
    <3>7. \A j \in 1 .. n + 1 : s[j] \in T => \E i \in 1 .. Len(k) + 1 : g[i] = j
      <4> SUFFICES ASSUME NEW j \in 1 .. n + 1, s[j] \in T
                   PROVE  \E i \in 1 .. Len(k) + 1 : g[i] = j
        OBVIOUS
      <4>1. CASE j = n + 1
        <5>1. Len(k) + 1 \in 1 .. Len(k) + 1 /\ g[Len(k) + 1] = j
          BY <3>2, <4>1
        <5> QED
          BY <5>1
      <4>2. CASE j # n + 1
        <5>1. PICK i \in 1 .. Len(k) : h[i] = j
          BY <2>2, <4>2 DEF Picks
        <5>2. i \in 1 .. Len(k) + 1 /\ g[i] = j
          BY <3>2, <5>1
        <5> QED
          BY <5>2
      <4> QED
        BY <4>1, <4>2
    <3> HIDE DEF q, g
    <3>8. Picks(q, s, n + 1, T, g)
      BY <3>2, <3>3, <3>5, <3>6, <3>7 DEF Picks
    <3> QED
      BY <3>1, <3>2, <3>8
  <2> QED
    BY <2>4, <2>5
<1>6. Len(s) \in Good
  <2> HIDE DEF Good
  <2> QED
    BY <1>4, <1>5, SetInduction
<1> QED
  BY <1>1, <1>6

----------------------------------------------------------------------------
(* What is kept of a list.                                                 *)
LEMMA KeptIn ==
  ASSUME NEW S, NEW s \in Seq(S), NEW T, NEW t
  PROVE  In(t, Kept(s, T)) <=> In(t, s) /\ t \in T
<1>1. /\ Kept(s, T) \in Seq(S)
      /\ \E h : Picks(Kept(s, T), s, Len(s), T, h)
  BY KeptPicks
<1>2. PICK h : Picks(Kept(s, T), s, Len(s), T, h)
  BY <1>1
<1>3. /\ DOMAIN s = 1 .. Len(s)
      /\ DOMAIN Kept(s, T) = 1 .. Len(Kept(s, T))
  BY <1>1
<1>4. ASSUME NEW i \in DOMAIN Kept(s, T), Kept(s, T)[i] = t
      PROVE  In(t, s) /\ t \in T
  BY <1>2, <1>3, <1>4 DEF Picks, In
<1>5. ASSUME NEW j \in DOMAIN s, s[j] = t, t \in T
      PROVE  In(t, Kept(s, T))
  BY <1>2, <1>3, <1>5 DEF Picks, In
<1> QED
  BY <1>4, <1>5 DEF In

LEMMA KeptOnce ==
  ASSUME NEW S, NEW s \in Seq(S), NEW T, Once(s)
  PROVE  Kept(s, T) \in Seq(S) /\ Once(Kept(s, T))
<1>1. /\ Kept(s, T) \in Seq(S)
      /\ \E h : Picks(Kept(s, T), s, Len(s), T, h)
  BY KeptPicks
<1>2. PICK h : Picks(Kept(s, T), s, Len(s), T, h)
  BY <1>1
<1>3. /\ DOMAIN s = 1 .. Len(s) /\ Len(Kept(s, T)) \in Nat
      /\ DOMAIN Kept(s, T) = 1 .. Len(Kept(s, T))
  BY <1>1
<1>4. ASSUME NEW i \in DOMAIN Kept(s, T), NEW j \in DOMAIN Kept(s, T),
             Kept(s, T)[i] = Kept(s, T)[j]
      PROVE  i = j
  <2>1. h[i] = h[j]
    BY <1>2, <1>3, <1>4 DEF Picks, Once
  <2>2. ~(i < j) /\ ~(j < i)
    BY <1>2, <1>3, <2>1 DEF Picks
  <2> QED
    BY <1>3, <2>2
<1> QED
  BY <1>1, <1>4 DEF Once

(* The place of an element that is in a list once.                         *)
LEMMA PlaceIs ==
  ASSUME NEW s, Once(s), NEW i \in DOMAIN s
  PROVE  Place(s[i], s) = i
BY DEF Once, Place

(* Those that are kept move up.                                            *)
LEMMA KeptPlace ==
  ASSUME NEW S, NEW s \in Seq(S), NEW T, Once(s), NEW t, In(t, Kept(s, T))
  PROVE  Place(t, Kept(s, T)) <= Place(t, s)
<1>1. /\ Kept(s, T) \in Seq(S)
      /\ \E h : Picks(Kept(s, T), s, Len(s), T, h)
  BY KeptPicks
<1>2. PICK h : Picks(Kept(s, T), s, Len(s), T, h)
  BY <1>1
<1>3. PICK i \in DOMAIN Kept(s, T) : Kept(s, T)[i] = t
  BY DEF In
<1>4. Place(t, Kept(s, T)) = i
  BY <1>3, KeptOnce, PlaceIs
<1>5. i \in 1 .. Len(Kept(s, T))
  BY <1>1
<1>6. h[i] \in DOMAIN s /\ s[h[i]] = t /\ i <= h[i]
  BY <1>2, <1>3, <1>5 DEF Picks
<1>7. Place(t, s) = h[i]
  BY <1>6, PlaceIs
<1> QED
  BY <1>4, <1>6, <1>7

(* gtlist_remove takes out one element, and the others move up.            *)
LEMMA WithoutType ==
  ASSUME NEW S, NEW s \in Seq(S), NEW t, Once(s)
  PROVE  /\ Without(s, t) \in Seq(S) /\ Once(Without(s, t))
         /\ \A u : In(u, Without(s, t)) <=> In(u, s) /\ u # t
         /\ \A u : In(u, Without(s, t)) => Place(u, Without(s, t)) <= Place(u, s)
<1>1. Without(s, t) \in Seq(S) /\ Once(Without(s, t))
  BY KeptOnce DEF Without
<1>2. ASSUME NEW u PROVE In(u, Without(s, t)) <=> In(u, s) /\ u # t
  <2> DEFINE T == {s[i] : i \in DOMAIN s} \ {t}
  <2>1. u \in T <=> In(u, s) /\ u # t
    BY DEF In
  <2> HIDE DEF T
  <2>2. In(u, Kept(s, T)) <=> In(u, s) /\ u \in T
    BY KeptIn
  <2> QED
    BY <2>1, <2>2 DEF Without, T
<1>3. ASSUME NEW u, In(u, Without(s, t))
      PROVE  Place(u, Without(s, t)) <= Place(u, s)
  BY <1>3, KeptPlace DEF Without
<1> QED
  BY <1>1, <1>2, <1>3

(* gtlist_insert: the new element is the last one.                         *)
LEMMA AppendType ==
  ASSUME NEW S, NEW s \in Seq(S), NEW t \in S, Once(s), ~In(t, s)
  PROVE  /\ Append(s, t) \in Seq(S) /\ Once(Append(s, t))
         /\ \A u : In(u, Append(s, t)) <=> In(u, s) \/ u = t
         /\ \A u : In(u, s) => Place(u, Append(s, t)) = Place(u, s)
<1> DEFINE q == Append(s, t)
<1>1. /\ q \in Seq(S) /\ DOMAIN q = 1 .. Len(s) + 1 /\ q[Len(s) + 1] = t
      /\ DOMAIN s = 1 .. Len(s) /\ Len(s) \in Nat
      /\ \A i \in DOMAIN s : q[i] = s[i]
  OBVIOUS
<1> HIDE DEF q
<1>2. Once(q)
  BY <1>1 DEF Once, In
<1>3. ASSUME NEW u PROVE In(u, q) <=> In(u, s) \/ u = t
  <2>1. In(u, q) => In(u, s) \/ u = t
    BY <1>1 DEF In
  <2>2. In(u, s) => In(u, q)
    BY <1>1 DEF In
  <2>3. Len(s) + 1 \in DOMAIN q
    BY <1>1
  <2>4. u = t => In(u, q)
    BY <1>1, <2>3 DEF In
  <2> QED
    BY <2>1, <2>2, <2>4
<1>4. ASSUME NEW u, In(u, s) PROVE Place(u, q) = Place(u, s)
  <2>1. PICK i \in DOMAIN s : s[i] = u
    BY <1>4 DEF In
  <2>2. i \in DOMAIN q /\ q[i] = u
    BY <1>1, <2>1
  <2> QED
    BY <1>2, <2>1, <2>2, PlaceIs
<1> QED
  BY <1>1, <1>2, <1>3, <1>4 DEF q

(* gtlist_next and its removal: the others move up.                        *)
LEMMA TailType ==
  ASSUME NEW S, NEW s \in Seq(S), s # <<>>, Once(s)
  PROVE  /\ Tail(s) \in Seq(S) /\ Once(Tail(s)) /\ Head(s) \in S /\ In(Head(s), s)
         /\ \A u : In(u, Tail(s)) <=> In(u, s) /\ u # Head(s)
         /\ \A u : In(u, Tail(s)) => Place(u, Tail(s)) <= Place(u, s)
<1> DEFINE q == Tail(s)
<1>1. /\ q \in Seq(S) /\ Head(s) = s[1] /\ s[1] \in S /\ 1 \in DOMAIN s
      /\ DOMAIN s = 1 .. Len(s) /\ Len(s) \in Nat /\ DOMAIN q = 1 .. Len(s) - 1
      /\ \A i \in DOMAIN q : i + 1 \in DOMAIN s /\ q[i] = s[i + 1]
  OBVIOUS
<1> HIDE DEF q
<1>2. Once(q)
  BY <1>1 DEF Once
<1>3. ASSUME NEW u PROVE In(u, q) <=> In(u, s) /\ u # Head(s)
  <2>1. ASSUME NEW i \in DOMAIN q, q[i] = u PROVE In(u, s) /\ u # Head(s)
    BY <1>1, <2>1 DEF In, Once
  <2>2. ASSUME NEW i \in DOMAIN s, s[i] = u, u # Head(s) PROVE In(u, q)
    <3>1. i - 1 \in DOMAIN q /\ (i - 1) + 1 = i
      BY <1>1, <2>2
    <3>2. q[i - 1] = u
      BY <1>1, <2>2, <3>1
    <3> QED
      BY <3>1, <3>2 DEF In
  <2> QED
    BY <2>1, <2>2 DEF In
<1>4. ASSUME NEW u, In(u, q) PROVE Place(u, q) <= Place(u, s)
  <2>1. PICK i \in DOMAIN q : q[i] = u
    BY <1>4 DEF In
  <2>2. Place(u, q) = i
    BY <1>2, <2>1, PlaceIs
  <2>3. Place(u, s) = i + 1
    BY <1>1, <2>1, PlaceIs
  <2> QED
    BY <1>1, <2>2, <2>3
<1>5. In(Head(s), s)
  BY <1>1 DEF In
<1> QED
  BY <1>1, <1>2, <1>3, <1>4, <1>5 DEF q

(* One list behind another that shares nothing with it.                    *)
LEMMA JoinedType ==
  ASSUME NEW S, NEW s \in Seq(S), NEW r \in Seq(S), Once(s), Once(r),
         \A u : ~(In(u, s) /\ In(u, r))
  PROVE  /\ s \o r \in Seq(S) /\ Once(s \o r)
         /\ \A u : In(u, s \o r) <=> In(u, s) \/ In(u, r)
         /\ \A u : In(u, s) => Place(u, s \o r) = Place(u, s)
<1> DEFINE q == s \o r
<1>1. /\ q \in Seq(S) /\ DOMAIN q = 1 .. Len(s) + Len(r)
      /\ DOMAIN s = 1 .. Len(s) /\ DOMAIN r = 1 .. Len(r)
      /\ Len(s) \in Nat /\ Len(r) \in Nat
      /\ \A i \in DOMAIN s : q[i] = s[i]
      /\ \A i \in DOMAIN r : q[Len(s) + i] = r[i]
  OBVIOUS
<1> HIDE DEF q
<1>2. \A i \in DOMAIN q : \/ i \in DOMAIN s /\ q[i] = s[i]
                          \/ i - Len(s) \in DOMAIN r /\ q[i] = r[i - Len(s)]
  <2> TAKE i \in DOMAIN q
  <2>1. CASE i <= Len(s)
    BY <1>1, <2>1
  <2>2. CASE i > Len(s)
    <3>1. i - Len(s) \in DOMAIN r /\ Len(s) + (i - Len(s)) = i
      BY <1>1, <2>2
    <3> QED
      BY <1>1, <3>1
  <2> QED
    BY <1>1, <2>1, <2>2
<1>3. Once(q)
  <2> SUFFICES ASSUME NEW i \in DOMAIN q, NEW j \in DOMAIN q, q[i] = q[j]
               PROVE  i = j
    BY DEF Once
  <2>1. CASE i \in DOMAIN s /\ q[i] = s[i]
    <3>1. CASE j \in DOMAIN s /\ q[j] = s[j]
      BY <2>1, <3>1 DEF Once
    <3>2. CASE j - Len(s) \in DOMAIN r /\ q[j] = r[j - Len(s)]
      BY <2>1, <3>2 DEF In
    <3> QED
      BY <1>2, <3>1, <3>2
  <2>2. CASE i - Len(s) \in DOMAIN r /\ q[i] = r[i - Len(s)]
    <3>1. CASE j \in DOMAIN s /\ q[j] = s[j]
      BY <1>1, <2>2, <3>1 DEF In
    <3>2. CASE j - Len(s) \in DOMAIN r /\ q[j] = r[j - Len(s)]
      <4>1. i - Len(s) = j - Len(s)
        BY <2>2, <3>2 DEF Once
      <4> QED
        BY <1>1, <4>1
    <3> QED
      BY <1>2, <3>1, <3>2
  <2> QED
    BY <1>2, <2>1, <2>2
<1>4. ASSUME NEW u PROVE In(u, q) <=> In(u, s) \/ In(u, r)
  <2>1. In(u, q) => In(u, s) \/ In(u, r)
    BY <1>2 DEF In
  <2>2. In(u, s) => In(u, q)
    BY <1>1 DEF In
  <2>3. ASSUME NEW i \in DOMAIN r, r[i] = u PROVE In(u, q)
    BY <1>1, <2>3 DEF In
  <2> QED
    BY <2>1, <2>2, <2>3 DEF In
<1>5. ASSUME NEW u, In(u, s) PROVE Place(u, q) = Place(u, s)
  <2>1. PICK i \in DOMAIN s : s[i] = u
    BY <1>5 DEF In
  <2>2. i \in DOMAIN q /\ q[i] = u
    BY <1>1, <2>1
  <2> QED
    BY <1>3, <2>1, <2>2, PlaceIs
<1> QED
  BY <1>1, <1>3, <1>4, <1>5 DEF q
=============================================================================
