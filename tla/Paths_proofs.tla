---------------------------- MODULE Paths_proofs ----------------------------
(* What the functions on paths compute, for paths of any length: proved by *)
(* induction over the path, which grows at its end (SeqInduction).         *)
EXTENDS Paths, Lists_proofs, TLAPS

(* Sequences                                                               *)
LEMMA AppendFacts ==
  ASSUME NEW S, NEW q \in Seq(S), NEW x
  PROVE  /\ Len(Append(q, x)) = Len(q) + 1 /\ Append(q, x)[Len(q) + 1] = x
         /\ \A i \in 1 .. Len(q) : Append(q, x)[i] = q[i]
         /\ Append(q, x) # <<>> /\ Last(Append(q, x)) = x
         /\ x \in S => Append(q, x) \in Seq(S)
<1>1. /\ Len(Append(q, x)) = Len(q) + 1 /\ Append(q, x)[Len(q) + 1] = x
      /\ \A i \in 1 .. Len(q) : Append(q, x)[i] = q[i]
      /\ x \in S => Append(q, x) \in Seq(S)
      /\ Len(q) \in Nat
  OBVIOUS
<1>2. Append(q, x) # <<>>
  BY <1>1
<1> QED
  BY <1>1, <1>2 DEF Last

----------------------------------------------------------------------------
(* normalize_path                                                          *)

LEMMA CopiedType ==
  ASSUME NEW S, NEW q \in Seq(S), NEW x \in S PROVE Copied(q, x) \in Seq(S)
BY DEF Copied

LEMMA NormalisedDef ==
  ASSUME NEW S, NEW p \in Seq(S)
  PROVE  \E f \in [0 .. Len(p) -> Seq(S)] :
           /\ f[0] = <<>> /\ \A n \in 1 .. Len(p) : f[n] = Copied(f[n - 1], p[n])
           /\ Normalised(p) = f[Len(p)]
<1> DEFINE m == Len(p)
           A == Seq(S)
           step == [n \in 1 .. m |-> [q \in A |-> Copied(q, p[n])]]
           Def(f) == f = [n \in 0 .. m |-> IF n = 0 THEN <<>> ELSE Copied(f[n - 1], p[n])]
           g == CHOOSE f : Def(f)
<1>1. m \in Nat /\ <<>> \in A
  OBVIOUS
<1>2. ASSUME NEW n \in 1 .. m, NEW q \in A PROVE Copied(q, p[n]) \in A
  <2>1. p[n] \in S
    OBVIOUS
  <2> QED
    BY <2>1, CopiedType
<1>3. Normalised(p) = g[m]
  BY Zenon DEF Normalised
<1> HIDE DEF m, A
<1>4. /\ \A n \in 1 .. m, q \in A : step[n][q] = Copied(q, p[n])
      /\ \A n \in 1 .. m, q \in A : step[n][q] \in A
  BY <1>2
<1> HIDE DEF step
<1>5. PICK f \in [0 .. m -> A] : f[0] = <<>> /\ \A n \in 1 .. m : f[n] = step[n][f[n - 1]]
  <2>1. PICK f : Iterates(f, m, A, <<>>, step)
    BY <1>1, <1>4, Recursion
  <2> QED
    BY <2>1 DEF Iterates
<1>6. ASSUME NEW n \in 1 .. m PROVE f[n] = Copied(f[n - 1], p[n])
  <2>1. n - 1 \in 0 .. m
    BY <1>1
  <2> QED
    BY <1>4, <1>5, <2>1
<1>7. Def(f)
  BY <1>1, <1>5, <1>6
<1>8. Def(g)
  BY <1>7
<1> HIDE DEF g
<1>9. g[0] = <<>>
  BY <1>1, <1>8
<1>10. ASSUME NEW n \in 1 .. m PROVE g[n] = Copied(g[n - 1], p[n])
  <2>1. n \in 0 .. m /\ n # 0
    BY <1>1
  <2> QED
    BY <1>8, <2>1
<1>11. ASSUME NEW n \in 0 .. m PROVE g[n] = f[n]
  <2>1. \A i \in 1 .. n : g[i - 1] = f[i - 1] => g[i] = f[i]
    BY <1>1, <1>6, <1>10
  <2>2. n \in Nat /\ g[0] = f[0]
    BY <1>1, <1>5, <1>9
  <2> QED
    BY <2>1, <2>2, OneRecursion
<1>12. Normalised(p) = f[m]
  BY <1>1, <1>3, <1>11
<1> QED
  BY <1>5, <1>6, <1>12 DEF m, A

LEMMA NormalisedType == ASSUME NEW S, NEW p \in Seq(S) PROVE Normalised(p) \in Seq(S)
<1>1. PICK f \in [0 .. Len(p) -> Seq(S)] : Normalised(p) = f[Len(p)]
  BY NormalisedDef
<1> QED
  BY <1>1

LEMMA NormalisedNil == Normalised(<<>>) = <<>>
<1>1. <<>> \in Seq({}) /\ Len(<<>>) = 0
  OBVIOUS
<1>2. PICK f \in [0 .. Len(<<>>) -> Seq({})] : f[0] = <<>> /\ Normalised(<<>>) = f[Len(<<>>)]
  <2> DEFINE e == <<>>
  <2> HIDE DEF e
  <2>1. e \in Seq({})
    BY <1>1 DEF e
  <2>2. \E f \in [0 .. Len(e) -> Seq({})] : f[0] = <<>> /\ Normalised(e) = f[Len(e)]
    BY <2>1, NormalisedDef
  <2> QED
    BY <2>2 DEF e
<1> QED
  BY <1>1, <1>2

LEMMA NormalisedAppend ==
  ASSUME NEW S, NEW q \in Seq(S), NEW x \in S
  PROVE  Normalised(Append(q, x)) = Copied(Normalised(q), x)
<1> DEFINE p == Append(q, x)
<1>1. /\ p \in Seq(S) /\ Len(p) = Len(q) + 1 /\ Len(q) \in Nat /\ p[Len(q) + 1] = x
      /\ \A i \in 1 .. Len(q) : p[i] = q[i]
  BY AppendFacts
<1> HIDE DEF p
<1>2. PICK f \in [0 .. Len(p) -> Seq(S)] :
        /\ f[0] = <<>> /\ \A n \in 1 .. Len(p) : f[n] = Copied(f[n - 1], p[n])
        /\ Normalised(p) = f[Len(p)]
  BY <1>1, NormalisedDef
<1>3. PICK g \in [0 .. Len(q) -> Seq(S)] :
        /\ g[0] = <<>> /\ \A n \in 1 .. Len(q) : g[n] = Copied(g[n - 1], q[n])
        /\ Normalised(q) = g[Len(q)]
  BY NormalisedDef
<1>4. \A i \in 1 .. Len(q) : f[i - 1] = g[i - 1] => f[i] = g[i]
  BY <1>1, <1>2, <1>3
<1>5. f[Len(q)] = g[Len(q)]
  <2>1. f[0] = g[0]
    BY <1>2, <1>3
  <2> QED
    BY <1>1, <1>4, <2>1, OneRecursion
<1>6. f[Len(q) + 1] = Copied(f[Len(q)], x)
  BY <1>1, <1>2
<1> QED
  BY <1>1, <1>2, <1>3, <1>5, <1>6 DEF p

LEMMA InAppend ==
  ASSUME NEW S, NEW q \in Seq(S), NEW x, NEW u
  PROVE  In(u, Append(q, x)) <=> In(u, q) \/ u = x
<1> DEFINE r == Append(q, x)
<1>1. /\ DOMAIN r = 1 .. Len(q) + 1 /\ DOMAIN q = 1 .. Len(q) /\ Len(q) \in Nat
      /\ r[Len(q) + 1] = x /\ \A i \in 1 .. Len(q) : r[i] = q[i]
  OBVIOUS
<1> HIDE DEF r
<1>2. In(u, r) => In(u, q) \/ u = x
  BY <1>1 DEF In
<1>3. In(u, q) => In(u, r)
  BY <1>1 DEF In
<1>4. In(x, r)
  BY <1>1 DEF In
<1> QED
  BY <1>2, <1>3, <1>4 DEF r

(* What is copied of a path: something of every path that is not empty, in *)
(* the same pieces, with the last one last, and no two slashes behind one  *)
(* another.                                                                *)
Single(p) == \A i \in 1 .. Len(p) - 1 : ~(p[i] = "/" /\ p[i + 1] = "/")

CopyOf(k, p) ==
  /\ k = <<>> <=> p = <<>>
  /\ p # <<>> => Last(k) = Last(p)
  /\ Single(k)
  /\ \A u : In(u, k) <=> In(u, p)

LEMMA CopiedIs ==
  ASSUME NEW S, NEW q \in Seq(S), NEW k \in Seq(S), NEW x \in S, CopyOf(k, q)
  PROVE  CopyOf(Copied(k, x), Append(q, x))
<1> DEFINE r == Append(q, x)
<1>1. r # <<>> /\ Last(r) = x /\ \A u : In(u, r) <=> In(u, q) \/ u = x
  BY AppendFacts, InAppend
<1> HIDE DEF r
<1>2. CASE x = "/" /\ k # <<>> /\ Last(k) = "/"
  <2>1. Copied(k, x) = k
    BY <1>2 DEF Copied
  <2>2. In(x, q)
    <3>1. Len(k) \in DOMAIN k
      BY <1>2
    <3>2. In(x, k)
      BY <1>2, <3>1 DEF In, Last
    <3> QED
      BY <3>2 DEF CopyOf
  <2> QED
    BY <1>1, <1>2, <2>1, <2>2 DEF CopyOf, r
<1>3. CASE ~(x = "/" /\ k # <<>> /\ Last(k) = "/")
  <2> DEFINE c == Append(k, x)
  <2>1. /\ c # <<>> /\ Last(c) = x /\ \A u : In(u, c) <=> In(u, k) \/ u = x
        /\ Len(c) = Len(k) + 1 /\ c[Len(k) + 1] = x
        /\ \A i \in 1 .. Len(k) : c[i] = k[i]
    BY AppendFacts, InAppend
  <2>2. Copied(k, x) = c
    BY <1>3 DEF Copied
  <2> HIDE DEF c
  <2>3. Single(c)
    <3> SUFFICES ASSUME NEW i \in 1 .. Len(c) - 1, c[i] = "/", c[i + 1] = "/" PROVE FALSE
      BY DEF Single
    <3>1. Len(k) \in Nat /\ i \in 1 .. Len(k) /\ c[i] = k[i]
      BY <2>1
    <3>2. CASE i = Len(k)
      <4>1. k # <<>> /\ Last(k) = "/" /\ x = "/"
        BY <2>1, <3>1, <3>2 DEF Last
      <4> QED
        BY <1>3, <4>1
    <3>3. CASE i # Len(k)
      <4>1. i \in 1 .. Len(k) - 1 /\ i + 1 \in 1 .. Len(k)
        BY <3>1, <3>3
      <4> QED
        BY <2>1, <3>1, <4>1 DEF CopyOf, Single
    <3> QED
      BY <3>2, <3>3
  <2> QED
    BY <1>1, <2>1, <2>2, <2>3 DEF CopyOf, r
<1> QED
  BY <1>2, <1>3

LEMMA NormalisedIs ==
  ASSUME NEW S, NEW p \in Seq(S) PROVE CopyOf(Normalised(p), p)
<1> DEFINE T == {q \in Seq(S) : CopyOf(Normalised(q), q)}
<1>1. <<>> \in T
  <2>1. Len(<<>>) = 0 /\ <<>> \in Seq(S)
    OBVIOUS
  <2> QED
    BY <2>1, NormalisedNil DEF CopyOf, Single
<1>2. ASSUME NEW q \in Seq(S), NEW x \in S, q \in T PROVE Append(q, x) \in T
  <2>1. CopyOf(Copied(Normalised(q), x), Append(q, x))
    BY <1>2, NormalisedType, CopiedIs
  <2>2. Append(q, x) \in Seq(S)
    BY AppendFacts
  <2> QED
    BY <2>1, <2>2, NormalisedAppend
<1> HIDE DEF T
<1>3. Seq(S) \subseteq T
  BY <1>1, <1>2, SeqInduction
<1> QED
  BY <1>3 DEF T

----------------------------------------------------------------------------
(* strip_arguemnts_buf                                                     *)

Mark == "?"

LEMMA StrippedIs ==
  ASSUME NEW S, NEW p \in Seq(S)
  PROVE  \/ ~In(Mark, p) /\ Stripped(p) = p
         \/ \E m \in 1 .. Len(p) :
              /\ p[m] = Mark /\ \A i \in 1 .. m - 1 : p[i] # Mark
              /\ Stripped(p) = SubSeq(p, 1, m - 1)
<1> DEFINE I == {i \in 1 .. Len(p) : p[i] = "?"}
           mark == SelectInSeq(p, LAMBDA x : x = "?")
<1>1. mark = IF I # {} THEN Min(I) ELSE 0
  BY DEF SelectInSeq
<1>2. Stripped(p) = IF mark = 0 THEN p ELSE SubSeq(p, 1, mark - 1)
  BY DEF Stripped
<1>3. /\ I \subseteq 1 .. Len(p) /\ \A i \in 1 .. Len(p) : i \in I <=> p[i] = Mark
      /\ Len(p) \in Nat /\ DOMAIN p = 1 .. Len(p)
  BY DEF Mark
<1> HIDE DEF I, mark
<1>4. CASE I = {}
  BY <1>1, <1>2, <1>3, <1>4 DEF In
<1>5. CASE I # {}
  <2>1. PICK n \in I : \A i \in I : n <= i
    <3>1. I \subseteq Nat
      BY <1>3
    <3> QED
      BY <1>5, <3>1, LeastNumber
  <2>2. Min(I) \in I /\ \A i \in I : Min(I) <= i
    BY <2>1 DEF Min
  <2>3. mark = Min(I) /\ mark \in 1 .. Len(p) /\ p[mark] = Mark
    BY <1>1, <1>3, <1>5, <2>2
  <2>4. \A i \in 1 .. mark - 1 : p[i] # Mark
    BY <1>3, <2>2, <2>3
  <2> QED
    BY <1>2, <2>3, <2>4
<1> QED
  BY <1>4, <1>5

LEMMA StrippedType ==
  ASSUME NEW S, NEW p \in Seq(S) PROVE Stripped(p) \in Seq(S)
<1>1. \A m \in 1 .. Len(p) : SubSeq(p, 1, m - 1) \in Seq(S)
  OBVIOUS
<1> QED
  BY <1>1, StrippedIs

LEMMA Unmarked ==
  ASSUME NEW S, NEW p \in Seq(S), ~In(Mark, p) PROVE Stripped(p) = p
<1>1. \A m \in 1 .. Len(p) : p[m] # Mark
  BY DEF In
<1> QED
  BY <1>1, StrippedIs

LEMMA StrippedNil == Stripped(<<>>) = <<>>
<1>1. <<>> \in Seq({}) /\ ~In(Mark, <<>>)
  BY DEF In
<1> QED
  BY <1>1, Unmarked

(* What is written behind a question mark is cut off.                      *)
LEMMA StrippedAppend ==
  ASSUME NEW S, NEW q \in Seq(S), NEW x \in S
  PROVE  Stripped(Append(q, x)) = IF In(Mark, q) THEN Stripped(q)
                                  ELSE IF x = Mark THEN q ELSE Append(q, x)
<1> DEFINE r == Append(q, x)
<1>1. /\ r \in Seq(S) /\ Len(r) = Len(q) + 1 /\ Len(q) \in Nat /\ r[Len(q) + 1] = x
      /\ \A i \in 1 .. Len(q) : r[i] = q[i] /\ DOMAIN q = 1 .. Len(q)
      /\ In(Mark, r) <=> In(Mark, q) \/ x = Mark
  BY AppendFacts, InAppend
<1>2. \A m \in 0 .. Len(q) : SubSeq(r, 1, m) = SubSeq(q, 1, m)
  OBVIOUS
<1>3. SubSeq(q, 1, Len(q)) = q
  OBVIOUS
<1> HIDE DEF r
<1>4. CASE ~In(Mark, q)
  <2>1. CASE x = Mark
    <3>1. PICK m \in 1 .. Len(r) : r[m] = Mark /\ Stripped(r) = SubSeq(r, 1, m - 1)
      BY <1>1, <2>1, StrippedIs
    <3>2. m = Len(q) + 1
      <4>1. \A i \in 1 .. Len(q) : r[i] # Mark
        BY <1>1, <1>4 DEF In
      <4> QED
        BY <1>1, <3>1, <4>1
    <3> QED
      BY <1>1, <1>2, <1>3, <1>4, <2>1, <3>1, <3>2 DEF r
  <2>2. CASE x # Mark
    <3>1. ~In(Mark, r)
      BY <1>1, <1>4, <2>2
    <3>2. Stripped(r) = r
      <4>1. \A m \in 1 .. Len(r) : r[m] # Mark
        BY <1>1, <3>1 DEF In
      <4> QED
        BY <1>1, <4>1, StrippedIs
    <3> QED
      BY <1>4, <2>2, <3>2 DEF r
  <2> QED
    BY <2>1, <2>2
<1>5. CASE In(Mark, q)
  <2>1. PICK m \in 1 .. Len(q) :
          /\ q[m] = Mark /\ \A i \in 1 .. m - 1 : q[i] # Mark
          /\ Stripped(q) = SubSeq(q, 1, m - 1)
    BY <1>5, StrippedIs
  <2>2. PICK n \in 1 .. Len(r) :
          /\ r[n] = Mark /\ \A i \in 1 .. n - 1 : r[i] # Mark
          /\ Stripped(r) = SubSeq(r, 1, n - 1)
    BY <1>1, <1>5, StrippedIs
  <2>3. n = m
    <3>1. r[m] = Mark /\ m \in 1 .. Len(r)
      BY <1>1, <2>1
    <3>2. ~(m < n)
      BY <2>2, <3>1
    <3>3. ~(n < m)
      <4> SUFFICES ASSUME n < m PROVE FALSE
        OBVIOUS
      <4>1. n \in 1 .. m - 1 /\ n \in 1 .. Len(q)
        BY <1>1
      <4>2. r[n] = q[n]
        BY <1>1, <4>1
      <4> QED
        BY <2>1, <2>2, <4>1, <4>2
    <3> QED
      BY <3>2, <3>3
  <2>4. SubSeq(r, 1, m - 1) = SubSeq(q, 1, m - 1)
    BY <1>1, <1>2
  <2> QED
    BY <1>5, <2>1, <2>2, <2>3, <2>4 DEF r
<1> QED
  BY <1>4, <1>5

(* It is the same to cut first and to copy first.                          *)
LEMMA StrippedNormalised ==
  ASSUME NEW S, NEW p \in Seq(S)
  PROVE  Stripped(Normalised(p)) = Normalised(Stripped(p))
<1> DEFINE T == {q \in Seq(S) : Stripped(Normalised(q)) = Normalised(Stripped(q))}
<1>1. <<>> \in T
  <2>1. <<>> \in Seq(S)
    OBVIOUS
  <2> QED
    BY <2>1, StrippedNil, NormalisedNil
<1>2. ASSUME NEW q \in Seq(S), NEW x \in S, q \in T PROVE Append(q, x) \in T
  <2> DEFINE r == Append(q, x)
             k == Normalised(q)
  <2>1. /\ k \in Seq(S)
        /\ In(Mark, k) <=> In(Mark, q)
        /\ r \in Seq(S) /\ Normalised(r) = Copied(k, x)
    BY NormalisedType, NormalisedIs, NormalisedAppend, AppendFacts DEF CopyOf
  <2>2. Stripped(r) = IF In(Mark, q) THEN Stripped(q) ELSE IF x = Mark THEN q ELSE r
    BY StrippedAppend
  <2>3. Stripped(Append(k, x)) = IF In(Mark, k) THEN Stripped(k)
                                 ELSE IF x = Mark THEN k ELSE Append(k, x)
    BY <2>1, StrippedAppend
  <2>4. Stripped(k) = Normalised(Stripped(q))
    BY <1>2
  <2>5. ~In(Mark, k) => Stripped(k) = k
    BY <2>1, Unmarked
  <2> HIDE DEF r, k
  <2>6. Stripped(Normalised(r)) = Normalised(Stripped(r))
    <3>1. CASE In(Mark, q)
      BY <2>1, <2>2, <2>3, <2>4, <3>1 DEF Copied
    <3>2. CASE ~In(Mark, q) /\ x = Mark
      <4>1. Copied(k, x) = Append(k, x)
        BY <3>2 DEF Copied, Mark
      <4> QED
        BY <2>1, <2>2, <2>3, <3>2, <4>1 DEF k
    <3>3. CASE ~In(Mark, q) /\ x # Mark
      <4>1. Stripped(Copied(k, x)) = Copied(k, x)
        BY <2>1, <2>3, <2>5, <3>3 DEF Copied
      <4> QED
        BY <2>1, <2>2, <3>3, <4>1
    <3> QED
      BY <3>1, <3>2, <3>3
  <2> QED
    BY <2>1, <2>6 DEF r
<1> HIDE DEF T
<1>3. Seq(S) \subseteq T
  BY <1>1, <1>2, SeqInduction
<1> QED
  BY <1>3 DEF T

LEMMA AppendJoined ==
  ASSUME NEW S, NEW r \in Seq(S), NEW q \in Seq(S), NEW x \in S
  PROVE  /\ r \o q \in Seq(S) /\ r \o Append(q, x) = Append(r \o q, x)
         /\ \A u : In(u, r \o q) <=> In(u, r) \/ In(u, q)
         /\ Len(r \o q) = Len(r) + Len(q)
         /\ r \o q = <<>> <=> r = <<>> /\ q = <<>>
         /\ q # <<>> => Last(r \o q) = Last(q)
<1>1. /\ r \o q \in Seq(S) /\ r \o Append(q, x) = Append(r \o q, x)
      /\ Len(r \o q) = Len(r) + Len(q) /\ Len(r) \in Nat /\ Len(q) \in Nat
      /\ DOMAIN r = 1 .. Len(r) /\ DOMAIN q = 1 .. Len(q)
      /\ DOMAIN (r \o q) = 1 .. Len(r) + Len(q)
      /\ \A i \in 1 .. Len(r) : (r \o q)[i] = r[i]
      /\ \A i \in 1 .. Len(q) : (r \o q)[Len(r) + i] = q[i]
      /\ \A s \in Seq(S) : s = <<>> <=> Len(s) = 0
  OBVIOUS
<1> DEFINE c == r \o q
<1>2. ASSUME NEW u PROVE In(u, c) <=> In(u, r) \/ In(u, q)
  <2> HIDE DEF c
  <2>1. ASSUME NEW i \in DOMAIN c PROVE In(c[i], r) \/ In(c[i], q)
    <3>1. CASE i <= Len(r)
      BY <1>1, <3>1 DEF In, c
    <3>2. CASE i > Len(r)
      <4>1. i - Len(r) \in 1 .. Len(q) /\ Len(r) + (i - Len(r)) = i
        BY <1>1, <3>2 DEF c
      <4> QED
        BY <1>1, <4>1 DEF In, c
    <3> QED
      BY <1>1, <3>1, <3>2 DEF c
  <2>2. ASSUME NEW i \in DOMAIN r PROVE In(r[i], c)
    BY <1>1 DEF In, c
  <2>3. ASSUME NEW i \in DOMAIN q PROVE In(q[i], c)
    <3>1. Len(r) + i \in DOMAIN c /\ c[Len(r) + i] = q[i]
      BY <1>1 DEF c
    <3> QED
      BY <3>1 DEF In
  <2> QED
    BY <2>1, <2>2, <2>3 DEF In
<1>3. q # <<>> => Last(c) = Last(q)
  <2> HIDE DEF c
  <2> SUFFICES ASSUME q # <<>> PROVE Last(c) = Last(q)
    OBVIOUS
  <2>1. Len(q) \in 1 .. Len(q)
    BY <1>1
  <2> QED
    BY <1>1, <2>1 DEF Last, c
<1>4. r \o q = <<>> <=> r = <<>> /\ q = <<>>
  BY <1>1
<1> QED
  BY <1>1, <1>2, <1>3, <1>4

(* The root has no question mark: only the request is cut.                 *)
LEMMA StrippedJoined ==
  ASSUME NEW S, NEW r \in Seq(S), NEW s \in Seq(S), ~In(Mark, r)
  PROVE  Stripped(r \o s) = r \o Stripped(s)
<1> DEFINE T == {q \in Seq(S) : Stripped(r \o q) = r \o Stripped(q)}
<1>1. <<>> \in T
  <2>1. <<>> \in Seq(S) /\ Len(<<>>) = 0 /\ r \o <<>> = r /\ DOMAIN r = 1 .. Len(r)
    OBVIOUS
  <2>2. Stripped(r) = r
    BY Unmarked
  <2> QED
    BY <2>1, <2>2, StrippedNil
<1>2. ASSUME NEW q \in Seq(S), NEW x \in S, q \in T PROVE Append(q, x) \in T
  <2>1. /\ r \o q \in Seq(S) /\ r \o Append(q, x) = Append(r \o q, x)
        /\ In(Mark, r \o q) <=> In(Mark, q)
        /\ Append(q, x) \in Seq(S)
    BY AppendJoined, AppendFacts
  <2>2. Stripped(Append(r \o q, x)) = IF In(Mark, r \o q) THEN Stripped(r \o q)
                                      ELSE IF x = Mark THEN r \o q ELSE Append(r \o q, x)
    BY <2>1, StrippedAppend
  <2>3. Stripped(Append(q, x)) = IF In(Mark, q) THEN Stripped(q)
                                 ELSE IF x = Mark THEN q ELSE Append(q, x)
    BY StrippedAppend
  <2>4. Stripped(r \o q) = r \o Stripped(q)
    BY <1>2
  <2> QED
    BY <2>1, <2>2, <2>3, <2>4
<1> HIDE DEF T
<1>3. Seq(S) \subseteq T
  BY <1>1, <1>2, SeqInduction
<1> QED
  BY <1>3 DEF T

----------------------------------------------------------------------------
(* parse_config_root_path and build_file_path                              *)

LEMMA GreatestNumber ==
  ASSUME NEW n \in Nat, NEW T, T \subseteq 0 .. n, T # {}
  PROVE  \E m \in T : \A i \in T : m >= i
<1> DEFINE D == {n - i : i \in T}
<1>1. D \subseteq Nat /\ D # {}
  <2>1. ASSUME NEW i \in T PROVE n - i \in Nat
    <3>1. i \in 0 .. n
      OBVIOUS
    <3> QED
      BY <3>1
  <2> QED
    BY <2>1
<1>2. PICK d \in D : \A e \in D : d <= e
  BY <1>1, LeastNumber
<1>3. PICK m \in T : d = n - m
  BY <1>2
<1>4. ASSUME NEW i \in T PROVE m >= i
  <2>1. n - m <= n - i
    BY <1>2, <1>3
  <2> QED
    BY <2>1
<1> QED
  BY <1>4

LEMMA TrimmedIs ==
  ASSUME NEW S, NEW p \in Seq(S), p # <<>>
  PROVE  /\ Trimmed(p) \in Seq(S) /\ Trimmed(p) # <<>>
         /\ \A u : In(u, Trimmed(p)) => In(u, p)
<1> DEFINE I == {i \in 1 .. Len(p) : p[i] # "/"}
           last == SelectLastInSeq(p, LAMBDA x : x # "/")
           end == Max({1, last})
<1>1. last = IF I # {} THEN Max(I) ELSE 0
  BY DEF SelectLastInSeq
<1>2. Trimmed(p) = IF Len(p) <= 1 THEN p ELSE SubSeq(p, 1, end)
  BY DEF Trimmed
<1>3. Len(p) \in Nat \ {0} /\ I \subseteq 1 .. Len(p)
  OBVIOUS
<1> HIDE DEF I, last, end
<1>4. last \in 0 .. Len(p)
  <2>1. CASE I = {}
    BY <1>1, <1>3, <2>1
  <2>2. CASE I # {}
    <3> I \subseteq 0 .. Len(p) /\ Len(p) \in Nat
      BY <1>3
    <3>1. PICK m \in I : \A i \in I : m >= i
      BY <2>2, GreatestNumber
    <3>2. Max(I) \in I
      BY <3>1 DEF Max
    <3> QED
      BY <1>1, <1>3, <2>2, <3>2
  <2> QED
    BY <2>1, <2>2
<1>5. end \in 1 .. Len(p)
  <2> DEFINE E == {1, last}
  <2>1. E \subseteq 0 .. Len(p) /\ 1 \in E
    BY <1>3, <1>4
  <2> HIDE DEF E
  <2>2. PICK m \in E : \A i \in E : m >= i
    BY <1>3, <2>1, GreatestNumber
  <2>3. Max(E) \in E /\ \A i \in E : Max(E) >= i
    BY <2>2 DEF Max
  <2>4. end = Max(E)
    BY DEF end, E
  <2>5. end \in 0 .. Len(p) /\ end >= 1
    BY <2>1, <2>3, <2>4
  <2> QED
    BY <1>3, <2>5
<1>6. /\ SubSeq(p, 1, end) \in Seq(S) /\ Len(SubSeq(p, 1, end)) = end
      /\ \A i \in 1 .. end : SubSeq(p, 1, end)[i] = p[i]
  BY <1>5
<1>7. CASE Len(p) <= 1
  BY <1>2, <1>7
<1>8. CASE ~(Len(p) <= 1)
  <2> DEFINE t == SubSeq(p, 1, end)
  <2>1. Trimmed(p) = t
    BY <1>2, <1>8
  <2>2. t \in Seq(S) /\ Len(t) = end /\ DOMAIN t = 1 .. end /\ \A i \in 1 .. end : t[i] = p[i]
    BY <1>6
  <2> HIDE DEF t
  <2>3. t # <<>>
    BY <1>5, <2>2
  <2>4. \A i \in 1 .. end : i \in DOMAIN p
    BY <1>3, <1>5
  <2> QED
    BY <2>1, <2>2, <2>3, <2>4 DEF In
<1> QED
  BY <1>7, <1>8

(* The root a configuration gives is not empty, and brings no mark.        *)
LEMMA RootPathIs ==
  ASSUME NEW S, NEW root \in Seq(S), root # <<>>, NEW home \in Seq(S), home # <<>>,
         ~In(Mark, root), ~In(Mark, home)
  PROVE  /\ RootPath(root, home) \in Seq(S) /\ RootPath(root, home) # <<>>
         /\ ~In(Mark, RootPath(root, home))
<1>1. CASE Head(root) = "~"
  <2> DEFINE t == Tail(root)
  <2>1. t \in Seq(S) /\ ~In(Mark, t)
    <3>1. /\ t \in Seq(S) /\ DOMAIN t = 1 .. Len(root) - 1 /\ Len(root) \in Nat
          /\ \A i \in 1 .. Len(root) - 1 : t[i] = root[i + 1] /\ i + 1 \in DOMAIN root
      OBVIOUS
    <3> HIDE DEF t
    <3> QED
      BY <3>1 DEF In
  <2> HIDE DEF t
  <2>2. home \o t \in Seq(S) /\ home \o t # <<>> /\ ~In(Mark, home \o t)
    BY <2>1, AppendJoined
  <2>3. RootPath(root, home) = Trimmed(home \o t)
    BY <1>1 DEF RootPath, t
  <2> DEFINE q == home \o t
  <2> HIDE DEF q
  <2>4. q \in Seq(S) /\ q # <<>> /\ ~In(Mark, q) /\ RootPath(root, home) = Trimmed(q)
    BY <2>2, <2>3 DEF q
  <2> QED
    BY <2>4, TrimmedIs
<1>2. CASE Head(root) # "~"
  <2>1. RootPath(root, home) = Trimmed(root)
    BY <1>2 DEF RootPath
  <2> QED
    BY <2>1, TrimmedIs
<1> QED
  BY <1>1, <1>2

(* What is asked for below the root.                                       *)
Below(request) ==
  LET name == IF Head(request) = "/" THEN Tail(request) ELSE request
  IN  IF name = <<>> THEN <<"index.html">> ELSE name

LEMMA BuildFilePathIs ==
  ASSUME NEW S, NEW root \in Seq(S), root # <<>>, ~In(Mark, root),
         NEW request \in Seq(S), request # <<>>, {"/", "index.html"} \subseteq S
  PROVE  /\ Below(request) \in Seq(S)
         /\ BuildFilePath(root, request) =
              Normalised(Append(root, "/") \o Stripped(Below(request)))
<1> DEFINE r == Append(root, "/")
           s == Below(request)
<1>1. s \in Seq(S)
  BY DEF Below
<1>2. r \in Seq(S) /\ ~In(Mark, r) /\ r = root \o <<"/">>
  <2>1. r = root \o <<"/">> /\ "/" # Mark
    BY DEF Mark
  <2> QED
    BY <2>1, AppendFacts, InAppend
<1>3. BuildFilePath(root, request) = Stripped(Normalised((root \o <<"/">>) \o s))
  BY DEF BuildFilePath, Below
<1> HIDE DEF r, s
<1>4. Stripped(r \o s) = r \o Stripped(s)
  BY <1>1, <1>2, StrippedJoined
<1>5. Stripped(Normalised(r \o s)) = Normalised(Stripped(r \o s))
  <2> DEFINE q == r \o s
  <2>1. q \in Seq(S)
    BY <1>1, <1>2
  <2> HIDE DEF q
  <2>2. Stripped(Normalised(q)) = Normalised(Stripped(q))
    BY <2>1, StrippedNormalised
  <2> QED
    BY <2>2 DEF q
<1> QED
  BY <1>1, <1>2, <1>3, <1>4, <1>5 DEF r, s

----------------------------------------------------------------------------
(* The last slash, and what is left without the slashes at the end.        *)

LEMMA MaxIs ==
  ASSUME NEW T, T \subseteq Int, NEW n \in T, \A i \in T : n >= i
  PROVE  Max(T) = n
<1>1. Max(T) \in T /\ \A i \in T : Max(T) >= i
  BY DEF Max
<1>2. Max(T) >= n /\ n >= Max(T) /\ Max(T) \in Int /\ n \in Int
  BY <1>1
<1> QED
  BY <1>2

LEMMA LastSlashIs ==
  ASSUME NEW S, NEW p \in Seq(S)
  PROVE  /\ LastSlash(p) \in 0 .. Len(p)
         /\ LastSlash(p) # 0 => p[LastSlash(p)] = "/"
         /\ \A i \in LastSlash(p) + 1 .. Len(p) : p[i] # "/"
<1> DEFINE I == {i \in 1 .. Len(p) : p[i] = "/"}
           k == LastSlash(p)
<1>1. k = IF I # {} THEN Max(I) ELSE 0
  BY DEF LastSlash, SelectLastInSeq
<1>2. Len(p) \in Nat /\ I \subseteq 0 .. Len(p) /\ \A i \in 1 .. Len(p) : i \in I <=> p[i] = "/"
  OBVIOUS
<1>3. \A i \in I : i \in 1 .. Len(p)
  OBVIOUS
<1> HIDE DEF I, k
<1>4. CASE I = {}
  BY <1>1, <1>2, <1>4 DEF k
<1>5. CASE I # {}
  <2>1. PICK m \in I : \A i \in I : m >= i
    BY <1>2, <1>5, GreatestNumber
  <2>2. k = m
    <3>1. I \subseteq Int
      BY <1>2
    <3> QED
      BY <1>1, <1>5, <2>1, <3>1, MaxIs
  <2>3. k \in 1 .. Len(p) /\ p[k] = "/"
    BY <1>2, <1>3, <2>1, <2>2
  <2>4. ASSUME NEW i \in k + 1 .. Len(p) PROVE p[i] # "/"
    <3>1. i \in 1 .. Len(p) /\ ~(k >= i)
      BY <1>2, <2>3
    <3> QED
      BY <1>2, <2>1, <2>2, <3>1
  <2> QED
    BY <1>2, <2>3, <2>4 DEF k
<1> QED
  BY <1>4, <1>5

LEMMA TrimmedSingle ==
  ASSUME NEW S, NEW p \in Seq(S), p # <<>>, Single(p)
  PROVE  Trimmed(p) = IF Len(p) = 1 \/ Last(p) # "/" THEN p ELSE SubSeq(p, 1, Len(p) - 1)
<1> DEFINE n == Len(p)
           I == {i \in 1 .. n : p[i] # "/"}
           last == SelectLastInSeq(p, LAMBDA x : x # "/")
           end == Max({1, last})
<1>1. last = IF I # {} THEN Max(I) ELSE 0
  BY DEF SelectLastInSeq
<1>2. Trimmed(p) = IF n <= 1 THEN p ELSE SubSeq(p, 1, end)
  BY DEF Trimmed
<1>3. n \in Nat \ {0} /\ Last(p) = p[n] /\ SubSeq(p, 1, n) = p
  BY DEF Last
<1>4. n > 1 => ~(p[n - 1] = "/" /\ p[n] = "/")
  <2>1. n > 1 => n - 1 \in 1 .. n - 1 /\ (n - 1) + 1 = n
    BY <1>3
  <2> QED
    BY <2>1 DEF Single
<1>5. I \subseteq Int /\ \A i \in 1 .. n : i \in I <=> p[i] # "/"
  BY <1>3
<1>6. \A i \in I : i \in 1 .. n
  OBVIOUS
<1> HIDE DEF n, I, last, end
<1>7. ASSUME NEW m \in 1 .. n, last = m PROVE end = m
  <2>1. {1, m} \subseteq Int /\ m \in {1, m} /\ \A i \in {1, m} : m >= i
    BY <1>3
  <2> QED
    BY <1>7, <2>1, MaxIs DEF end
<1>8. CASE n = 1
  BY <1>2, <1>8 DEF n
<1>9. CASE n # 1 /\ Last(p) # "/"
  <2>1. n \in I /\ \A i \in I : n >= i
    BY <1>3, <1>5, <1>6, <1>9
  <2>2. last = n
    BY <1>1, <1>5, <2>1, MaxIs
  <2>3. end = n
    BY <1>3, <1>7, <2>2
  <2>4. Trimmed(p) = p
    BY <1>2, <1>3, <2>3
  <2> QED
    BY <1>9, <2>4
<1>10. CASE n # 1 /\ Last(p) = "/"
  <2>1. n - 1 \in 1 .. n /\ p[n - 1] # "/"
    BY <1>3, <1>4, <1>10
  <2>2. ASSUME NEW i \in I PROVE n - 1 >= i
    <3>1. i \in 1 .. n /\ i # n
      BY <1>3, <1>5, <1>6, <1>10
    <3> QED
      BY <1>3, <3>1
  <2>3. last = n - 1
    <3>1. n - 1 \in I
      BY <1>5, <2>1
    <3> QED
      BY <1>1, <1>5, <2>2, <3>1, MaxIs
  <2>4. end = n - 1
    BY <1>7, <2>1, <2>3
  <2>5. Trimmed(p) = SubSeq(p, 1, n - 1)
    BY <1>2, <1>3, <1>10, <2>4
  <2> QED
    BY <1>10, <2>5 DEF n
<1> QED
  BY <1>8, <1>9, <1>10

(* A path with one spelling is copied as it is.                            *)
LEMMA NormalisedSingle ==
  ASSUME NEW S, NEW p \in Seq(S), Single(p) PROVE Normalised(p) = p
<1> DEFINE T == {q \in Seq(S) : Single(q) => Normalised(q) = q}
<1>1. <<>> \in T
  BY NormalisedNil
<1>2. ASSUME NEW q \in Seq(S), NEW x \in S, q \in T PROVE Append(q, x) \in T
  <2> DEFINE r == Append(q, x)
  <2>1. /\ r \in Seq(S) /\ Len(r) = Len(q) + 1 /\ Len(q) \in Nat /\ r[Len(q) + 1] = x
        /\ \A i \in 1 .. Len(q) : r[i] = q[i]
    BY AppendFacts
  <2> SUFFICES ASSUME Single(r) PROVE Normalised(r) = r
    BY <2>1
  <2> HIDE DEF r
  <2>2. Single(q)
    <3> SUFFICES ASSUME NEW i \in 1 .. Len(q) - 1 PROVE ~(q[i] = "/" /\ q[i + 1] = "/")
      BY DEF Single
    <3>1. i \in 1 .. Len(r) - 1 /\ i \in 1 .. Len(q) /\ i + 1 \in 1 .. Len(q)
      BY <2>1
    <3> QED
      BY <2>1, <3>1 DEF Single
  <2>3. ~(x = "/" /\ q # <<>> /\ Last(q) = "/")
    <3> SUFFICES ASSUME q # <<>> PROVE ~(x = "/" /\ Last(q) = "/")
      OBVIOUS
    <3>1. Len(q) \in 1 .. Len(r) - 1 /\ Len(q) \in 1 .. Len(q)
      BY <2>1
    <3> QED
      BY <2>1, <3>1 DEF Single, Last
  <2>4. Normalised(r) = Copied(Normalised(q), x)
    BY NormalisedAppend DEF r
  <2> QED
    BY <1>2, <2>2, <2>3, <2>4 DEF Copied, r
<1> HIDE DEF T
<1>3. Seq(S) \subseteq T
  BY <1>1, <1>2, SeqInduction
<1> QED
  BY <1>3 DEF T

=============================================================================
