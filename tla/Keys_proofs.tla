---------------------------- MODULE Keys_proofs -----------------------------
(* What is read from a text at given places, for texts of any length.      *)
EXTENDS Keys, TLAPS

LEMMA PastIs ==
  ASSUME NEW S, NEW text \in Seq(S), NEW i \in 1 .. Len(text), NEW B,
         NEW j \in i .. Len(text) + 1, j <= Len(text) => text[j] \notin B,
         \A k \in i .. j - 1 : text[k] \in B
  PROVE  Past(text, i, B) = j
<1> DEFINE Ends(e) == /\ e <= Len(text) => text[e] \notin B
                      /\ \A k \in i .. e - 1 : text[k] \in B
           R == i .. Len(text) + 1
<1>1. \E e \in R : Ends(e)
  OBVIOUS
<1>2. Past(text, i, B) = CHOOSE e \in R : Ends(e)
  BY DEF Past
<1>3. ASSUME NEW e \in R, Ends(e) PROVE e = j
  <2>1. /\ e \in Int /\ j \in Int /\ i \in Int /\ Len(text) \in Nat
        /\ i <= e /\ i <= j /\ e <= Len(text) + 1 /\ j <= Len(text) + 1
    OBVIOUS
  <2>2. ~(e < j)
    <3>1. e < j => e \in i .. j - 1 /\ e <= Len(text)
      BY <2>1
    <3> QED
      BY <1>3, <3>1
  <2>3. ~(j < e)
    <3>1. j < e => j \in i .. e - 1 /\ j <= Len(text)
      BY <2>1
    <3> QED
      BY <1>3, <3>1
  <2> QED
    BY <2>1, <2>2, <2>3
<1> HIDE DEF Ends, R
<1>4. Ends(CHOOSE e \in R : Ends(e)) /\ (CHOOSE e \in R : Ends(e)) \in R
  BY <1>1
<1> QED
  BY <1>2, <1>3, <1>4

LEMMA MinIs ==
  ASSUME NEW I \in SUBSET Int, NEW e \in I, \A i \in I : e <= i PROVE Min(I) = e
<1> DEFINE Least(x) == \A y \in I : x <= y
<1>1. Min(I) = CHOOSE x \in I : Least(x)
  BY DEF Min
<1>2. Least(e)
  OBVIOUS
<1>3. ASSUME NEW x \in I, Least(x) PROVE x = e
  <2>1. x <= e /\ e <= x /\ x \in Int /\ e \in Int
    BY <1>3
  <2> QED
    BY <2>1
<1> HIDE DEF Least
<1> QED
  BY <1>1, <1>2, <1>3

(* One digit is worth what it shows.                                       *)
LEMMA NumberOne ==
  ASSUME NEW v \in DOMAIN Digit, NEW digits, digits = <<v>>
  PROVE  Number(digits) = Digit[v]
<1> DEFINE Def(f) == f = [n \in 0 .. Len(digits) |->
                            IF n = 0 THEN 0 ELSE 10 * f[n - 1] + Digit[digits[n]]]
           g == CHOOSE f : Def(f)
           one == [n \in 0 .. 1 |-> IF n = 0 THEN 0 ELSE Digit[v]]
<1>1. Len(digits) = 1 /\ digits[1] = v
  OBVIOUS
<1>2. Digit[v] \in Int
  BY DEF Digit
<1>3. one[0] = 0 /\ one[1] = Digit[v] /\ DOMAIN one = 0 .. 1
  OBVIOUS
<1>4. ASSUME NEW n \in 0 .. 1
      PROVE  one[n] = IF n = 0 THEN 0 ELSE 10 * one[n - 1] + Digit[digits[n]]
  <2>1. CASE n = 0
    BY <1>3, <2>1
  <2>2. CASE n # 0
    <3>1. n = 1 /\ n - 1 = 0
      BY <2>2
    <3> HIDE DEF one
    <3> QED
      BY <1>1, <1>2, <1>3, <3>1
  <2> QED
    BY <2>1, <2>2
<1>5. Def(one)
  <2>1. one = [n \in 0 .. 1 |-> one[n]]
    OBVIOUS
  <2> HIDE DEF one
  <2>2. one = [n \in 0 .. 1 |-> IF n = 0 THEN 0 ELSE 10 * one[n - 1] + Digit[digits[n]]]
    BY <1>4, <2>1
  <2> QED
    BY <1>1, <2>2
<1>6. Def(g)
  BY <1>5
<1>7. Number(digits) = g[Len(digits)]
  BY Zenon DEF Number
<1> HIDE DEF g
<1>8. g = [n \in 0 .. 1 |-> IF n = 0 THEN 0 ELSE 10 * g[n - 1] + Digit[digits[n]]]
  BY <1>1, <1>6
<1>9. g[0] = 0
  BY <1>8
<1>10. g[1] = 10 * g[0] + Digit[digits[1]]
  <2>1. 1 \in 0 .. 1 /\ 1 - 1 = 0 /\ 1 # 0
    OBVIOUS
  <2> QED
    BY <1>8, <2>1
<1> QED
  BY <1>1, <1>2, <1>7, <1>9, <1>10

LEMMA MaxOne == ASSUME NEW i \in Int PROVE Max({i}) = i
BY DEF Max

(* A line at s that assigns v to the key, at the places a and q, and has   *)
(* only blanks behind it up to e, its end.                                 *)
Assigns(text, s, key, v, a, q, e) ==
  /\ s \in 1 .. Len(text) /\ a \in s + 1 .. Len(text) /\ q \in a + 1 .. Len(text)
  /\ e \in q + 1 .. Len(text) + 1
  /\ text[s] = key /\ text[a] = "=" /\ text[q] = v
  /\ \A k \in s + 1 .. a - 1 : text[k] = " "
  /\ \A k \in a + 1 .. q - 1 : text[k] = " "
  /\ \A k \in q + 1 .. e - 1 : text[k] = " "
  /\ e <= Len(text) => text[e] = "\n"

(* And no earlier line begins with the key.                                *)
AssignsFirst(text, s, key, v, a, q, e) ==
  /\ Assigns(text, s, key, v, a, q, e)
  /\ s \in LineStarts(text)
  /\ \A i \in LineStarts(text) : text[i] = key => s <= i

LEMMA AssignsPlaces ==
  ASSUME NEW S, NEW text \in Seq(S), NEW key, NEW v, NEW s, NEW a, NEW q, NEW e,
         Assigns(text, s, key, v, a, q, e)
  PROVE  /\ s \in 1 .. Len(text) /\ a \in 1 .. Len(text) /\ q \in 1 .. Len(text)
         /\ a \in s + 1 .. Len(text) + 1 /\ q \in a + 1 .. Len(text) + 1
         /\ s + 1 \in 1 .. Len(text) /\ a + 1 \in 1 .. Len(text)
         /\ s \in Int /\ q \in Int /\ e \in Int /\ a # 0 /\ q # 0
         /\ ~(a > Len(text)) /\ q <= Len(text)
         /\ q + 1 <= e /\ e <= Len(text) + 1 /\ Len(text) \in Nat
<1>1. Len(text) \in Nat
  OBVIOUS
<1>2. /\ s \in 1 .. Len(text) /\ a \in s + 1 .. Len(text) /\ q \in a + 1 .. Len(text)
      /\ e \in q + 1 .. Len(text) + 1
  BY DEF Assigns
<1>3. /\ s \in Int /\ a \in Int /\ q \in Int /\ 1 <= s /\ s + 1 <= a /\ a + 1 <= q
      /\ q <= Len(text) /\ e \in Int /\ q + 1 <= e /\ e <= Len(text) + 1
  BY <1>1, <1>2
<1> QED
  BY <1>1, <1>3

LEMMA LinePlaces ==
  ASSUME NEW S, NEW text \in Seq(S)
  PROVE  \A i \in LineStarts(text) : i \in 1 .. Len(text) /\ i \in Int
<1>1. DOMAIN text = 1 .. Len(text) /\ \A i \in 1 .. Len(text) : i \in Int
  OBVIOUS
<1> QED
  BY <1>1 DEF LineStarts

(* The value is found.                                                     *)
LEMMA GetKeyIs ==
  ASSUME NEW S, NEW text \in Seq(S), NEW key, NEW v, v # " ",
         NEW s, NEW a, NEW q, NEW e, AssignsFirst(text, s, key, v, a, q, e)
  PROVE  GetKey(text, key) = q
<1>1. Assigns(text, s, key, v, a, q, e)
  BY DEF AssignsFirst
<1>2. /\ s \in 1 .. Len(text) /\ a \in 1 .. Len(text) /\ q \in 1 .. Len(text)
      /\ a \in s + 1 .. Len(text) + 1 /\ q \in a + 1 .. Len(text) + 1
      /\ s + 1 \in 1 .. Len(text) /\ a + 1 \in 1 .. Len(text)
      /\ s \in Int /\ a # 0 /\ q # 0
      /\ ~(a > Len(text)) /\ q <= Len(text)
  BY <1>1, AssignsPlaces
<1>3. Past(text, s + 1, {" "}) = a
  <2>1. text[a] \notin {" "} /\ \A k \in s + 1 .. a - 1 : text[k] \in {" "}
    BY <1>1 DEF Assigns
  <2> QED
    BY <1>2, <2>1, PastIs
<1>4. Past(text, a + 1, {" "}) = q
  <2>1. text[q] \notin {" "} /\ \A k \in a + 1 .. q - 1 : text[k] \in {" "}
    BY <1>1 DEF Assigns
  <2> QED
    BY <1>2, <2>1, PastIs
<1> DEFINE lines == {i \in LineStarts(text) : text[i] = key}
<1>5. /\ lines \in SUBSET Int /\ s \in lines
      /\ \A i \in lines : s <= i
  <2>1. \A i \in LineStarts(text) : i \in Int
    BY LinePlaces
  <2>2. text[s] = key
    BY <1>1 DEF Assigns
  <2>3. s \in LineStarts(text) /\ \A i \in LineStarts(text) : text[i] = key => s <= i
    BY DEF AssignsFirst
  <2> QED
    BY <2>1, <2>2, <2>3
<1>6. Min(lines) = s /\ lines # {}
  <2> HIDE DEF lines
  <2> QED
    BY <1>5, MinIs
<1> HIDE DEF lines
<1>7. GetKey(text, key) =
        IF lines = {} THEN 0
        ELSE IF Past(text, Min(lines) + 1, {" "}) > Len(text)
                \/ text[Past(text, Min(lines) + 1, {" "})] # "=" THEN 0
        ELSE Past(text, Past(text, Min(lines) + 1, {" "}) + 1, {" "})
  BY Zenon DEF GetKey, lines
<1>8. text[a] = "="
  BY <1>1 DEF Assigns
<1> QED
  BY <1>2, <1>3, <1>4, <1>6, <1>7, <1>8

(* A digit that is assigned is the key's number.                           *)
LEMMA FileIntIs ==
  ASSUME NEW S, NEW text \in Seq(S), NEW key, NEW v \in DOMAIN Digit,
         NEW s, NEW a, NEW q, NEW e, AssignsFirst(text, s, key, v, a, q, e)
  PROVE  FileInt(text, key) = Digit[v]
<1>1. Assigns(text, s, key, v, a, q, e)
  BY DEF AssignsFirst
<1>2. /\ Len(text) \in Nat /\ q \in 1 .. Len(text) /\ q # 0
      /\ e \in Int /\ q + 1 <= e /\ e <= Len(text) + 1
  BY <1>1, AssignsPlaces
<1>3. v \notin Blank /\ v # " "
  BY DEF Digit, Blank
<1>4. GetKey(text, key) = q
  BY <1>3, GetKeyIs
<1>5. text[q] = v
  BY <1>1 DEF Assigns
<1>6. Past(text, q, Blank) = q
  <2>1. q \in q .. Len(text) + 1 /\ \A k \in q .. q - 1 : text[k] \in Blank
    BY <1>2
  <2> QED
    BY <1>2, <1>3, <1>5, <2>1, PastIs
<1>7. Past(text, q, DOMAIN Digit) = q + 1
  <2>1. q + 1 \in q .. Len(text) + 1 /\ (q + 1) - 1 = q
    BY <1>2
  <2>2. \A k \in q .. q : text[k] \in DOMAIN Digit
    <3>1. \A k \in q .. q : k = q
      BY <1>2
    <3> QED
      BY <1>5, <3>1
  <2>3. q + 1 <= Len(text) => text[q + 1] \notin DOMAIN Digit
    <3>1. CASE e = q + 1
      <4>1. q + 1 <= Len(text) => text[q + 1] = "\n"
        BY <1>1, <3>1 DEF Assigns
      <4> QED
        BY <4>1 DEF Digit
    <3>2. CASE e # q + 1
      <4>1. q + 1 \in q + 1 .. e - 1
        BY <1>2, <3>2
      <4>2. text[q + 1] = " "
        BY <1>1, <4>1 DEF Assigns
      <4> QED
        BY <4>2 DEF Digit
    <3> QED
      BY <3>1, <3>2
  <2> QED
    BY <1>2, <2>1, <2>2, <2>3, PastIs
<1>8. SubSeq(text, q, (q + 1) - 1) = <<v>>
  <2> DEFINE d == SubSeq(text, q, (q + 1) - 1)
  <2>1. d \in Seq(S) /\ Len(d) = 1 /\ d[1] = v
    BY <1>2, <1>5
  <2> HIDE DEF d
  <2>2. d = <<v>>
    BY <2>1
  <2> QED
    BY <2>2 DEF d
<1>9. <<v>> # <<>>
  OBVIOUS
<1>10. FileInt(text, key) = Number(<<v>>)
  <2> DEFINE one == <<v>>
  <2>1. one # <<>> /\ SubSeq(text, q, (q + 1) - 1) = one
    BY <1>8, <1>9
  <2> HIDE DEF one
  <2>2. FileInt(text, key) = Number(one)
    BY <1>2, <1>4, <1>6, <1>7, <2>1 DEF FileInt
  <2> QED
    BY <2>2 DEF one
<1> QED
  BY <1>10, NumberOne

(* The blanks around a value go.                                           *)
LEMMA TrimBlanksIs ==
  ASSUME NEW S, NEW w \in Seq(S), Len(w) # 0, w[1] \notin Blank,
         \A i \in 2 .. Len(w) : w[i] \in Blank
  PROVE  TrimBlanks(w) = <<w[1]>>
<1>1. Len(w) \in Nat /\ 1 \in 1 .. Len(w) /\ 1 \in 1 .. Len(w) + 1
  OBVIOUS
<1>2. Past(w, 1, Blank) = 1
  <2>1. \A k \in 1 .. 1 - 1 : w[k] \in Blank
    OBVIOUS
  <2> QED
    BY <1>1, <2>1, PastIs
<1> DEFINE I == {i \in 1 .. Len(w) : w[i] \notin Blank}
<1>3. SelectLastInSeq(w, LAMBDA x : x \notin Blank) = IF I # {} THEN Max(I) ELSE 0
  BY DEF SelectLastInSeq
<1>4. I = {1}
  <2>1. \A i \in 1 .. Len(w) : i = 1 \/ i \in 2 .. Len(w)
    OBVIOUS
  <2> QED
    BY <1>1, <2>1
<1>5. SelectLastInSeq(w, LAMBDA x : x \notin Blank) = 1
  BY <1>3, <1>4, MaxOne
<1>6. TrimBlanks(w) = SubSeq(w, 1, 1)
  BY <1>2, <1>5 DEF TrimBlanks
<1>7. SubSeq(w, 1, 1) = <<w[1]>>
  <2> DEFINE d == SubSeq(w, 1, 1)
  <2>1. d \in Seq(S) /\ Len(d) = 1 /\ d[1] = w[1]
    BY <1>1
  <2> HIDE DEF d
  <2>2. d = <<w[1]>>
    BY <2>1
  <2> QED
    BY <2>2 DEF d
<1> QED
  BY <1>6, <1>7

(* What is assigned is the key's value, blanks around it or not.           *)
LEMMA FileValueIs ==
  ASSUME NEW S, NEW text \in Seq(S), NEW key, NEW v, v \notin Blank,
         NEW s, NEW a, NEW q, NEW e, AssignsFirst(text, s, key, v, a, q, e)
  PROVE  TrimBlanks(FileValue(text, key)) = <<v>>
<1>1. Assigns(text, s, key, v, a, q, e)
  BY DEF AssignsFirst
<1>2. /\ Len(text) \in Nat /\ q \in 1 .. Len(text) /\ q # 0 /\ q \in Int
      /\ e \in Int /\ q + 1 <= e /\ e <= Len(text) + 1
  BY <1>1, AssignsPlaces
<1>3. GetKey(text, key) = q
  BY GetKeyIs DEF Blank
<1>4. text[q] = v /\ v # "\n"
  BY <1>1 DEF Assigns, Blank
<1>5. /\ \A k \in q + 1 .. e - 1 : text[k] = " "
      /\ e <= Len(text) => text[e] = "\n"
  BY <1>1 DEF Assigns
<1> DEFINE I == {i \in q .. Len(text) : text[i] = "\n"}
           end == SelectInSubSeq(text, q, Len(text), LAMBDA x : x = "\n")
           w == SubSeq(text, q, e - 1)
<1>6. end = IF I # {} THEN Min(I) ELSE 0
  BY DEF SelectInSubSeq
<1>7. \A i \in q .. e - 1 : text[i] # "\n"
  <2>1. \A i \in q .. e - 1 : i = q \/ i \in q + 1 .. e - 1
    BY <1>2
  <2> QED
    BY <1>4, <1>5, <2>1
<1>8. FileValue(text, key) = SubSeq(text, q, IF end = 0 THEN Len(text) ELSE end - 1)
  <2> HIDE DEF end
  <2> QED
    BY <1>2, <1>3, Zenon DEF FileValue, end
<1>9. (IF end = 0 THEN Len(text) ELSE end - 1) = e - 1
  <2>1. CASE e = Len(text) + 1
    <3>1. I = {}
      BY <1>2, <1>7, <2>1
    <3> HIDE DEF I, end
    <3> QED
      BY <1>2, <1>6, <2>1, <3>1
  <2>2. CASE e <= Len(text)
    <3>1. e \in I
      <4>1. e \in q .. Len(text)
        BY <1>2, <2>2
      <4>2. text[e] = "\n"
        BY <1>5, <2>2
      <4> QED
        BY <4>1, <4>2
    <3>2. \A i \in I : e <= i
      BY <1>2, <1>7
    <3>3. I \subseteq Int
      BY <1>2
    <3> HIDE DEF I, end
    <3>4. Min(I) = e
      BY <3>1, <3>2, <3>3, MinIs
    <3> QED
      BY <1>2, <1>6, <3>1, <3>4
  <2> QED
    BY <1>2, <2>1, <2>2
<1>10. FileValue(text, key) = w
  <2> HIDE DEF end
  <2> QED
    BY <1>8, <1>9
<1>11. /\ w \in Seq(S) /\ Len(w) = e - q /\ Len(w) # 0 /\ w[1] = v
       /\ \A i \in 2 .. Len(w) : w[i] = text[q + i - 1] /\ q + i - 1 \in q + 1 .. e - 1
  BY <1>2, <1>4
<1> HIDE DEF w
<1>12. \A i \in 2 .. Len(w) : w[i] \in Blank
  BY <1>5, <1>11 DEF Blank
<1>13. TrimBlanks(w) = <<w[1]>>
  BY <1>11, <1>12, TrimBlanksIs
<1> QED
  BY <1>10, <1>11, <1>13
=============================================================================
